\* Two connection threads, one pid with up to two occupants.
CONSTANTS
    Pids = {p1}
    Uids = {root, u1}
    Root = root
    Threads = {t1, t2}
    Mode = "Block"
    Enforce = "one_level"
    MapCap = 1
    DeletesFail = TRUE
    MaxBorn = 2
SPECIFICATION Spec
SYMMETRY Symmetry
INVARIANTS TypeOK MarksAuthorised NoInheritedLevel
PROPERTY LiveMarkKept
