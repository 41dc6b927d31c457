\* Two requests at a time on one pid, block mode.
CONSTANTS
    Pids = {p1}
    Uids = {root, u1}
    Root = root
    Threads = {t1, t2}
    Mode = "Block"
    Enforce = "one_level"
    MapCap = 1
    DeletesFail = FALSE
    MaxBorn = 2
SPECIFICATION Spec
INVARIANT KernelAgreesWhenQuiet
