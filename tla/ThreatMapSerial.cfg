\* One request at a time on one pid with up to three occupants; block mode, as
\* loaded to enforce.
CONSTANTS
    Pids = {p1}
    Uids = {root, u1}
    Root = root
    Threads = {t1}
    Mode = "Block"
    Enforce = "one_level"
    MapCap = 1
    DeletesFail = FALSE
    MaxBorn = 3
SPECIFICATION Spec
INVARIANT KernelAgreesWhenQuiet
