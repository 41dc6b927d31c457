\* As ExecGate.cfg: a process that is refused must be marked or descend from a
\* marked one.
CONSTANTS
    Pids = {p1, p2, p3}
    InitPid = init
    Cmds = {"sh", "curl"}
    Verdict <- MCVerdict
    Denied = {"curl"}
    Interpreters = {"sh"}
    Profiles = {"session", "smart", "strict"}
    Profile = "session"
    Shell = "sh"
    Settings <- MCSettings
    SmartCanFreeze = FALSE
    CanKill = TRUE
    MapCap = 2
    RingCap = 1
    QueueCap = 1
    MaxSteps = 5
SPECIFICATION Spec
INVARIANT NoStrangerRefused
CHECK_DEADLOCK FALSE
