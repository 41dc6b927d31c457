\* Three ids that are used again; maps with room
\* for two entries, buffers with room for one event.
CONSTANTS
    Pids = {p1, p2, p3}
    InitPid = init
    Cmds = {"sh", "curl"}
    Verdict <- MCVerdict
    Denied = {"curl"}
    Interpreters = {"sh"}
    Profiles = {"session", "smart", "strict"}
    Profile = "session"
    Shell = "sh"
    Settings <- MCSettings
    SmartCanFreeze = FALSE
    CanKill = TRUE
    MapCap = 2
    RingCap = 1
    QueueCap = 1
    MaxSteps = 5
SPECIFICATION Spec
INVARIANTS TypeOK SubtreeCovered NoStrangerWatched
PROPERTY BadExecDies
CHECK_DEADLOCK FALSE
