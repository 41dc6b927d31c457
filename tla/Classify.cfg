\* Two requests at a time, four packages, a cache of one entry.
CONSTANTS
    lodash = lodash
    evil = evil
    long = long
    atom = atom
    Threads = {t1, t2}
    Uids = {"user", "root"}
    Root = "root"
    Pids = {"p1"}
    Callers <- Users
    Commands <- Sent
    Configs <- AllConfigs
    Packages = {lodash, evil, long, "event-stream"}
    LongNames = {long}
    FlaggedPackages = {"event-stream"}
    Atoms = {atom}
    MaxCache = 1
    MaxParsed = 4
    MaxProbed = 3
    TTL = 1
    Timeout = 1
    StartUpstream <- Known
    MaxTime = 2
    MaxRequests = 2
    MaxEvents = 1
SPECIFICATION Spec
INVARIANTS TypeOK StrictestWins VerdictEarned WorkBounded AnswersFresh
PROPERTY EveryRequestAnswered
CHECK_DEADLOCK FALSE
