\* Two connections compete for one request slot and stream to their ends.
CONSTANTS
    Conns = {c1, c2}
    NoConn = none
    Uids = {u1, u2}
    MaxConn = 1
    TotalCap = 2
    PerUidCap = 1
    InboxCap = 1
    MaxEvents = 3
SPECIFICATION Spec
INVARIANTS TypeOK SlotsExact CapsKept ListedWhileStreaming NothingLostSilently
PROPERTY DeadPeersReleased
