\* Two concurrent requests on a trust file that has room for one of two
\* hashes; file operations and directory syncs fail.
CONSTANTS
    Atoms = {}
    Hosts = {}
    Hashes = {k1, k2}
    Threads = {t1, t2}
    NoThread = nobody
    TrustCap = 1
    SessionCap = 2
    LazyLoads = TRUE
    Faults = {"io", "sync"}
SPECIFICATION Spec
SYMMETRY Symmetry
INVARIANTS SessionNotLost TrustCapKept MemoryFollowsDisk
