\* Two concurrent mutations, kills and power losses; one atom, two hosts with
\* their decisions.
CONSTANTS
    Atoms = {a1}
    Hosts = {h1, h2}
    Hashes = {}
    Threads = {t1, t2}
    NoThread = nobody
    TrustCap = 1
    SessionCap = 1
    LazyLoads = FALSE
    Faults = {"power"}
SPECIFICATION Spec
SYMMETRY Symmetry
INVARIANTS TypeOK AckedPersists SessionNotLost OneDecisionPerHost
