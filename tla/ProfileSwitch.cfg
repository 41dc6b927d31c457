\* Two concurrent switches; every BPF call may fail, one rule fits no key
\* and one is configured twice.
CONSTANTS
    b1 = b1
    b2 = b2
    n1 = n1
    n2 = n2
    bad = bad
    Profiles = {session, strict}
    Strict = strict
    DenyBins <- BinsAndBad
    DenyNames <- TwoNames
    Unencodable = {bad}
    MapCap = 2
    CallsFail = TRUE
    Threads = {t1, t2}
    NoThread = nobody
SPECIFICATION Spec
INVARIANTS TypeOK DenyMapFollowsProfile CountsHonest
