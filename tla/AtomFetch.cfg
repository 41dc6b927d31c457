\* Two sources, the refresh thread, a one-shot, and one event of the environment.
CONSTANTS
    gtfobins = gtfobins
    sigma = sigma
    r1 = r1
    r2 = r2
    a = a
    b = b
    c = c
    d = d
    SourceList <- TwoSources
    Revs = {r1, r2}
    Tarball <- Tarballs
    Pids = {1, 2}
    MaxTotal = 10
    MaxEntry = 4
    MaxAtoms = 3
    MinLen = 3
    MaxLen = 10
    Broken = broken
    StartHead <- GtfobinsMoved
    StartPins <- BothAtR1
    PinFiles <- Edits
    MaxTicks = 2
    MaxEvents = 1
SPECIFICATION Spec
INVARIANTS TypeOK PublishedWhole PinsHold
PROPERTIES AnchorKept RefreshStops LoadRecovers
CHECK_DEADLOCK FALSE
