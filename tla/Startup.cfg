\* A supervised unit and a second daemon started by hand, with faults.
CONSTANTS
    unit = unit
    hand = hand
    Procs = {unit, hand}
    NoProc = nobody
    Supervised = {unit}
    Commands <- UnitAndHand
    MaxSecs = 4200
    MaxManual = 2
    MaxFaults = 2
SPECIFICATION Spec
INVARIANT ServesAsAsked
PROPERTIES ImplementsOneDaemon AvailableAgain
CHECK_DEADLOCK FALSE
