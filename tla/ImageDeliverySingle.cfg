SPECIFICATION Spec
CONSTANTS
    Asset = {a, b}
    Blank = Blank
    MaxPicks = 2
    MaxTaps = 2
INVARIANT SingleDeliversOne
CHECK_DEADLOCK FALSE
