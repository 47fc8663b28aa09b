SPECIFICATION Spec
CONSTANTS
    Asset = {a, b, c}
    Blank = Blank
    MaxPicks = 2
    MaxTaps = 2
INVARIANTS
    TypeOK
    ChainInStep
    DeliveryMatchesPicks
    DeliveredOnce
PROPERTY
    NextIsAnswered
CHECK_DEADLOCK FALSE
