SPECIFICATION Spec
CONSTANTS
    Body = {b1, b2}
    Attachment = {x, y}
    MaxNotes = 2
INVARIANTS
    TypeOK
    HistoryBounded
    ScreenIsRecorded
    ButtonsFollow
    HostKnowsAttachments
PROPERTY
    ImplementsTimeline
CHECK_DEADLOCK FALSE
