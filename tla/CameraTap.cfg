SPECIFICATION Spec
CONSTANTS
    VideoLength = 3
    MinLength = 2
    MaxTakes = 2
PROPERTY
    TapStartsTake
CHECK_DEADLOCK FALSE
