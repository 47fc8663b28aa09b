SPECIFICATION PSpec
CONSTANTS
    VideoLength = 2
    MinLength = 1
    MaxTakes = 2
    GridLimit = 2
    MinTitle = 1
    MaxTitle = 1
    Library = {1}
    MaxVisits = 2
    MaxExports = 2
    MaxJobs = 2
    Seconds = 1
INVARIANTS
    PTypeOK
    TakesBounded
    FileOfTheTake
    ScreensTakeTurns
    CrashNeedsBadLuck
    GridRule
    PhotosOrVideo
    ExportsKept
PROPERTIES
    TakeIsShown
    VideoReachesEditor
CHECK_DEADLOCK FALSE
