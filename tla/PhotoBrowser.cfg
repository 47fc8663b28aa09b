SPECIFICATION BSpec
VIEW LiveView
CONSTANTS
    Asset <- MCAsset
    Video <- MCVideo
    Library <- MCLibrary
    Album <- MCAlbum
    Options <- MCOptions
    Defaults <- MCDefaults
    MaxPicks = 3
    MaxFetch = 3
    MaxChange = 1
INVARIANTS
    BTypeOK
    ListsAgree
    SoundUntilDrift
    ButtonTruthful
    NoCrashUntilChange
    ButtonsAgree
CHECK_DEADLOCK FALSE
