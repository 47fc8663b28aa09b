SPECIFICATION BSpec
VIEW LiveView
CONSTANTS
    Asset <- MCAsset
    Video <- MCVideo
    Library <- MCLibrary
    Album <- MCAlbum
    Options <- MCOptions
    Defaults <- MCDefaults
    MaxPicks = 3
    MaxFetch = 3
    MaxChange = 1
PROPERTY
    PicksTheTappedPage
CHECK_DEADLOCK FALSE
