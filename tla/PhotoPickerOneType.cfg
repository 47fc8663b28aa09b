SPECIFICATION Spec
CONSTANTS
    Asset <- MCAsset
    Video <- MCVideo
    Library <- MCLibrary
    Album <- MCAlbum
    Options <- MCOptions
    Defaults <- MCDefaults
    MaxFetch = 3
    MaxChange = 2
INVARIANT
    OneMediaType
CHECK_DEADLOCK FALSE
