SPECIFICATION Spec
CONSTANTS
    Asset <- MCAsset
    Video <- MCVideo
    Library <- MCLibrary
    Album <- MCAlbum
    Options <- MCOptions
    Defaults <- MCDefaults
    MaxFetch = 3
    MaxChange = 2
INVARIANTS
    TypeOK
    CapRespected
    SoundUntilChange
    CellsInSync
    PickedCellsEnabled
CHECK_DEADLOCK FALSE
