SPECIFICATION StorageSpec
CONSTANTS
    Tree <- Directories
    Real <- Folders
    VolumeList <- Disks
    MaxShares = 3
INVARIANTS
    StorageTypeOK
    DataCountedOnce
    PoolsCountedOnce
PROPERTIES
    ScanCompletes
