SPECIFICATION FilesSpec
CONSTANTS
    MaxIds = 2
    MaxRequests = 2
    MaxBuffer = 2
    Readers = 2
    Sizes = {1, 2}
    Budgets = {1, 2}
    f1 = f1
    f2 = f2
    Files = {f1, f2}
    NoFile = none
    OpenFile = f1
    Commands = 2
    Capacity = 1
    WatchCapacity = 1
    MaxWrites = 1
    MaxExtras = 1
INVARIANTS
    FilesAreHonest
    NothingMissed
    
    OwnSaveIsQuiet
PROPERTIES
    EverythingSettles
\* A stop is the end of both pipelines.
CHECK_DEADLOCK FALSE
