SPECIFICATION Spec
CONSTANTS
    None = None
    Files <- McFiles
    Modules <- McModules
    LibraryOf <- McLibraryOf
    LocalMap <- McLocalMap
    RemoteMaps <- McRemoteMaps
    Offset <- McOffset
    MaxSignals = 2
    MayFail = {"local", "send"}
    MayCrash <- McAnyCall
INVARIANTS TypeOK NothingLeftBehind SuccessMeansLoaded HeldBySignalOnly
PROPERTY ImplementsCommand
CHECK_DEADLOCK FALSE
