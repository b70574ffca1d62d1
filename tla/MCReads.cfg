\* Two releases or three configurations, two entries in the cache of the exports, one in that of the pages.
SPECIFICATION MCFairSpec
CONSTANTS
    Parts = {"release", "pages", "export", "zip", "images"}
    ExportDeployments <- MovingArchive
    b1 = b1
    b2 = b2
    NoBuild = NoBuild
    Builds = {b1, b2}
    Moments <- SomeMoments
    Projection <- TwoProjections
    PageSize = 1
    MaxRetries = 1
    MaxPending = 1
    MaxEntries = 2
    MaxReleases = 2
    PageDeployments <- SomeDeployments
    PageTables <- SomeTables
    Owner = 1
    Drop = 1
    Collection = 1
    PageKinds <- AllListings
    PageRows = 1
    MaxPage = 3
    SearchPages = 2
    MaxExport = 3
    MaxCopies = 1
    ExportTables <- ArchiveTables
    ExportPage = 2
    ExportRetries = 1
    MaxLimited = 2
    Files = 2
    MaxFiles = 2
    HasWorker = TRUE
    References <- ImageReferences
    Pinned = {1, 2}
    Addressed = {1}
    Stored <- TwoBytes
    MaxZip = 5
    MaxBlob = 3
    MaxImages = 2
    MaxAttempts = 2
CHECK_DEADLOCK FALSE
INVARIANTS
    ExportsAreOneRelease
    TakedownHolds
    WalkIsWhole
    CursorsAreAccepted
    CachedIsLoaded
    SavedIsWhole
PROPERTIES
    ReadsEnd
