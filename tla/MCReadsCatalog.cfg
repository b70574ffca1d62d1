\* One configuration, in which the holdings are newer than the catalog.
SPECIFICATION MCFairSpec
CONSTANTS
    Parts = {"export"}
    ExportDeployments <- RefreshedHoldings
    b1 = b1
    b2 = b2
    NoBuild = NoBuild
    Builds = {b1, b2}
    Moments <- SomeMoments
    Projection <- TwoProjections
    PageSize = 1
    MaxRetries = 1
    MaxPending = 1
    MaxEntries = 2
    MaxReleases = 2
    PageDeployments <- SomeDeployments
    PageTables <- SomeTables
    Owner = 1
    Drop = 1
    Collection = 1
    PageKinds <- AllListings
    PageRows = 1
    MaxPage = 3
    SearchPages = 2
    MaxExport = 3
    MaxCopies = 1
    ExportTables <- ArchiveTables
    ExportPage = 2
    ExportRetries = 1
    MaxLimited = 2
    Files = 2
    MaxFiles = 2
    HasWorker = TRUE
    References <- ImageReferences
    Pinned = {1, 2}
    Addressed = {1}
    Stored <- TwoBytes
    MaxZip = 5
    MaxBlob = 3
    MaxImages = 2
    MaxAttempts = 2
CHECK_DEADLOCK FALSE
INVARIANTS
    UnmovedExportCompletes
