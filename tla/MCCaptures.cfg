\* Two changes of a source, three runs of a capture, two faults.
SPECIFICATION MCFairSpec
CONSTANTS
    Parts = {"holdings", "moments", "collections", "media", "import", "backfill", "supplement"}
    d1 = d1
    d2 = d2
    w1 = w1
    w2 = w2
    c1 = c1
    c2 = c2
    EntityCount = 2
    Counted = {1}
    MaxKey = 2
    FirstRows <- FirstKeys
    Captures = {c1, c2}
    PageSize = 1
    MaxChanges = 2
    MaxRuns = 3
    MaxFaults = 2
    Pool = {w1, w2}
    Identities <- SomeIdentities
    FirstIdentities <- TwoRows
    DropOfIdentity <- SomeDropOf
    VisibleDrops = {d1}
    ShardCount = 2
    IdentityPage = 1
    CollectionTables <- SomeCollectionTables
    CollectionRows <- SomeCollectionRows
    CountedTables = {"collections", "items"}
    CollectionOfRow <- SomeCollectionOfRow
    DropOfItem <- ItemsName
    CollectionPage = 1
    DropBatch = 1
    MaxTableFaults = 1
    MediaRows <- ThreeMedia
    MomentOfMedia <- SomeMomentOfMedia
    NoMoment = NoMoment
    DropsOfMoment <- SomeDropsOfMoment
    HiddenDrops = {2}
    Processed <- ThreeMedia
    Originals <- ThreeMedia
    BytesOfMedia <- SomeBytesOfMedia
    MediaAnswers <- SomeMediaAnswers
    MediaAttempts = 2
    ImportSources <- SomeImportSources
    RemoteArt <- SomeRemoteArt
    LocalArt <- SomeLocalArt
    RangeEntries = 2
    StatementRows = 2
    ShardRows = 3
    Base = 2
    AddressDigits = 3
    MaxPrefix = 2
    OwnersOfTokens <- SomeOwnersOfTokens
    MaxRequestFaults = 3
    NamedDrops = {1, 2}
    NamedPage = 1
    Candidates <- OneTwo
    Barred <- OneBarred
    ArtworkBytes <- SameBytes
    ArtworkAnswers <- SomeArtworkAnswers
    ArtworkArchives <- SomeArtworkArchives
    Legacy = {2}
    MaxAnswerChanges = 1
CHECK_DEADLOCK FALSE
INVARIANTS
    ProgressIsExact
    StandingRowsAreCaptured
    PublicIsVisible
    AttestedIsOneState
    ImportIsTheSource
PROPERTIES
    BuildsAreSnapshots
    WhatIsWrittenIsCurrent
    CapturesEnd
