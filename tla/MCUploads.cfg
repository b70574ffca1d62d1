\* Three objects or Drops, two workers (one in the recovery), two faults.
SPECIFICATION FairSpec
CONSTANTS
    k1 = k1
    k2 = k2
    k3 = k3
    d1 = d1
    d2 = d2
    d3 = d3
    o1 = o1
    o2 = o2
    r1 = r1
    r2 = r2
    r3 = r3
    big = big
    small = small
    taken = taken
    Keys <- SmallKeys
    Archive <- SmallOrder
    Order <- SmallOrder
    CanBeForeign = {k3}
    CanBeDamaged = {k2}
    Reuses = {k1}
    DropOrder <- SmallDrops
    Bytes <- SmallBytes
    Candidates <- SmallCandidates
    Oversize = {o1}
    Fading = {d2, d3}
    CanConflict = {d1}
    Rows <- SmallRows
    Objects <- SmallObjects
    Content <- SmallContent
    Parts <- SmallParts
    Foreign = {taken}
    Concurrency = 2
    MaxTries = 2
    MaxFailures = 1
    SyncEvery = 2
    TornTails = TRUE
    MaxFaults = 2
    MaxUploads = 5
CHECK_DEADLOCK FALSE
INVARIANTS
    RecordedIsStored
    FaultsAreBounded
PROPERTIES
    CompleteIsStored
    AcceptedIsSecondPass
    UploadsEnd
