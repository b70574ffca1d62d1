\* One worker, one fault, appends that may leave part of their line.
SPECIFICATION FairSpec
CONSTANTS
    r1 = r1
    r2 = r2
    r3 = r3
    big = big
    small = small
    taken = taken
    Rows <- MixedRows
    Objects <- MixedObjects
    Content <- MixedContent
    Parts <- MixedParts
    Foreign = {taken}
    Concurrency = 1
    Attempts = 2
    TornTails = TRUE
    MaxFaults = 1
    MaxUploads = 5
CHECK_DEADLOCK FALSE
PROPERTIES
    RecoveryEnds
