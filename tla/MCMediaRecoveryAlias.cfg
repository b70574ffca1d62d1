\* Two workers, two aliases of one large original and a small original, one fault.
SPECIFICATION Spec
CONSTANTS
    r1 = r1
    r2 = r2
    r3 = r3
    big = big
    small = small
    taken = taken
    Rows <- AliasRows
    Objects <- AliasObjects
    Content <- AliasContent
    Parts <- AliasParts
    Foreign = {}
    Concurrency = 2
    Attempts = 2
    TornTails = FALSE
    MaxFaults = 1
    MaxUploads = 5
SYMMETRY Symmetry
CHECK_DEADLOCK FALSE
INVARIANTS
    JournalBehindR2
    StoredRowsAreClosed
PROPERTIES
    ImplementsStore
