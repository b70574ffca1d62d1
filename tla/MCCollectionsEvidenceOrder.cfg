\* One operator who follows the documented order, no fault, and one fresh directory when
\* the supplement turns out to be bound to another manifest.  The workflow stops: the
\* operator has no command left that is not refused.
SPECIFICATION FairSpec
CONSTANTS
    Refs = {r1}
    Operator = op
    Others = {}
    Order <- DocumentedOrder
    MaxFaults = 0
    MaxFresh = 1
PROPERTIES
    DocumentedOrderEnds
CHECK_DEADLOCK FALSE
