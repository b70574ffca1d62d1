\* One reference, the operator and a second session, two faults.
SPECIFICATION FairSpec
CONSTANTS
    Refs = {r1}
    Operator = op
    Others = {other}
    Order <- MCOrder
    MaxFaults = 2
    MaxFresh = 2
INVARIANTS
    BuiltIsVerified
    PackageIsOneBuild
PROPERTIES
    AcceptedIsVerified
    
