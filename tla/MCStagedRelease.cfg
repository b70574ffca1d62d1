\* Two loaders of each tool, two files each: one package that nobody disturbs, with a
\* fault; one package and a statement from outside; two packages.  And two Moments
\* loaders with one package and a fault.
SPECIFICATION LoadersSpec
CONSTANTS
    b1 = b1
    b2 = b2
    m1 = m1
    d1 = d1
    NoBuild = NoBuild
    Operators = {p1, p2}
    Builds <- TwoBuilds
    Tools <- AllTools
    Scenes <- ThreeScenes
    ShardCount = 2
    PrepareFiles = 2
INVARIANTS
    TargetsAreSound
PROPERTIES
    GuardsHold
    ImplementsGates
    ServedIsConfirmed
    ReleasesDecided
