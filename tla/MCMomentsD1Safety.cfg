\* Two loaders, two packages of equal size, one fault, one outside statement, two
\* verification reports of each package.
SPECIFICATION Spec
CONSTANTS
    m1 = m1
    m2 = m2
    m3 = m3
    d1 = d1
    d2 = d2
    b1 = b1
    b2 = b2
    NoBuild = NoBuild
    Operators = {p1, p2}
    Builds <- TwoBuilds
    Moments <- MCMoments
    Drops <- MCDrops
    Plan <- TwoPlans
    MaxReports = 2
    MaxFaults = 1
    MaxStrays = 1
SYMMETRY Symmetric
INVARIANTS
    TypeOK
    ReadyIsExactBuild
    TargetIsOneLoad
    ActivationIsEvidence
PROPERTIES
    FrozenOnceReady
    ImplementsGate
