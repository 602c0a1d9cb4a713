CONSTANTS
    b1 = b1
    b2 = b2
    Backends <- MCBackends
    MaxSessions = 5
    AlwaysReady = FALSE

SYMMETRY Symmetry

SPECIFICATION Spec

INVARIANT TypeOK
INVARIANT ClientViewMatchesServer
PROPERTY OwnRecordOnly
PROPERTY SessionContractSpec
