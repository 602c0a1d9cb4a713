CONSTANTS
    b1 = b1
    b2 = b2
    Backends <- MCBackends
    MaxSessions = 3
    AlwaysReady = TRUE

SYMMETRY Symmetry

SPECIFICATION Spec

INVARIANT IInv
