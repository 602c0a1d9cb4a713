CONSTANTS
    b1 = b1
    b2 = b2
    Backends <- MCBackends
    MaxSessions = 2
    AlwaysReady = FALSE

SPECIFICATION Spec

PROPERTY SendStateNeedsRegistration
