CONSTANTS
    CpIPs <- MCCpIPs
    Pool <- MCPool
    MaxAnswer = 2
    SyncReplies <- MCSyncReplies

SPECIFICATION Spec

\* Both calls return: the final state, with both strings built, has no successor.
CHECK_DEADLOCK FALSE

INVARIANT CpMatchesSpecWhenUnambiguous
INVARIANT SyncNeverEmpty
