CONSTANTS
    o1 = o1
    o2 = o2
    w1 = w1
    Objs <- MCObjs
    LbName <- MCLbName
    Until <- MCUntil
    CpAddr <- MCCpAddr
    SyncReplies <- MCSyncReplies
    Workers <- MCWorkers
    Fills <- MCFills
    MaxLbs = 3
    MaxTime = 3

SPECIFICATION Spec

INVARIANT NotReservedAfterExpiry
