CONSTANTS
    Stale = Stale
    Pdus <- MCInserts
    JoinResp <- MCJoinResp
    SyncFirst = FALSE
    MaxPdus = 3
    Split = TRUE
SPECIFICATION Spec
INVARIANT DecodedAsSent
