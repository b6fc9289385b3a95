CONSTANTS
    Stale = Stale
    Pdus <- MCPdus
    JoinResp <- MCJoinResp
    SyncFirst = TRUE
    MaxPdus = 4
    Split = FALSE
SPECIFICATION Spec
INVARIANT DecodedAsSent
PROPERTY EveryPduHandled
