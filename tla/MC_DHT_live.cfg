CONSTANTS
    n1 = n1  n2 = n2  n3 = n3  n4 = n4
    k1 = k1  k2 = k2
    v1 = v1  v2 = v2
    None = None
    NoVal = NoVal
    Node <- MCNode
    Key <- MCKey
    Val <- MCVal
    Hash <- MCHash
    W = 3
    MaxReq = 1
    Quiet = {"leave", "transfer", "connect", "tracker"}
SPECIFICATION FairSpec
PROPERTY JoinCompletes RequestsResolve AcceptReturns
