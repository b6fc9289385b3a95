CONSTANTS
    k1 = k1  k2 = k2  k3 = k3  v1 = v1  v2 = v2
    NoVal = NoVal
    Junk = Junk
    Key <- MCKey
    Val <- MCVal
    Hash <- MCHash
    W = 2
    MAX_SIZE = 3
SPECIFICATION Spec
INVARIANT KeyListMirrorsTable TableWithinRange RecordsConserved
CHECK_DEADLOCK FALSE
