---------------------------- MODULE MC_KeyList ----------------------------
EXTENDS KeyList, TLC

CONSTANTS k1, k2, k3, v1, v2

MCKey == {k1, k2, k3}
MCVal == {v1, v2}
\* One key in the lower half of [0, 3], two in the upper half, so that a
\* split of the full range moves two records that may sit side by side.
MCHash == (k1 :> 0) @@ (k2 :> 2) @@ (k3 :> 3)
=============================================================================
