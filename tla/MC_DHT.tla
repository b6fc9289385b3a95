------------------------------- MODULE MC_DHT -------------------------------
(* Model-checking instance of DHT: three nodes, a 3-bit key space and two   *)
(* keys, one in each half of the space so that every split moves a record. *)
EXTENDS DHT, TLC

CONSTANTS n1, n2, n3, n4, k1, k2, v1, v2

MCNode == {n1, n2, n3}
\* four nodes, so that two joins can chase the same largest range
MCNode4 == {n1, n2, n3, n4}
MCKey == {k1, k2}
MCVal == {v1, v2}
\* one payload: what a record holds does not matter to where it is placed
MCVal1 == {v1}
\* one key, in the upper half of the space, so that the first split moves it
MCKey1 == {k2}
MCHash1 == k2 :> 5
\* hash_ssn for the two keys: neither hashes to 255 (2^W - 1)
MCHash == (k1 :> 2) @@ (k2 :> 5)
\* for a 2-bit key space
MCHashSmall == (k1 :> 1) @@ (k2 :> 2)
\* k2 hashes to 2^W - 1, the position a node in its grace window claims
MCHashTop == (k1 :> 2) @@ (k2 :> 7)
=============================================================================
