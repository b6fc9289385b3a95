------------------------------ MODULE KVStore ------------------------------
(***************************************************************************)
(* What the ring promises its clients, as one key/value map.  A client     *)
(* request (VAL_INSERT, VAL_REMOVE, VAL_LOOKUP) is pending from when it is *)
(* sent until it takes effect at once on the map, is answered from the     *)
(* map, or is lost (UDP and TCP peers give no delivery guarantee).  A      *)
(* stored record changes only by a request applied to it.                  *)
(***************************************************************************)
EXTENDS Naturals

CONSTANTS Key, Val, NoVal, MaxReq

VARIABLES kv, pend, answers

Req == [t: {"INSERT", "REMOVE", "LOOKUP"}, key: Key, val: Val \cup {NoVal},
        rid: 1..MaxReq]

Init ==
    /\ kv = [k \in Key |-> NoVal]
    /\ pend = {}
    /\ answers = {}

Issue(r) ==
    /\ r \in Req /\ r \notin pend
    /\ pend' = pend \cup {r}
    /\ UNCHANGED <<kv, answers>>

\* An insert overwrites, a remove of an absent key is a no-op.
Apply(r) ==
    /\ r \in pend /\ r.t \in {"INSERT", "REMOVE"}
    /\ kv' = [kv EXCEPT ![r.key] = IF r.t = "INSERT" THEN r.val ELSE NoVal]
    /\ pend' = pend \ {r}
    /\ UNCHANGED answers

\* A lookup is answered with the record stored at that moment.
Answer(r) ==
    /\ r \in pend /\ r.t = "LOOKUP" /\ kv[r.key] # NoVal
    /\ answers' = answers \cup {[rid |-> r.rid, val |-> kv[r.key]]}
    /\ pend' = pend \ {r}
    /\ UNCHANGED kv

Lose(S) ==
    /\ S # {} /\ S \subseteq pend
    /\ pend' = pend \ S
    /\ UNCHANGED <<kv, answers>>

Next ==
    \/ \E r \in pend' \ pend : Issue(r)     \* only a new element can be issued
    \/ \E r \in pend : Apply(r) \/ Answer(r)
    \/ \E S \in SUBSET pend : Lose(S)

Spec == Init /\ [][Next]_<<kv, pend, answers>>
=============================================================================
