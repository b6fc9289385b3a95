------------------------------ MODULE KeyList ------------------------------
(***************************************************************************)
(* The record store of one node as hash_handling.c keeps it: the hash      *)
(* table and, beside it, the array self_data->ssns[MAX_SIZE] (util.h) of   *)
(* its keys, which the split and departure transfers iterate.  Every       *)
(* operation that touches both is an action: a local insert, a local       *)
(* remove, the split of send_new_range_and_entries and the hand-over of    *)
(* send_all_entries.  Requests for keys outside the range are forwarded    *)
(* and leave both untouched; DHT.tla models them.                          *)
(***************************************************************************)
EXTENDS Integers, FiniteSets

CONSTANTS
    Key,        \* ssn values
    Val,        \* (name, email) pairs
    NoVal,      \* no entry in the hash table
    Junk,       \* an ssns slot never written (the struct is malloc'd)
    Hash,       \* hash_ssn
    W,          \* width of hash_t
    MAX_SIZE    \* length of ssns (256 in util.h)

HashMax == 2^W - 1
Pos == 0..HashMax
Idx == 0..MAX_SIZE - 1

VARIABLES
    ssns,       \* self_data->ssns
    table,      \* self_data->hash_table: Key -> Val \cup {NoVal}
    rs, re,     \* range_start, range_end
    sent,       \* records sent to a neighbour by the transfers: <<key, val>>
    kv,         \* the records the node was asked to keep (history)
    overflow,   \* a key was written past the end of ssns
    pc          \* "serving" or "gone" (after send_all_entries)

vars == <<ssns, table, rs, re, sent, kv, overflow, pc>>

\* get_num_entries(hash_table)
num_entries(t) == Cardinality({k \in Key : t[k] # NoVal})

\* check_range against [lo, hi]
InRange(k, lo, hi) == lo <= Hash[k] /\ Hash[k] <= hi

\* Removing ssns[i] of n entries: the later ones move down one slot and the
\* last used slot is set to NULL (the loop over j, then ssns[n - 1] = NULL).
RemoveAt_noshift(s, i, n) == [s EXCEPT ![i] = Junk]

RemoveAt(s, i, n) ==
    [j \in Idx |-> IF j < i \/ j >= n THEN s[j]
                   ELSE IF j < n - 1 THEN s[j + 1] ELSE Junk]

Init ==
    /\ ssns = [i \in Idx |-> Junk]
    /\ table = [k \in Key |-> NoVal]
    /\ rs \in Pos /\ re \in rs..HashMax
    /\ sent = {}
    /\ kv = [k \in Key |-> NoVal]
    /\ overflow = FALSE
    /\ pc = "serving"

\* handle_ht_insert, key in range: ht_insert upserts; when the number of
\* entries grew, the key is stored at ssns[num_entries], with no check
\* that num_entries < MAX_SIZE.
handle_ht_insert(k, v) ==
    LET n == num_entries(table)
        t == [table EXCEPT ![k] = v]
    IN  /\ pc = "serving" /\ InRange(k, rs, re)
        /\ table' = t
        /\ kv' = [kv EXCEPT ![k] = v]
        /\ IF num_entries(t) = n THEN UNCHANGED <<ssns, overflow>>
           ELSE IF n < MAX_SIZE THEN ssns' = [ssns EXCEPT ![n] = k] /\ UNCHANGED overflow
           ELSE overflow' = TRUE /\ UNCHANGED ssns
        /\ UNCHANGED <<rs, re, sent, pc>>

\* handle_ht_remove, key in range: the first ssns[i] equal to the key is
\* removed from the table and from the array; an absent key changes nothing.
handle_ht_remove(k) ==
    LET n == num_entries(table) IN
    /\ pc = "serving" /\ InRange(k, rs, re)
    /\ kv' = [kv EXCEPT ![k] = NoVal]
    /\ IF \E i \in 0..n - 1 : ssns[i] = k
       THEN LET i == CHOOSE i \in 0..n - 1 : ssns[i] = k /\ \A j \in 0..i - 1 : ssns[j] # k
            IN  /\ table' = [table EXCEPT ![k] = NoVal]
                /\ ssns' = RemoveAt(ssns, i, n)
       ELSE UNCHANGED <<table, ssns>>
    /\ UNCHANGED <<rs, re, sent, overflow, pc>>

\* The transfer loop of send_new_range_and_entries over ssns[i], i < n,
\* with the range already cut to [lo, hi]: a key outside it is sent,
\* removed from the table and from the array, and i stays; a key the table
\* does not hold ends the function.  Result: <<ssns, table, sent>>.
RECURSIVE SplitLoop_skip(_, _, _, _, _, _, _)
SplitLoop_skip(s, t, out, i, n, lo, hi) ==
    IF i >= n THEN <<s, t, out>>
    ELSE LET k == s[i] IN
         IF InRange(k, lo, hi) THEN SplitLoop_skip(s, t, out, i + 1, n, lo, hi)
         ELSE IF t[k] = NoVal THEN <<s, t, out>>
         ELSE SplitLoop_skip(RemoveAt(s, i, n), [t EXCEPT ![k] = NoVal],
                             out \cup {<<k, t[k]>>}, i + 1, n - 1, lo, hi)

RECURSIVE SplitLoop(_, _, _, _, _, _, _)
SplitLoop(s, t, out, i, n, lo, hi) ==
    IF i >= n THEN <<s, t, out>>
    ELSE LET k == s[i] IN
         IF InRange(k, lo, hi) THEN SplitLoop(s, t, out, i + 1, n, lo, hi)
         ELSE IF t[k] = NoVal THEN <<s, t, out>>
         ELSE SplitLoop(RemoveAt(s, i, n), [t EXCEPT ![k] = NoVal],
                        out \cup {<<k, t[k]>>}, i, n - 1, lo, hi)

\* send_new_range_and_entries: range_end becomes the middle point and the
\* records of the upper half go to the new successor.
Split ==
    LET mid == (re - rs) \div 2 + rs
        r   == SplitLoop(ssns, table, {}, 0, num_entries(table), rs, mid)
    IN  /\ pc = "serving"
        /\ re' = mid
        /\ ssns' = r[1] /\ table' = r[2] /\ sent' = sent \cup r[3]
        /\ UNCHANGED <<rs, kv, overflow, pc>>

\* send_all_entries: every ssns[i], i < n, the table holds is sent; then
\* each is removed and freed (the slots keep the freed pointers) and the
\* table is destroyed.
send_all_entries_from1(n) ==
    {<<ssns[i], table[ssns[i]]>> : i \in {i \in 1..n - 1 : table[ssns[i]] # NoVal}}

send_all_entries(n) ==
    {<<ssns[i], table[ssns[i]]>> : i \in {i \in 0..n - 1 : table[ssns[i]] # NoVal}}

Leave ==
    /\ pc = "serving"
    /\ sent' = sent \cup send_all_entries(num_entries(table))
    /\ table' = [k \in Key |-> NoVal]
    /\ pc' = "gone"
    /\ UNCHANGED <<ssns, rs, re, kv, overflow>>

Next ==
    \/ \E k \in Key, v \in Val : handle_ht_insert(k, v)
    \/ \E k \in Key : handle_ht_remove(k)
    \/ Split
    \/ Leave

Spec == Init /\ [][Next]_vars

-----------------------------------------------------------------------------
\* While the node serves, ssns[0 .. num_entries - 1] holds each key of the
\* table exactly once: inserts, duplicate inserts, removes with their
\* shifting and the split loop keep the array and the table in step, so
\* the transfers, which walk only the array, see every record.
KeyListMirrorsTable ==
    pc = "serving" =>
        LET n == num_entries(table) IN
        /\ {ssns[i] : i \in 0..n - 1} = {k \in Key : table[k] # NoVal}
        /\ \A i, j \in 0..n - 1 : i # j => ssns[i] # ssns[j]

\* After any sequence of operations the table holds only keys of the
\* node's current range: the split loop, which removes from the array it
\* walks, misses none of the keys it must move.
TableWithinRange ==
    pc = "serving" => \A k \in Key : table[k] # NoVal => InRange(k, rs, re)

\* No record the node was asked to keep is lost: each is still in the table
\* or was sent to a neighbour by a split or by the departure.
RecordsConserved ==
    \A k \in Key : kv[k] # NoVal => table[k] = kv[k] \/ <<k, kv[k]>> \in sent
=============================================================================
