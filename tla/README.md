# TLA+ models of the Distributed-Hash-Table node (`c_node`)

This directory holds TLA+ models of the C DHT node in `src/src`. They are checked with TLC.
The node is one single-threaded process per ring member. Its parts are:

| part | source | role |
|---|---|---|
| membership state machine | `c_node.c` q1–q8, q6, `shutdown_proceedure`, `main` | start alone (q4) or join (q7/q8), serve (q6), leave |
| PDU dispatch | `c_node.c` `poll_for_incoming_data` | poll UDP, successor and predecessor slots in that order; dispatch each PDU by its tag |
| range table and routing | `hash_handling.c` | `check_range`, `update_range`, `send_new_range_and_entries` (split on join), `send_all_entries` (hand-over on leave), `handle_ht_*` (store or forward a record) |
| transport | `sockets.c` | `send_tcp_pdu`, `receive_tcp_data` (5 s poll), `accept_predecessor_connection` (poll with no timeout), `connect_to_tcp`, `setup_data` |
| exit | `util.c` | `exit_with_error`, `close_all_sockets` |
| tracker (external) | not in the repository | address discovery (q1/q2), "give me a member" (q3), NET_ALIVE from q6 |

The parts interact as follows:

- Nodes form a ring of TCP links. Each node is the client end of a link to its successor and the server end of a link from its predecessor.
- A starting node asks the tracker for a member (q3). The tracker lists a node from its first NET_ALIVE, sent at the top of every q6 round, until the node falls silent. On the zero address the node seeds [0, 255] (q4).
- A joiner sends NET_JOIN over UDP to the node the tracker names.
  - NET_JOIN travels round the ring, collecting the node with the largest span.
  - That node closes its old successor link, connects to the joiner and sends NET_JOIN_RESPONSE. It then streams the upper half of its records as VAL_INSERTs.
- A leaving node works in this order:
  1. It sends NET_NEW_RANGE to one neighbour and reads a 1-byte response.
  2. It sends all its records to that neighbour.
  3. It sets its range to -1 and polls once more to forward late PDUs.
  4. It sends NET_CLOSE_CONNECTION to its successor and NET_LEAVING to its predecessor.
- Clients (`src/test`) send VAL_INSERT, VAL_REMOVE and VAL_LOOKUP over UDP to any node. A node stores, removes or answers the record if it is in its range, and forwards it to its successor otherwise.

## Modules

- **`DHT.tla`** models the whole ring. Its state is the fields of `struct self_data` that the protocol reads, per node:
  - `pc`: where in `main` the process is;
  - `blocked`: inside `accept_predecessor_connection`;
  - `rs`, `re`: the range;
  - `succ`: the successor address;
  - `sock`, `fd`: `successor.socket` / `predecessor.socket` and the poll slots `fds[1]`, `fds[2]`. These are separate because the code updates them separately;
  - `store`: the hash table.

  The network has two parts:
  - `conns` holds TCP connections. Each has two FIFO queues, an open flag per end and a reset flag per end (`cliRst`, `srvRst`).
    - Closing an end while data for it is still unread aborts the connection: the other end gets a RST instead of a FIN (`CliAborts`, `SrvAborts`).
    - Data queued before the RST can still be read. After it, `recv` fails (`RecvError`); after a plain FIN it returns 0 (`ZeroRead`).
    - A send to a peer that has closed is lost. `send_tcp_pdu` fails only on a closed or zeroed own end, or on a reset link (`SuccSendFails`); `handle_ht_remove` and `handle_ht_lookup` then exit.
  - `udp` holds one datagram queue per node.

  Client requests are `issued` / `answers`. `tracked` is the tracker's member list.

  Each handler of the code is one operator with the code's name (`handle_net_join`, `update_range` as `handle_net_new_range`, `handle_ht_insert`, ...). Each operator includes everything the handler does, sends and exits included. The top-level actions are:
  - `Start`: q1–q4 and q7 up to the NET_JOIN send. The tracker's answer is `Members` / `NoMembers`. A reply lost in q2 or q3 is `receive_from_lost`, an exit. A NET_JOIN to a member that is gone, or lost, reaches nobody;
  - `TrackerAlive`: a NET_ALIVE of q6 reaches the tracker; `TrackerExpire`: the tracker drops a silent node (modelled from the spec);
  - `Accept`;
  - `JoinResponse`: the end of q7 and q8;
  - `RecvUdp`, `RecvSucc`, `RecvPred`: one PDU per step from each poll slot;
  - `ZeroRead`: the peer closed;
  - `RecvError`: `recv` failed on a reset link. The code closes the socket and zeroes `successor.socket` / `predecessor.socket`, but `fds[i].fd` keeps the closed descriptor. `poll` then reports it as POLLNVAL, so it is never readable again and makes `connect_to_tcp` fail (`ConnectFails`);
  - `Shutdown`: NET_NEW_RANGE sent. It is enabled only while another node is serving: the operator never stops the last node, which the code lets exit at once with all its records (a loss the key/value map does not allow);
  - `LeaveResponse`: the 1-byte read, `send_all_entries`, then the tag check;
  - `GraceEnd`: the end of the grace poll, then CLOSE, LEAVING and exit;
  - `Request`: a client sends;
  - `Idle`.

  `Fail` is `exit_with_error`. The process stops, and `close_all_sockets` closes its ends.

  Two things are left open as a nondeterministic choice:
  - A read of the freed table during the grace poll (`FreedTable`) either works on stale memory or crashes. Both are possible outcomes of a use-after-free.
  - After `send_all_entries`, `ht_destroy` frees the table.

  The width of `hash_t` is a constant `W`, and arithmetic on ranges is `% 2^W` (`U8`).
- **`Framing.tla`** models one neighbour link at byte level, under the whole-PDU abstraction of `DHT`.
  - The peer writes PDUs. Fixed-size PDUs go out as packed structs through `send_tcp_pdu`; VAL_INSERT goes out length-prefixed through `send_insert_pdu_tcp` (`Encode`).
  - Each `recv()` (`Recv`) returns either any prefix of the queued bytes (`Split`) or whole PDUs only.
  - `ParseFrom` is the offset loop of `poll_for_incoming_data`. It is a RECURSIVE operator that advances by `sizeof(pdu)`, or by what `handle_val_insert` returns, and stops at an invalid tag or a failed insert.
  - Bytes of a memcpy beyond the read are the value `Stale`: one possible outcome of reading the uninitialised stack buffer.
  - `SyncRecv` is q7's single `recv` of at most 9 bytes for NET_JOIN_RESPONSE.
  - `pdu.h` is not in the repository. The tag values are the `#define`s that `src/test/test_new_lookup.c` repeats; the packed sizes match its structs and spec section 6.
- **`KeyList.tla`** models one node's record store as `hash_handling.c` keeps it: the hash table and the array `ssns[MAX_SIZE]` of its keys. The actions are:
  - a local insert, which appends the key at `ssns[num_entries]` with no bound check;
  - a local remove, which shifts the later keys down;
  - the split loop of `send_new_range_and_entries` (`SplitLoop`, RECURSIVE, as in the code: the index stays after a removal);
  - `send_all_entries`.

  The process exits after `send_all_entries`. That is why its run does not check deadlock.
- **`KVStore.tla`** is the abstract service a client sees: one key/value map. Pending requests may be applied, answered or lost. A lost request is one that a failing node drops.
- **`MC_Framing.tla`** and **`MC_KeyList.tla`** give concrete wire contents and hashes. The wire contents are ASCII ssn digits, names containing 'd' (100 = VAL_INSERT) and 'e' (101 = VAL_REMOVE), and ports whose bytes are tag values, as real traffic has.
- **`MC_DHT.tla`** supplies the model values (3 or 4 nodes, 2 keys, 2 values) and the hash functions used by the runs.

### Refinement

`DHT` instantiates `KVStore` with this mapping:
- `kv` is the value held by the node whose range contains the key's hash, or by the split transfer in flight for it.
- `pend` is the set of client requests still in the network.

The run `ring` checks `KV!Spec` as a property, next to its invariants.

### Environment knobs

`Quiet` lets a run exclude five races that the users of the code can avoid or that depend on timing:
- `"leave"`: a node is stopped only in a settled ring, and nobody starts, joins or sends during a departure.
- `"transfer"`: no client sends while split records are still in flight.
- `"connect"`: every `connect_to_tcp` completes before another slot is readable. Without it, `ConnectFails` lets a connect fail when the UDP queue, the predecessor link or the accept backlog has input. That covers the joiner's connect in q8, the connect in `handle_net_leaving_pdu`, and the splitting node's connect in `handle_net_join` (c_node.c:137/171), which exits with "Poll failed", after NET_CLOSE_CONNECTION in the largest-span case.
- `"grace"`: no client sends while a departing node is in its grace poll. A request forwarded into that node after its single poll round stays unread. The node's exit then resets its neighbour's link, and the neighbour's next forward fails, so it exits as well.
- `"tracker"`: the tracker's list is exactly the serving nodes, and no rendezvous datagram is lost. Without it the list lags behind NET_ALIVE and expiry, and a reply or a NET_JOIN may be lost.

The pass runs use them. The violation runs drop them to show what goes wrong without them.

## Runs

| run | cfg | expect | checks |
|---|---|---|---|
| ring | `MC_DHT.cfg` | pass | `TypeOK`, `RangesTile` (settled ranges tile 0..2^W-1), `RingLinked` (successor links form one ring in range order, with matching peer sockets), `RecordsPlaced` (no node holds a record outside its range), `KVSpec` (the ring implements a single key/value map), `LookupAnswered` (a lookup of a stored key that leaves the network has been answered, unless it was lost at a node that exited, or was forwarded out of range on a link whose far end is a process that had already exited; the value of an answer is checked by `KVSpec`) |
| live | `MC_DHT_live.cfg` | pass | `JoinCompletes` (every joiner eventually serves), `RequestsResolve` (every request eventually leaves the network), `AcceptReturns` (a node blocked in accept is eventually connected to, or is no longer live) |
| churn | `MC_DHT_churn.cfg` | pass | `RecordsPlaced` with joins, leaves and requests in any order, with the tracker's list lagging, lost rendezvous datagrams and lost NET_JOINs, and with requests during the grace poll and the TCP resets they cause. It uses one key and one value to stay within bounds. It does not check deadlock, because a joiner whose contact fails blocks for ever in `accept` (poll with -1) |
| leave_misread | `MC_DHT_leave.cfg` | violation | `RingLinked`: a VAL_INSERT queued before NET_NEW_RANGE_RESPONSE is read as the response. The node exits without CLOSE or LEAVING (c_node.c:656/667) |
| grace_window | `MC_DHT_grace.cfg` | violation | `KVSpec`: the range -1 is [255,255]. A record with hash 255 that arrives in the grace poll is stored and lost (c_node.c:680) |
| transfer_race | `MC_DHT_transfer.cfg` | violation | `KVSpec`: a client insert at the new node is overwritten by the older split transfer (hash_handling.c:246) |
| connect_race | `MC_DHT_connect.cfg` | violation | `JoinCompletes`: a joiner into a lone node that holds a record connects in q8 with the transferred VAL_INSERT already readable. `connect_to_tcp` polls all four slots and exits with "Poll failed"; the split node then blocks in `accept` for ever (sockets.c:294) |
| framing | `MC_Framing.cfg` | pass | `DecodedAsSent` (every dispatched PDU is one the peer wrote, decoded from its own start and bytes), `EveryPduHandled` (each written PDU is eventually dispatched), with whole-PDU reads and a link that starts with NET_JOIN_RESPONSE |
| split | `MC_Framing_split.cfg` | violation | `DecodedAsSent`: a cut VAL_INSERT is dropped, and the next read is parsed from its middle (c_node.c:336). The email byte 'e' becomes a VAL_REMOVE that is memcpy'd with a stale ssn (c_node.c:359), unlike spec §4.1 |
| keylist | `MC_KeyList.cfg` | pass | `KeyListMirrorsTable` (`ssns[0..n-1]` holds each table key exactly once), `TableWithinRange` (the split loop leaves no out-of-range record), `RecordsConserved` (each record is still held or was sent) |
| concurrent_joins | `MC_DHT_joins.cfg` | violation | `RangeWellFormed`: two joins chose the same largest node. The second split of [s,s] gives [s+1,s] (c_node.c:155) |
| seed_race | `MC_DHT_seed.cfg` | violation | `RangesTile`: two nodes reach q3 before either's NET_ALIVE reaches the tracker. Both get the zero address, both seed [0,255] in q4, and two rings own the whole key space (c_node.c:497) |

Every property of a pass run is also checked against a mutant of the code it depends on, listed in `PROJECT.json`:
- a gap in the split;
- a `close_connection` that does not accept;
- a split that keeps everything or the wrong half;
- a swapped span;
- an open range bound;
- an insert size without its email-length byte;
- an over-strict insert bound check;
- a remove that does not shift;
- a split loop that advances past a removed key;
- a hand-over that starts at index 1;
- a wider `hash_t`;
- a NET_LEAVING handler that never connects to the departing node's successor;
- a lookup response that is never sent (the `malloc` failure path of `send_lookup_response_pdu_udp`).

## Bounds

The pass runs use 3 nodes, 2 keys, 2 values, W = 3 (8 positions) and up to 2 client requests. The hashes put one key in each half of the first split.

With 3 nodes, every join reaches each shape it can take:
- a join into a lone node (wrap-around);
- a join that is forwarded;
- a join into the middle of the ring.

Every leave also occurs in each form:
- from range start 0 (hand-over to the successor);
- from elsewhere (hand-over to the predecessor);
- the last node of a pair.

Two requests are enough for a request to race a transfer or a departure, and for two requests to the same key to be reordered.

The churn run uses one key (hash 5) and one value. With resets modelled, two keys make it too large, and one key already reaches every transfer and request race.

The violation runs set the constants their case needs:
- 4 nodes and W = 2 for spans to run out under concurrent joins;
- a key hashing to 7 (= 255 at W = 3) for the grace window.

Framing sends up to 4 PDUs from eight kinds, each with realistic bytes. That covers every pair of adjacent PDU kinds and a read boundary at every byte. KeyList uses 3 keys and W = 2, with two keys in the upper half, so a split moves two records that can be adjacent in `ssns`. It uses MAX_SIZE = 3, so no overflow happens in the run: `MAX_SIZE` enters the code only through the missing check, which a unit test with MAX_SIZE + 1 keys reaches directly.

`MaxConn = 3·|Node|` bounds connection ids. Every connect that the bounded runs make fits under it.

## Fairness

`FairSpec` gives weak fairness, per node, to the poll slots (`RecvUdp`, `RecvSucc`, `RecvPred`, `ZeroRead`, `RecvError`), to `Accept`, to `JoinResponse`, to the two steps of the leave and to `TrackerAlive`. The code justifies this:
- `q6` polls all slots in every round, with a 5 s timeout.
- `accept` returns as soon as a connection is queued.
- `receive_tcp_data` returns after data or 5 s.
- NET_ALIVE is sent at the top of every q6 round.

`Request`, `Start` and `Shutdown` get no fairness: clients and operators need not act. `TrackerExpire` gets none either, because the tracker's timeout is not the node's to guarantee.

## Not modelled

- **Byte framing in `DHT`.** `DHT` keeps whole PDUs; `Framing` checks that assumption separately. The two are not composed, because the byte-level state makes the ring model too large.
- **UDP PDUs and their codec.** The lookup-response encoder and the tracker PDUs' bytes are not modelled. STUN address discovery (q1/q2) carries no state the properties read; only its failure exit is modelled.
- **Unset poll slots.** `fds[1]` and `fds[2]` are never initialised by `setup_data`, so until a link exists `poll` watches whatever descriptor the heap bytes name.
- **Other unmodelled behaviour.**
  - UDP loss of client requests and of NET_ALIVE. A lost NET_ALIVE only delays `TrackerAlive`.
  - Descriptor numbers and their reuse. After `RecvError` the code closes a descriptor that `fds[i].fd` still names, and the next `connect` or `accept` may get that number back. On fresh heap `fds[1]` and `fds[2]` are 0, which is stdin (sockets.c:330). A readable stdin makes `recv` fail, and the code closes descriptor 0. The next connect then gets descriptor 0, so `successor.socket` reads 0 and the next NET_JOIN takes the "should be impossible" exit. This depends on heap contents and on what is attached to stdin.
  - The RST that a send to a peer that has closed provokes. In the model such a send is simply lost and leaves the link as it was, so a second forward on it is lost too. The code's second send fails (EPIPE), and `handle_ht_remove` / `handle_ht_lookup` would then exit. This matters only in the ring run after a departure, where it would turn a lost request into a stopped node.
  - SIGPIPE. A second send to a peer that has closed raises SIGPIPE, which the code does not ignore; the model treats it as a lost send.
  - EINTR on blocking calls.
  - The one-round bound of the grace poll: the model allows any number of reads in the grace state, an over-approximation.
- **The `ssns[MAX_SIZE]` key array inside `DHT`.** `DHT` keeps the table as a function; `KeyList` models the array, its index arithmetic and the unchecked insert (hash_handling.c:83) for one node.
- **Observations with no run.** No run checks these; each is visible in the code and in the model:
  - `RingLinked` itself asserts that successor links close a ring: the node owning 2^W-1 links to the node owning 0 (c_node.c:139), where spec §9 says the successor never wraps.
  - `handle_ht_lookup` answers only a found key (hash_handling.c:158). It clears the response "in case no val is found" (hash_handling.c:137) but never sends it. Spec §4.4 and §8 ask for a response with empty name and email for an absent key. `src/test/test_new_lookup.c` sends a lookup with no insert before it and blocks in `recvfrom`. The model shows this directly: `handle_ht_lookup` leaves `answers` unchanged for an absent key. `LookupAnswered` makes no claim about absent keys, and no run is spent on the disagreement.
  - A lookup or remove forwarded on a link to a successor that has already exited is lost (hash_handling.c:166). The NET_LEAVING that relinks the ring is still queued, because `poll_for_incoming_data` serves the UDP slot before the successor slot. `LookupAnswered` allows for this loss.
  - A client request during the grace poll (c_node.c:682) stays unread at the departing node. Its exit resets the link, and the neighbour's next forward fails, so the neighbour exits too (hash_handling.c:34/166). Its own successor then blocks in `accept` for ever. The churn run reaches this; the ring run keeps clients quiet during the grace poll (`"grace"`) because the collapse deadlocks it.
  - With every span 0 (2^W nodes) no node passes `pdu.max_span < self_range` and NET_JOIN circulates for ever (c_node.c:179).
  - `handle_ht_insert` writes the key at `ssns[num_entries]` with no bound check (hash_handling.c:83). `KeyList` sets `overflow` there; with MAX_SIZE < 3 keys it is reached in MAX_SIZE + 1 inserts.
  - A joiner whose NET_JOIN went to a member that has left, or was lost, blocks in accept for ever (c_node.c:549). `Start` models this when `"tracker"` is not quiet, and the churn run reaches it.
  - A short first read of the 9-byte NET_JOIN_RESPONSE in q7 (c_node.c:556) leaves `in_buffer` partly unset; `Framing` with `SyncFirst = TRUE` and `Split = TRUE` reaches it.
- **The external hash table library and `hash_ssn`.** `hash_ssn` is the constant `Hash`.

## Plan for later work

1. A violation run for a join during a departure. In the churn run, a node in its grace poll splits for a joiner; the joiner then fails, and a neighbour is left with a successor link and no predecessor link (spec §3's pairing).
2. UDP loss of client requests.
3. A refinement from `KeyList` to the atomic `Keep` / `Transfers` of `DHT`.
