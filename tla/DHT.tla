-------------------------------- MODULE DHT --------------------------------
(***************************************************************************)
(* The ring of c_node processes (src/src/c_node.c, hash_handling.c,        *)
(* sockets.c).  Each node is one single-threaded process; its state is the *)
(* fields of struct self_data (util.h) that the protocol reads: the range  *)
(* [range_start, range_end], the successor address, the successor and      *)
(* predecessor sockets and their poll slots fds[], and the hash table.     *)
(* TCP connections are FIFO byte streams, one queue per direction; UDP     *)
(* datagrams queue on each node's UDP socket.  One PDU is handled per      *)
(* step: the poll loop is single-threaded, and because any PDU may arrive  *)
(* at any time, handling PDUs one by one in arrival order covers every     *)
(* batching a read can produce.                                            *)
(***************************************************************************)
EXTENDS Integers, Sequences, FiniteSets, SequencesExt

CONSTANTS
    Node,         \* node processes (model values); identity = ip:listening port
    Key,          \* record identifiers (the 12-byte ssn)
    Val,          \* record payloads (name, email)
    Hash,         \* hash_ssn: Key -> 0..2^W-1
    W,            \* width of hash_t in bits (8 in the code)
    MaxReq,       \* number of client requests (VAL_* PDUs) in a behaviour
    None,         \* the zero address
    NoVal,        \* absent record
    Quiet         \* races the clients and the operator avoid: "leave" (a node is
                  \* stopped only in a settled ring, and nobody starts or sends
                  \* during a departure), "transfer" (no client sends while the
                  \* records of a split are on their way), "connect" (a
                  \* connect completes before any other slot is readable),
                  \* "tracker" (the tracker's member list is exact and no
                  \* rendezvous datagram is lost), "grace" (no client sends
                  \* while a departing node is in its grace poll)

HashMax == 2^W - 1
\* Mutant: range bounds held in a wider integer (no wrap on assignment).
U8_wide(x) == x
U8(x) == x % 2^W                         \* assignment to a uint8_t field
Pos == 0..HashMax
MaxConn == 3 * Cardinality(Node)         \* two per join, one per leave

ASSUME Quiet \subseteq {"leave", "transfer", "connect", "tracker", "grace"} /\ Hash \in [Key -> Pos] /\ None \notin Node /\ NoVal \notin Val

VARIABLES
    pc,       \* program point of each node: which q-function it is in
    blocked,  \* inside a handler, blocked in accept_predecessor_connection
    rs, re,   \* self_data->range_start, range_end (uint8_t)
    succ,     \* self_data->successor.dest_addr
    sock,     \* successor.socket, predecessor.socket: a connection or 0
    fd,       \* fds[SUCCESSOR_FDS].fd, fds[PREDECESSOR_FDS].fd: 0 is -1
    store,    \* the hash table: Key -> Val \cup {NoVal}
    udp,      \* datagrams waiting on each node's UDP socket
    conns,    \* TCP connections 1..MaxConn
    nconn,    \* connections created so far
    issued,   \* client requests sent so far
    answers,  \* VAL_LOOKUP_RESPONSEs received by clients
    tracked   \* the tracker's member list: nodes whose NET_ALIVE it holds

vars == <<pc, blocked, rs, re, succ, sock, fd, store, udp, conns, nconn,
          issued, answers, tracked>>

ConnId == 1..MaxConn
States == {"off", "joinAccept", "joinResp", "serving", "leaveWait", "grace",
           "left", "failed"}
Live(n) == pc[n] \notin {"off", "left", "failed"}   \* its listening socket is open

-----------------------------------------------------------------------------
(* PDUs (pdu.h), with the fields the protocol reads.  Requests carry the    *)
(* client's request id rid; the record transfers of a split or a leave are  *)
(* VAL_INSERTs with rid = 0.                                                *)
JoinMsg(src, span, max) == [t |-> "JOIN", src |-> src, span |-> span, max |-> max]
JoinRespMsg(nx, s, e) == [t |-> "JOIN_RESPONSE", next |-> nx, start |-> s, end |-> e]
NewRangeMsg(s, e) == [t |-> "NEW_RANGE", start |-> s, end |-> e]
NewRangeRespMsg == [t |-> "NEW_RANGE_RESPONSE"]
LeavingMsg(nw) == [t |-> "LEAVING", new |-> nw]
CloseMsg == [t |-> "CLOSE"]
ValMsg(op, k, v, r) == [t |-> op, key |-> k, val |-> v, rid |-> r]
Garbage == [t |-> "GARBAGE"]          \* the tail of a PDU whose first byte was taken

ValOps == {"INSERT", "REMOVE", "LOOKUP"}
Msg == {JoinMsg(s, sp, mx) : s \in Node, sp \in Pos, mx \in Node \cup {None}}
       \cup {JoinRespMsg(nx, s, e) : nx \in Node, s \in Pos, e \in Pos}
       \cup {NewRangeMsg(s, e) : s \in Pos, e \in Pos}
       \cup {LeavingMsg(nw) : nw \in Node}
       \cup {NewRangeRespMsg, CloseMsg, Garbage}
       \cup {ValMsg(op, k, v, r) : op \in ValOps, k \in Key,
                                   v \in Val \cup {NoVal}, r \in 0..MaxReq}

\* cliRst / srvRst: that end was sent a RST instead of a FIN, because the
\* other end was closed with data it had not read.
Conn == [cli: Node \cup {None}, srv: Node \cup {None}, toSrv: Seq(Msg),
         toCli: Seq(Msg), cliOpen: BOOLEAN, srvOpen: BOOLEAN, accepted: BOOLEAN,
         cliRst: BOOLEAN, srvRst: BOOLEAN]
NoConn == [cli |-> None, srv |-> None, toSrv |-> <<>>, toCli |-> <<>>,
           cliOpen |-> FALSE, srvOpen |-> FALSE, accepted |-> FALSE,
           cliRst |-> FALSE, srvRst |-> FALSE]

-----------------------------------------------------------------------------
(* Socket operations on a connection table cs.  The successor socket of a   *)
(* node is always the client end of its connection (connect_to_tcp), the    *)
(* predecessor socket the server end (accept_predecessor_connection).       *)
(* send_tcp_pdu on a connection either end of which is closed delivers     *)
(* nothing (its error is printed and ignored except where noted).          *)
Open(cs, c) == c # 0 /\ cs[c].cliOpen /\ cs[c].srvOpen

ToSrv(cs, c, m) == IF Open(cs, c) THEN [cs EXCEPT ![c].toSrv = Append(@, m)] ELSE cs
ToCli(cs, c, m) == IF Open(cs, c) THEN [cs EXCEPT ![c].toCli = Append(@, m)] ELSE cs
ToSrvSeq(cs, c, ms) == IF Open(cs, c) THEN [cs EXCEPT ![c].toSrv = @ \o ms] ELSE cs
ToCliSeq(cs, c, ms) == IF Open(cs, c) THEN [cs EXCEPT ![c].toCli = @ \o ms] ELSE cs
\* close() on one end discards what that end has not read; if anything was
\* unread the kernel aborts the connection and the other end gets a RST.
CliAborts(cs, c) == cs[c].cliOpen /\ cs[c].srvOpen /\ cs[c].toCli # <<>>
SrvAborts(cs, c) == cs[c].srvOpen /\ cs[c].cliOpen /\ cs[c].toSrv # <<>>
CloseCli(cs, c) ==
    IF c = 0 THEN cs
    ELSE [cs EXCEPT ![c].cliOpen = FALSE, ![c].toCli = <<>>,
                    ![c].srvRst = @ \/ CliAborts(cs, c)]
CloseSrv(cs, c) ==
    IF c = 0 THEN cs
    ELSE [cs EXCEPT ![c].srvOpen = FALSE, ![c].toSrv = <<>>,
                    ![c].cliRst = @ \/ SrvAborts(cs, c)]

\* Process exit: the kernel closes every socket of n, the listening backlog included.
ExitClose(cs, n) ==
    [c \in ConnId |->
        [cs[c] EXCEPT !.cliOpen = @ /\ cs[c].cli # n,
                      !.toCli = IF cs[c].cli = n THEN <<>> ELSE @,
                      !.srvRst = @ \/ (cs[c].cli = n /\ CliAborts(cs, c)),
                      !.srvOpen = @ /\ cs[c].srv # n,
                      !.toSrv = IF cs[c].srv = n THEN <<>> ELSE @,
                      !.cliRst = @ \/ (cs[c].srv = n /\ SrvAborts(cs, c))]]

\* send_tcp_pdu on the successor slot returns -1: the slot is -1 (poll times
\* out), holds a descriptor this node closed (POLLNVAL), or the connection
\* was reset (send fails with ECONNRESET).
SuccSendFails(cs, c) == c = 0 \/ ~cs[c].cliOpen \/ cs[c].cliRst

\* connect_to_tcp (sockets.c): the new connection succeeds iff t is listening.
NewConn(cs, n, t) ==
    [cs EXCEPT ![nconn + 1] = [NoConn EXCEPT !.cli = n, !.srv = t,
                                             !.cliOpen = TRUE, !.srvOpen = TRUE]]

\* Connections waiting in the listening backlog of n, oldest first.
Backlog(n) == {c \in 1..nconn : conns[c].srv = n /\ ~conns[c].accepted}

-----------------------------------------------------------------------------
(* The range table (hash_handling.c).                                       *)
\* Mutant: check_range with a strict lower bound.
InRange_open(n, p) == rs[n] < p /\ p <= re[n]
InRange(n, p) == rs[n] <= p /\ p <= re[n]                    \* check_range

Mid(n) == (re[n] - rs[n]) \div 2 + rs[n]                     \* middle_point

\* VAL_INSERTs for every stored record whose key is outside [lo, hi].
Transfers(n, lo, hi) ==
    LET ks == SetToSeq({k \in Key : store[n][k] # NoVal
                                    /\ ~(lo <= Hash[k] /\ Hash[k] <= hi)})
    IN  [i \in DOMAIN ks |-> ValMsg("INSERT", ks[i], store[n][ks[i]], 0)]

\* Mutants: the split does not delete the moved records; it deletes the
\* kept ones instead.
Keep_all(n, lo, hi) == store[n]
Keep_inverted(n, lo, hi) ==
    [k \in Key |-> IF lo <= Hash[k] /\ Hash[k] <= hi THEN NoVal ELSE store[n][k]]
Keep(n, lo, hi) ==
    [k \in Key |-> IF lo <= Hash[k] /\ Hash[k] <= hi THEN store[n][k] ELSE NoVal]

Empty == [k \in Key |-> NoVal]

-----------------------------------------------------------------------------
(* exit_with_error (util.c): close_all_sockets and exit(1).  The process's  *)
(* records and queued datagrams are gone.                                   *)
\* connect_to_tcp polls all four slots of fds[], not only the successor's:
\* if the UDP socket, the predecessor link (data, EOF or reset), a
\* predecessor slot left on a descriptor this node closed (POLLNVAL) or the
\* listening socket is ready before the connect completes, poll returns
\* without POLLOUT on the successor and the node exits with "Poll failed".
ConnectFails(n, cs, us) ==
    /\ "connect" \notin Quiet
    /\ \/ us[n] # <<>>
       \/ fd[n].pred # 0 /\ (cs[fd[n].pred].toSrv # <<>> \/ ~cs[fd[n].pred].cliOpen
                             \/ ~cs[fd[n].pred].srvOpen)
       \/ Backlog(n) # {}

Fail(n, cs) ==
    /\ pc' = [pc EXCEPT ![n] = "failed"]
    /\ blocked' = [blocked EXCEPT ![n] = FALSE]
    /\ conns' = ExitClose(cs, n)
    /\ udp' = [udp EXCEPT ![n] = <<>>]
    /\ UNCHANGED <<rs, re, succ, sock, fd, store, nconn, answers>>

(* Record routing.  cs and us are the connections and the datagrams of n   *)
(* once the PDU m has been taken from its slot.                            *)

\* handle_val_insert -> handle_ht_insert: store in range, else send_insert_pdu_tcp
\* to fds[SUCCESSOR_FDS], whose failure is only printed.
handle_ht_insert(n, m, cs, us) ==
    /\ IF InRange(n, Hash[m.key])
          THEN /\ store' = [store EXCEPT ![n][m.key] = m.val]
               /\ conns' = cs
          ELSE /\ conns' = ToSrv(cs, fd[n].succ, m)
               /\ UNCHANGED store
    /\ udp' = us
    /\ UNCHANGED <<pc, blocked, rs, re, succ, sock, fd, nconn, answers>>

\* handle_ht_remove: delete in range (a no-op if absent), else forward to the
\* successor; a failed send is exit_with_error.
handle_ht_remove(n, m, cs, us) ==
    IF InRange(n, Hash[m.key])
       THEN /\ store' = [store EXCEPT ![n][m.key] = NoVal]
            /\ conns' = cs /\ udp' = us
            /\ UNCHANGED <<pc, blocked, rs, re, succ, sock, fd, nconn, answers>>
       ELSE IF SuccSendFails(cs, fd[n].succ) THEN Fail(n, cs)
       ELSE /\ conns' = ToSrv(cs, fd[n].succ, m) /\ udp' = us
            /\ UNCHANGED <<pc, blocked, rs, re, succ, sock, fd, store, nconn, answers>>

\* send_lookup_response_pdu_udp: the VAL_LOOKUP_RESPONSE reaches the client
\* whose address the lookup carries.
\* Mutant: the send buffer cannot be allocated and the function returns
\* without sending.
send_lookup_response_pdu_udp_nomem(m, v) == answers
send_lookup_response_pdu_udp(m, v) == answers \cup {[rid |-> m.rid, val |-> v]}

\* handle_ht_lookup: in range, a VAL_LOOKUP_RESPONSE is sent to the requester
\* only when the key is found; out of range, forward as handle_ht_remove does.
handle_ht_lookup(n, m, cs, us) ==
    IF InRange(n, Hash[m.key])
       THEN /\ answers' = IF store[n][m.key] # NoVal
                            THEN send_lookup_response_pdu_udp(m, store[n][m.key])
                            ELSE answers
            /\ conns' = cs /\ udp' = us
            /\ UNCHANGED <<pc, blocked, rs, re, succ, sock, fd, store, nconn>>
       ELSE IF SuccSendFails(cs, fd[n].succ) THEN Fail(n, cs)
       ELSE /\ conns' = ToSrv(cs, fd[n].succ, m) /\ udp' = us
            /\ UNCHANGED <<pc, blocked, rs, re, succ, sock, fd, store, nconn, answers>>

(* Membership PDUs (c_node.c).                                              *)

\* send_new_range_and_entries: cede (mid, range_end] to the successor slot c,
\* naming nx as the joiner's successor, and move the ceded records with it.
\* Mutant: the ceded range starts one past mid + 1.
SplitTo_gap(n, c, nx, cs) ==
    /\ conns' = ToSrvSeq(ToSrv(cs, c, JoinRespMsg(nx, U8(Mid(n) + 2), re[n])),
                         c, Transfers(n, rs[n], Mid(n)))
    /\ re' = [re EXCEPT ![n] = Mid(n)]
    /\ store' = [store EXCEPT ![n] = Keep(n, rs[n], Mid(n))]
SplitTo(n, c, nx, cs) ==
    /\ conns' = ToSrvSeq(ToSrv(cs, c, JoinRespMsg(nx, U8(Mid(n) + 1), re[n])),
                         c, Transfers(n, rs[n], Mid(n)))
    /\ re' = [re EXCEPT ![n] = Mid(n)]
    /\ store' = [store EXCEPT ![n] = Keep(n, rs[n], Mid(n))]

\* Mutant: self_range computed with its operands swapped.
SelfRange_swapped(n) == rs[n] - re[n]
SelfRange(n) == re[n] - rs[n]              \* self_range, an int

\* connect_to_tcp succeeded: successor.dest_addr names j and the new
\* connection c is both successor.socket and fds[SUCCESSOR_FDS].
ConnectedTo(n, j, c) ==
    /\ succ' = [succ EXCEPT ![n] = j]
    /\ sock' = [sock EXCEPT ![n].succ = c]
    /\ fd' = [fd EXCEPT ![n].succ = c]
    /\ nconn' = c

\* handle_net_join; a failing connect_to_tcp is exit_with_error ("Poll
\* failed"), after NET_CLOSE_CONNECTION in the largest-span case.
handle_net_join(n, m, cs, us) ==
    LET span == SelfRange(n)
        c == nconn + 1
    IN
    CASE sock[n].pred = 0 /\ sock[n].succ = 0 ->
           \* alone: connect to the joiner, split, then block accepting it
           /\ nconn < MaxConn
           /\ \/ /\ ConnectedTo(n, m.src, c)
                 /\ SplitTo(n, c, n, NewConn(cs, n, m.src))
                 /\ blocked' = [blocked EXCEPT ![n] = TRUE]
                 /\ udp' = us
                 /\ UNCHANGED <<pc, rs, answers>>
              \/ ConnectFails(n, cs, us) /\ Fail(n, cs)
      [] sock[n].pred = 0 \/ sock[n].succ = 0 ->
           Fail(n, cs)
      [] m.max = n ->
           \* largest span: NET_CLOSE to the old successor, connect to the
           \* joiner (the old socket is overwritten, not closed), split
           /\ nconn < MaxConn
           /\ \/ /\ ConnectedTo(n, m.src, c)
                 /\ SplitTo(n, c, succ[n], NewConn(ToSrv(cs, sock[n].succ, CloseMsg), n, m.src))
                 /\ udp' = us
                 /\ UNCHANGED <<pc, blocked, rs, answers>>
              \/ ConnectFails(n, cs, us) /\ Fail(n, ToSrv(cs, sock[n].succ, CloseMsg))
      [] m.span < span ->
           /\ conns' = ToSrv(cs, sock[n].succ, JoinMsg(m.src, U8(span), n))
           /\ udp' = us
           /\ UNCHANGED <<pc, blocked, rs, re, succ, sock, fd, store, nconn, answers>>
      [] OTHER ->
           /\ conns' = ToSrv(cs, sock[n].succ, m)
           /\ udp' = us
           /\ UNCHANGED <<pc, blocked, rs, re, succ, sock, fd, store, nconn, answers>>

\* handle_net_new_range -> update_range: absorb a departing neighbour's range
\* and answer on the side it extends; if it extends neither side, the answer
\* goes to fds[0], the unconnected UDP socket, and send fails: exit_with_error.
handle_net_new_range(n, m, cs, us) ==
    CASE m.start < rs[n] ->
           /\ rs' = [rs EXCEPT ![n] = m.start]
           /\ conns' = ToCli(cs, fd[n].pred, NewRangeRespMsg)
           /\ udp' = us
           /\ UNCHANGED <<pc, blocked, re, succ, sock, fd, store, nconn, answers>>
      [] m.end > re[n] ->
           /\ re' = [re EXCEPT ![n] = m.end]
           /\ conns' = ToSrv(cs, fd[n].succ, NewRangeRespMsg)
           /\ udp' = us
           /\ UNCHANGED <<pc, blocked, rs, succ, sock, fd, store, nconn, answers>>
      [] OTHER -> Fail(n, cs)

\* Mutant: the departing node's successor is taken to be this node.
handle_net_leaving_pdu_noconnect(n, m, cs, us) ==
    /\ sock' = [sock EXCEPT ![n].succ = 0]
    /\ fd' = [fd EXCEPT ![n].succ = 0]
    /\ conns' = CloseCli(cs, sock[n].succ) /\ udp' = us
    /\ UNCHANGED <<pc, blocked, rs, re, succ, store, nconn, answers>>

\* handle_net_leaving_pdu: close the successor socket; either it was the last
\* other node, or connect to the departing node's successor.
handle_net_leaving_pdu(n, m, cs, us) ==
    LET cs1 == CloseCli(cs, sock[n].succ)
        c == nconn + 1
    IN
    IF m.new = n
       THEN /\ sock' = [sock EXCEPT ![n].succ = 0]
            /\ fd' = [fd EXCEPT ![n].succ = 0]
            /\ conns' = cs1 /\ udp' = us
            /\ UNCHANGED <<pc, blocked, rs, re, succ, store, nconn, answers>>
    ELSE IF ~Live(m.new) THEN Fail(n, cs1)
    ELSE /\ nconn < MaxConn
         /\ \/ /\ succ' = [succ EXCEPT ![n] = m.new]
               /\ sock' = [sock EXCEPT ![n].succ = c]
               /\ fd' = [fd EXCEPT ![n].succ = c]
               /\ nconn' = c
               /\ conns' = NewConn(cs1, n, m.new) /\ udp' = us
               /\ UNCHANGED <<pc, blocked, rs, re, store, answers>>
            \/ ConnectFails(n, cs1, us) /\ Fail(n, cs1)

\* handle_net_close_connection: drop the predecessor, then wait for a new one
\* unless this node now owns the whole key space.
\* Mutant: the node never waits for its new predecessor.
handle_net_close_connection_noaccept(n, m, cs, us) ==
    /\ sock' = [sock EXCEPT ![n].pred = 0]
    /\ fd' = [fd EXCEPT ![n].pred = 0]
    /\ conns' = CloseSrv(cs, sock[n].pred)
    /\ blocked' = [blocked EXCEPT ![n] = FALSE]
    /\ udp' = us
    /\ UNCHANGED <<pc, rs, re, succ, store, nconn, answers>>
handle_net_close_connection(n, m, cs, us) ==
    /\ sock' = [sock EXCEPT ![n].pred = 0]
    /\ fd' = [fd EXCEPT ![n].pred = 0]
    /\ conns' = CloseSrv(cs, sock[n].pred)
    /\ blocked' = [blocked EXCEPT ![n] = ~(rs[n] = 0 /\ re[n] = HashMax)]
    /\ udp' = us
    /\ UNCHANGED <<pc, rs, re, succ, store, nconn, answers>>

-----------------------------------------------------------------------------
(* poll_for_incoming_data: the slots UDP, successor and predecessor are     *)
(* polled; each PDU is dispatched on its tag.  An unknown tag abandons the  *)
(* rest of that read: some prefix of what is queued behind it is lost.      *)
CanPoll(n) == pc[n] \in {"serving", "grace"} /\ ~blocked[n]

InvalidPdu(n, drops, us) ==
    /\ conns' \in drops
    /\ udp' = us
    /\ UNCHANGED <<pc, blocked, rs, re, succ, sock, fd, store, nconn, answers>>

\* In the grace poll the table has been freed by send_all_entries (ht_destroy)
\* and the key list holds freed pointers: a record PDU for [255, 255] uses
\* freed memory, which may work on stale memory or crash the process.
FreedTable(n, m, cs) ==
    /\ pc[n] = "grace" /\ InRange(n, Hash[m.key])
    /\ Fail(n, cs)

Dispatch(n, m, cs, us, drops) ==
    CASE m.t = "INSERT"     -> handle_ht_insert(n, m, cs, us) \/ FreedTable(n, m, cs)
      [] m.t = "REMOVE"     -> handle_ht_remove(n, m, cs, us) \/ FreedTable(n, m, cs)
      [] m.t = "LOOKUP"     -> handle_ht_lookup(n, m, cs, us) \/ FreedTable(n, m, cs)
      [] m.t = "JOIN"       -> handle_net_join(n, m, cs, us)
      [] m.t = "NEW_RANGE"  -> handle_net_new_range(n, m, cs, us)
      [] m.t = "LEAVING"    -> handle_net_leaving_pdu(n, m, cs, us)
      [] m.t = "CLOSE"      -> handle_net_close_connection(n, m, cs, us)
      [] OTHER              -> InvalidPdu(n, drops, us)

RecvUdp(n) ==
    /\ CanPoll(n) /\ udp[n] # <<>>
    /\ Dispatch(n, Head(udp[n]), conns, [udp EXCEPT ![n] = Tail(@)],
                {conns})
    /\ UNCHANGED <<issued, tracked>>

RecvSucc(n) ==
    LET c == fd[n].succ IN
    /\ CanPoll(n) /\ c # 0 /\ conns[c].toCli # <<>>
    /\ Dispatch(n, Head(conns[c].toCli), [conns EXCEPT ![c].toCli = Tail(@)], udp,
                {[conns EXCEPT ![c].toCli = SubSeq(@, k, Len(@))] :
                    k \in 2..Len(conns[c].toCli) + 1})
    /\ UNCHANGED <<issued, tracked>>

RecvPred(n) ==
    LET c == fd[n].pred IN
    /\ CanPoll(n) /\ c # 0 /\ conns[c].toSrv # <<>>
    /\ Dispatch(n, Head(conns[c].toSrv), [conns EXCEPT ![c].toSrv = Tail(@)], udp,
                {[conns EXCEPT ![c].toSrv = SubSeq(@, k, Len(@))] :
                    k \in 2..Len(conns[c].toSrv) + 1})
    /\ UNCHANGED <<issued, tracked>>

\* recv returns 0 on a link whose peer has closed and whose data has all been
\* read: the socket is closed and its poll slot set to -1, while
\* successor.socket / predecessor.socket keep the old descriptor.
ZeroRead(n) ==
    /\ CanPoll(n)
    /\ \/ LET c == fd[n].succ IN
          /\ c # 0 /\ conns[c].cliOpen /\ ~conns[c].srvOpen /\ ~conns[c].cliRst
          /\ conns[c].toCli = <<>>
          /\ conns' = CloseCli(conns, c)
          /\ fd' = [fd EXCEPT ![n].succ = 0]
       \/ LET c == fd[n].pred IN
          /\ c # 0 /\ conns[c].srvOpen /\ ~conns[c].cliOpen /\ ~conns[c].srvRst
          /\ conns[c].toSrv = <<>>
          /\ conns' = CloseSrv(conns, c)
          /\ fd' = [fd EXCEPT ![n].pred = 0]
    /\ UNCHANGED <<pc, blocked, rs, re, succ, sock, store, udp, nconn, issued, answers, tracked>>

\* recv fails (ECONNRESET) on a link that was reset, once the data sent
\* before the reset has been read: successor.socket / predecessor.socket is
\* closed and set to 0, while fds[i].fd keeps the closed descriptor, which
\* poll then reports as POLLNVAL and never as readable.
RecvError(n) ==
    /\ CanPoll(n)
    /\ \/ LET c == fd[n].succ IN
          /\ c # 0 /\ conns[c].cliOpen /\ conns[c].cliRst /\ conns[c].toCli = <<>>
          /\ conns' = CloseCli(conns, sock[n].succ)
          /\ sock' = [sock EXCEPT ![n].succ = 0]
       \/ LET c == fd[n].pred IN
          /\ c # 0 /\ conns[c].srvOpen /\ conns[c].srvRst /\ conns[c].toSrv = <<>>
          /\ conns' = CloseSrv(conns, sock[n].pred)
          /\ sock' = [sock EXCEPT ![n].pred = 0]
    /\ UNCHANGED <<pc, blocked, rs, re, succ, fd, store, udp, nconn, issued, answers, tracked>>

-----------------------------------------------------------------------------
(* Start-up, join and departure (main, q1-q8, q6, shutdown_proceedure).     *)

\* PDUs queued on TCP connections and UDP sockets.
InFlight ==
    UNION {ToSet(udp[n]) : n \in Node}
    \cup UNION {ToSet(conns[c].toSrv) \cup ToSet(conns[c].toCli) : c \in ConnId}

\* Every node is idle in a stable state and nothing is in flight.
Settled ==
    /\ \A n \in Node : pc[n] \in {"off", "serving", "left", "failed"} /\ ~blocked[n]
    /\ InFlight = {}

\* A departure has started and the ring has not yet closed around it.
LeaveInProgress ==
    \/ \E n \in Node : pc[n] \in {"leaveWait", "grace"} \/ blocked[n]
    \/ \E m \in InFlight : m.t \in {"NEW_RANGE", "NEW_RANGE_RESPONSE", "LEAVING", "CLOSE"}

\* The tracker's member list (the tracker is not part of this repository):
\* it lists a node from the first NET_ALIVE it receives until the node has
\* been silent for its timeout.  With "tracker" quiet the list is exact.
Members ==
    IF "tracker" \in Quiet THEN {o \in Node : pc[o] = "serving"} ELSE tracked

\* q3: a NET_GET_NODE_RESPONSE with address 0 sends the node to q4.
NoMembers ==
    IF "tracker" \in Quiet THEN \A o \in Node : ~Live(o) ELSE tracked = {}

\* receive_from (q2, q3): no reply on the UDP slot within 10 s, because the
\* STUN_RESPONSE or NET_GET_NODE_RESPONSE was lost: perror and exit(1).
receive_from_lost(n) ==
    /\ "tracker" \notin Quiet
    /\ pc' = [pc EXCEPT ![n] = "failed"]
    /\ UNCHANGED <<rs, re, udp>>

\* q1-q3 against the tracker, then q4 (seed the key space) or the first half
\* of q7 (NET_JOIN over UDP to the member the tracker named, then block in
\* accept).  A NET_JOIN sent to a node that is no longer running, or lost
\* on the way, reaches nobody; send_udp_pdu still succeeds.
Start(n) ==
    /\ pc[n] = "off"
    /\ "leave" \notin Quiet \/ ~LeaveInProgress
    /\ \/ /\ NoMembers
          /\ pc' = [pc EXCEPT ![n] = "serving"]
          /\ rs' = [rs EXCEPT ![n] = 0]
          /\ re' = [re EXCEPT ![n] = HashMax]
          /\ UNCHANGED udp
       \/ \E t \in Members :
          /\ \/ /\ Live(t)
                /\ udp' = [udp EXCEPT ![t] = Append(@, JoinMsg(n, 0, None))]
             \/ /\ "tracker" \notin Quiet
                /\ UNCHANGED udp
          /\ pc' = [pc EXCEPT ![n] = "joinAccept"]
          /\ UNCHANGED <<rs, re>>
       \/ receive_from_lost(n)
    /\ UNCHANGED <<blocked, succ, sock, fd, store, conns, nconn, issued, answers, tracked>>

\* q6 sends NET_ALIVE to the tracker at the top of every round of its loop;
\* the tracker lists the node when one arrives.
TrackerAlive(n) ==
    /\ "tracker" \notin Quiet
    /\ pc[n] = "serving" /\ ~blocked[n] /\ n \notin tracked
    /\ tracked' = tracked \cup {n}
    /\ UNCHANGED <<pc, blocked, rs, re, succ, sock, fd, store, udp, conns, nconn, issued, answers>>

\* The tracker drops a node whose NET_ALIVEs have stopped: it has left or
\* failed, or it is blocked in accept inside a handler and not looping.
TrackerExpire(n) ==
    /\ n \in tracked
    /\ pc[n] # "serving" \/ blocked[n]
    /\ tracked' = tracked \ {n}
    /\ UNCHANGED <<pc, blocked, rs, re, succ, sock, fd, store, udp, conns, nconn, issued, answers>>

\* accept_predecessor_connection: take the oldest connection in the backlog,
\* both in q7 and when a handler blocks for a new predecessor.
Accept(n) ==
    /\ pc[n] = "joinAccept" \/ blocked[n]
    /\ Backlog(n) # {}
    /\ LET c == Min(Backlog(n)) IN
       /\ conns' = [conns EXCEPT ![c].accepted = TRUE]
       /\ sock' = [sock EXCEPT ![n].pred = c]
       /\ fd' = [fd EXCEPT ![n].pred = c]
    /\ pc' = [pc EXCEPT ![n] = IF @ = "joinAccept" THEN "joinResp" ELSE @]
    /\ blocked' = [blocked EXCEPT ![n] = FALSE]
    /\ UNCHANGED <<rs, re, succ, store, udp, nconn, issued, answers, tracked>>

\* Second half of q7 (read NET_JOIN_RESPONSE from the predecessor) and q8
\* (connect to the successor it names, create the hash table).
\* q7 then q8; when connect_to_tcp fails (fail) or the successor named is
\* gone, exit_with_error.
JoinResponse(n) ==
    \E fail \in BOOLEAN :
    LET c == sock[n].pred
        m == Head(conns[c].toSrv)
        cs == [conns EXCEPT ![c].toSrv = Tail(@)]
    IN
    /\ pc[n] = "joinResp"
    /\ conns[c].toSrv # <<>> /\ m.t = "JOIN_RESPONSE"
    /\ nconn < MaxConn
    /\ rs' = [rs EXCEPT ![n] = m.start]
    /\ re' = [re EXCEPT ![n] = m.end]
    /\ succ' = [succ EXCEPT ![n] = m.next]
    /\ IF Live(m.next) /\ ~(ConnectFails(n, cs, udp) /\ fail)
          THEN /\ pc' = [pc EXCEPT ![n] = "serving"]
               /\ sock' = [sock EXCEPT ![n].succ = nconn + 1]
               /\ fd' = [fd EXCEPT ![n].succ = nconn + 1]
               /\ nconn' = nconn + 1
               /\ conns' = NewConn(cs, n, m.next)
               /\ UNCHANGED udp
          ELSE /\ pc' = [pc EXCEPT ![n] = "failed"]
               /\ conns' = ExitClose(cs, n)
               /\ udp' = [udp EXCEPT ![n] = <<>>]
               /\ UNCHANGED <<sock, fd, nconn>>
    /\ UNCHANGED <<blocked, store, issued, answers, tracked>>

\* SIGINT/SIGTERM seen at the top of the q6 loop: shutdown_proceedure.  A
\* node alone exits at once; otherwise NET_NEW_RANGE goes to the successor
\* when range_start = 0, else to the predecessor.  The operator never stops
\* the last serving node: the code lets it exit at once with every record,
\* a loss no key/value map allows, so the model leaves that step out.
Shutdown(n) ==
    /\ pc[n] = "serving" /\ ~blocked[n]
    /\ \E o \in Node \ {n} : pc[o] = "serving"
    /\ "leave" \notin Quiet \/ Settled
    /\ IF sock[n].pred = 0 /\ sock[n].succ = 0
          THEN /\ pc' = [pc EXCEPT ![n] = "left"]
               /\ conns' = ExitClose(conns, n)
               /\ udp' = [udp EXCEPT ![n] = <<>>]
          ELSE /\ pc' = [pc EXCEPT ![n] = "leaveWait"]
               /\ conns' = IF rs[n] = 0
                              THEN ToSrv(conns, sock[n].succ, NewRangeMsg(rs[n], re[n]))
                              ELSE ToCli(conns, sock[n].pred, NewRangeMsg(rs[n], re[n]))
               /\ UNCHANGED udp
    /\ UNCHANGED <<blocked, rs, re, succ, sock, fd, store, nconn, issued, answers, tracked>>

\* Rest of shutdown_proceedure: receive_tcp_data reads ONE byte from the
\* neighbour the range went to and takes it as NET_NEW_RANGE_RESPONSE's tag;
\* send_all_entries hands every record to that neighbour and destroys the
\* table; only then is the tag checked.  A closed link (recv returns 0)
\* leaves the tag as initialised, NET_NEW_RANGE_RESPONSE; a reset link makes
\* recv fail, which is exit_with_error.  No byte within
\* 5 s is exit_with_error: the neighbour is neither polling nor about to
\* return from accept, or the NET_NEW_RANGE was lost on the way.  Then the
\* range is set to -1, which in uint8_t is [255, 255], for the grace poll.
\* A neighbour socket already reset to 0 by NET_LEAVING is descriptor 0,
\* not a link: the send fails and the receive poll or recv fails too.
LeaveResponse(n) ==
    LET toSucc == rs[n] = 0
        c == IF toSucc THEN sock[n].succ ELSE sock[n].pred
        q == IF toSucc THEN conns[c].toCli ELSE conns[c].toSrv
        out == IF toSucc THEN conns[c].toSrv ELSE conns[c].toCli
        peer == IF toSucc THEN conns[c].srv ELSE conns[c].cli
        peerOpen == IF toSucc THEN conns[c].srvOpen ELSE conns[c].cliOpen
        reset == IF toSucc THEN conns[c].cliRst ELSE conns[c].srvRst
        rest == IF Head(q).t \in {"NEW_RANGE_RESPONSE", "CLOSE"} THEN Tail(q)
                ELSE <<Garbage>> \o Tail(q)
        taken == IF toSucc THEN [conns EXCEPT ![c].toCli = rest]
                 ELSE [conns EXCEPT ![c].toSrv = rest]
        SendAll(cs) == IF toSucc THEN ToSrvSeq(cs, c, Transfers(n, 1, 0))
                       ELSE ToCliSeq(cs, c, Transfers(n, 1, 0))
        willAnswer == (CanPoll(peer) \/ (blocked[peer] /\ Backlog(peer) # {})) /\
                      \E i \in DOMAIN out : out[i].t = "NEW_RANGE"
        Grace(cs) ==
            /\ pc' = [pc EXCEPT ![n] = "grace"]
            /\ rs' = [rs EXCEPT ![n] = U8(-1)]
            /\ re' = [re EXCEPT ![n] = U8(-1)]
            /\ store' = [store EXCEPT ![n] = Empty]
            /\ conns' = cs
            /\ UNCHANGED <<blocked, succ, sock, fd, udp, nconn, answers>>
    IN
    /\ pc[n] = "leaveWait"
    /\ IF c = 0 THEN Fail(n, conns)
       ELSE /\ q # <<>> \/ ~peerOpen \/ ~willAnswer
            /\ CASE q # <<>> ->
                     IF Head(q).t = "NEW_RANGE_RESPONSE" THEN Grace(SendAll(taken))
                     ELSE Fail(n, SendAll(taken))
                [] ~peerOpen /\ ~reset -> Grace(SendAll(conns))
                [] OTHER -> Fail(n, conns)
    /\ UNCHANGED <<issued, tracked>>

\* The grace poll of shutdown_proceedure ends: NET_CLOSE_CONNECTION to the
\* successor, NET_LEAVING naming the successor to the predecessor, close
\* every socket, exit(0).  (The PDUs the grace poll handles are RecvUdp,
\* RecvSucc and RecvPred of a node in "grace".)
GraceEnd(n) ==
    /\ pc[n] = "grace" /\ ~blocked[n]
    /\ pc' = [pc EXCEPT ![n] = "left"]
    /\ conns' = ExitClose(ToCli(ToSrv(conns, sock[n].succ, CloseMsg),
                                sock[n].pred, LeavingMsg(succ[n])), n)
    /\ udp' = [udp EXCEPT ![n] = <<>>]
    /\ UNCHANGED <<blocked, rs, re, succ, sock, fd, store, nconn, issued, answers, tracked>>

\* A client sends VAL_INSERT, VAL_REMOVE or VAL_LOOKUP over UDP to a member.
Request(n) ==
    /\ issued < MaxReq
    /\ pc[n] = "serving"
    /\ "leave" \notin Quiet \/ \A o \in Node : pc[o] # "leaveWait"
    /\ "grace" \notin Quiet \/ \A o \in Node : pc[o] # "grace"
    /\ "transfer" \in Quiet => \A m \in InFlight : m.t = "INSERT" => m.rid # 0
    /\ \E op \in ValOps, k \in Key, v \in Val :
          udp' = [udp EXCEPT ![n] = Append(@, ValMsg(op, k, IF op = "INSERT" THEN v ELSE NoVal,
                                                    issued + 1))]
    /\ issued' = issued + 1
    /\ UNCHANGED <<pc, blocked, rs, re, succ, sock, fd, store, conns, nconn, answers, tracked>>

\* Every live node idles in the q6 loop (NET_ALIVE, poll) with nothing to read.
Idle ==
    /\ \A n \in Node : pc[n] \in {"off", "serving", "left", "failed"}
                       /\ ~blocked[n] /\ udp[n] = <<>>
    /\ \A c \in ConnId : conns[c].toSrv = <<>> /\ conns[c].toCli = <<>>
    /\ UNCHANGED vars

-----------------------------------------------------------------------------
Init ==
    /\ pc = [n \in Node |-> "off"]
    /\ blocked = [n \in Node |-> FALSE]
    /\ rs = [n \in Node |-> 0]
    /\ re = [n \in Node |-> 0]
    /\ succ = [n \in Node |-> None]
    /\ sock = [n \in Node |-> [succ |-> 0, pred |-> 0]]
    /\ fd = [n \in Node |-> [succ |-> 0, pred |-> 0]]
    /\ store = [n \in Node |-> Empty]
    /\ udp = [n \in Node |-> <<>>]
    /\ conns = [c \in ConnId |-> NoConn]
    /\ nconn = 0
    /\ issued = 0
    /\ answers = {}
    /\ tracked = {}

NodeStep(n) ==
    \/ Accept(n) \/ JoinResponse(n) \/ RecvUdp(n) \/ RecvSucc(n) \/ RecvPred(n)
    \/ ZeroRead(n) \/ RecvError(n)
    \/ LeaveResponse(n) \/ GraceEnd(n)

Next ==
    \/ \E n \in Node : NodeStep(n) \/ Start(n) \/ Shutdown(n) \/ Request(n)
    \/ \E n \in Node : TrackerAlive(n) \/ TrackerExpire(n)
    \/ Idle

\* Each process keeps running its poll loop and every blocking wait it enters
\* returns (accept as soon as a connection is queued, recv/poll with data or
\* timeout); each slot is polled on every round, so each is weakly fair.
Fairness ==
    \A n \in Node :
        /\ WF_vars(Accept(n)) /\ WF_vars(JoinResponse(n))
        /\ WF_vars(RecvUdp(n)) /\ WF_vars(RecvSucc(n)) /\ WF_vars(RecvPred(n))
        /\ WF_vars(ZeroRead(n)) /\ WF_vars(RecvError(n))
        /\ WF_vars(LeaveResponse(n)) /\ WF_vars(GraceEnd(n))
        /\ WF_vars(TrackerAlive(n))

Spec == Init /\ [][Next]_vars
FairSpec == Spec /\ Fairness

-----------------------------------------------------------------------------
TypeOK ==
    /\ pc \in [Node -> States]
    /\ blocked \in [Node -> BOOLEAN]
    /\ rs \in [Node -> Pos] /\ re \in [Node -> Pos]
    /\ succ \in [Node -> Node \cup {None}]
    /\ sock \in [Node -> [succ: 0..MaxConn, pred: 0..MaxConn]]
    /\ fd \in [Node -> [succ: 0..MaxConn, pred: 0..MaxConn]]
    /\ store \in [Node -> [Key -> Val \cup {NoVal}]]
    /\ udp \in [Node -> Seq(Msg)]
    /\ conns \in [ConnId -> Conn]
    /\ nconn \in 0..MaxConn
    /\ issued \in 0..MaxReq
    /\ answers \subseteq [rid: 1..MaxReq, val: Val]
    /\ tracked \subseteq Node

-----------------------------------------------------------------------------
(* The distributed range invariant (spec section 3 and 8).                  *)
Serving == {n \in Node : pc[n] = "serving"}

\* The node a successor link leads to (the server end of its connection).
SuccOf(n) == conns[sock[n].succ].srv

\* After every join and leave has settled, the ranges of the serving nodes
\* tile [0, 2^W - 1]: each position is owned by exactly one node.  Splits
\* (send_new_range_and_entries) and merges (update_range) must compose.
RangesTile ==
    Settled /\ Serving # {} =>
        \A p \in Pos : Cardinality({n \in Serving : InRange(n, p)}) = 1

\* After settling, the successor and predecessor sockets form one ring in
\* range order: each node's successor link is the predecessor link of the
\* node owning the position after its range_end, and successor.dest_addr
\* names that node; a node alone holds no links.  Joins (q7/q8, the split)
\* and leaves (NET_CLOSE_CONNECTION, NET_LEAVING) must splice consistently.
RingLinked ==
    Settled =>
        \A n \in Serving :
            IF Serving = {n}
               THEN sock[n].succ = 0 /\ sock[n].pred = 0
               ELSE /\ sock[n].succ # 0 /\ fd[n].succ = sock[n].succ
                    /\ SuccOf(n) \in Serving /\ succ[n] = SuccOf(n)
                    /\ sock[SuccOf(n)].pred = sock[n].succ
                    /\ fd[SuccOf(n)].pred = sock[n].succ
                    /\ InRange(SuccOf(n), U8(re[n] + 1))

\* A running node holds only records whose key hashes into its own range:
\* the split keeps exactly [start, mid], a leave hands over every record,
\* and a VAL_INSERT is stored only in range.
RecordsPlaced ==
    \A n \in Node, k \in Key :
        Live(n) /\ store[n][k] # NoVal => InRange(n, Hash[k])

-----------------------------------------------------------------------------
(* Refinement of KVStore.  A record is held by the hash table of a running  *)
(* node or by a transfer VAL_INSERT (rid 0) queued towards a running node;  *)
(* a client request is pending while its PDU is queued anywhere.            *)
Holders(k, live, transfers) ==
    ({store[n][k] : n \in live} \cup {m.val : m \in {x \in transfers : x.key = k}}) \ {NoVal}

AbsKV ==
    LET live == {n \in Node : Live(n)}
        transfers == {m \in InFlight : m.t = "INSERT" /\ m.rid = 0}
    IN  [k \in Key |-> LET h == Holders(k, live, transfers)
                       IN  IF h = {} THEN NoVal ELSE CHOOSE v \in h : TRUE]
AbsPend == {m \in InFlight : m.t \in ValOps /\ m.rid # 0}

KV == INSTANCE KVStore WITH kv <- AbsKV, pend <- AbsPend

\* Joins, departures and routing together behave as one key/value map: no
\* split, transfer, range hand-off or forward loses, resurrects or alters a
\* record, and every lookup answer is the value the map holds at that point.
KVSpec == KV!Spec

\* A node that sent NET_JOIN (q7) eventually serves a range (q6).
JoinCompletes == \A n \in Node : pc[n] = "joinAccept" ~> pc[n] = "serving"

\* Every client request is eventually applied, answered or dropped: no
\* VAL_* PDU is forwarded round the ring for ever.
RequestsResolve ==
    \A r \in 1..MaxReq : (r \in {m.rid : m \in AbsPend}) ~> (r \notin {m.rid : m \in AbsPend})

\* A node blocked in accept_predecessor_connection (poll with no timeout)
\* is eventually connected to: after a split, by the joiner's q8; after
\* NET_CLOSE_CONNECTION, by the departing node's predecessor, which the
\* NET_LEAVING sends to this node.  Nobody waits for ever on a connect
\* that no one will make.
AcceptReturns == \A n \in Node : blocked[n] ~> ~blocked[n] \/ ~Live(n)

\* PDUs queued to n: on its UDP socket and on the links it reads.
Inbound(n) ==
    ToSet(udp[n]) \cup UNION {ToSet(conns[c].toCli) : c \in {d \in ConnId : conns[d].cli = n}}
                  \cup UNION {ToSet(conns[c].toSrv) : c \in {d \in ConnId : conns[d].srv = n}}

\* The two places where a queued request m may vanish at node n: n exits in
\* this step (close_all_sockets, or the kernel at exit, discards what is
\* queued; the grace poll is a single round of poll), or m is out of n's
\* range and n forwards it on a successor link whose far end is a process
\* that has exited, because the NET_LEAVING that replaces the link is read
\* after the UDP slot.
LostAt(n, m) ==
    /\ m \in Inbound(n)
    /\ \/ Live(n) /\ ~Live(n)'
       \/ /\ ~InRange(n, Hash[m.key])
          /\ fd[n].succ # 0
          /\ conns[fd[n].succ].srv \in Node
          /\ ~Live(conns[fd[n].succ].srv)

\* A VAL_LOOKUP of a key the ring holds gets a VAL_LOOKUP_RESPONSE when it
\* leaves the network, unless it is lost where LostAt allows: forwarding,
\* splits and hand-offs never route it to a node that lacks the record, and
\* handle_ht_lookup answers a found key at its owner (hash_handling.c:145).
\* A lookup of an absent key is not constrained here: the code sends nothing
\* for it (hash_handling.c:158), though the comment at hash_handling.c:137
\* and src/test/test_new_lookup.c expect a response.
LookupAnswered ==
    [][\A m \in AbsPend :
          m.t = "LOOKUP" /\ AbsKV[m.key] # NoVal /\ m.rid \notin {x.rid : x \in AbsPend'}
             => \/ m.rid \in {a.rid : a \in answers'}
                \/ \E n \in Node : LostAt(n, m)]_vars

-----------------------------------------------------------------------------
(* What the specification says and the code does not do.                  *)

\* Spec section 3: every node's range satisfies start <= end.  A NET_JOIN
\* names the node whose span was largest when the PDU passed it; if another
\* join has split that node since, handle_net_join splits it again.
RangeWellFormed == \A n \in Serving : rs[n] <= re[n]

=============================================================================
