------------------------------ MODULE Framing ------------------------------
(***************************************************************************)
(* One TCP link of the ring, at byte level.  The peer writes PDUs with     *)
(* send_tcp_pdu (a fixed-size struct) or send_insert_pdu_tcp (VAL_INSERT,  *)
(* length-prefixed name and email); the receiver takes whatever a recv()   *)
(* returns and walks it with the offset loop of poll_for_incoming_data,    *)
(* decoding VAL_INSERT with handle_val_insert and every other PDU with a   *)
(* memcpy of sizeof(pdu).  A link that carries a join starts with the      *)
(* NET_JOIN_RESPONSE that q7 reads with receive_tcp_data into 9 bytes.     *)
(* DHT.tla works on whole PDUs; this module checks what that assumes.      *)
(***************************************************************************)
EXTENDS Integers, Sequences, SequencesExt, TLC

CONSTANTS
    Pdus,       \* PDUs the peer may write: [t |-> tag, f |-> field bytes]
                \* or, for VAL_INSERT, [t |-> 100, ssn, name, email]
    JoinResp,   \* the NET_JOIN_RESPONSE a joiner reads first (q7)
    SyncFirst,  \* the link is a joiner's predecessor link
    MaxPdus,    \* PDUs written on the link in one behaviour
    Split,      \* a recv() may end inside a PDU (TCP segmentation)
    Stale       \* a buffer byte this read did not write

SSN_LENGTH == 12

\* Tags of pdu.h, #defined alike in src/test/test_new_lookup.c:18-28, and
\* the sizes the receiver advances by.
NET_JOIN == 3
NET_JOIN_RESPONSE == 4
NET_CLOSE_CONNECTION == 5
NET_NEW_RANGE == 6
NET_LEAVING == 7
VAL_INSERT == 100
VAL_REMOVE == 101
VAL_LOOKUP == 102

\* sizeof of each fixed-size PDU struct (packed, as on the wire); the case
\* NET_CLOSE_CONNECTION advances by offset++.
PduSize ==
    (NET_JOIN :> 14) @@ (NET_NEW_RANGE :> 3) @@ (NET_LEAVING :> 7)
    @@ (VAL_REMOVE :> 13) @@ (VAL_LOOKUP :> 19) @@ (NET_CLOSE_CONNECTION :> 1)

\* The bytes a PDU puts on the stream: the struct for fixed-size PDUs,
\* the buffer built by send_insert_pdu_tcp for VAL_INSERT.
Encode(p) ==
    IF p.t = VAL_INSERT
    THEN <<VAL_INSERT>> \o p.ssn \o <<Len(p.name)>> \o p.name
                        \o <<Len(p.email)>> \o p.email
    ELSE <<p.t>> \o p.f

VARIABLES
    sent,       \* PDUs written, in order
    wire,       \* bytes written and not yet read
    rpos,       \* bytes read so far (stream position of Head(wire))
    pc,         \* "sync" (q7's receive_tcp_data) or "poll" (q6)
    handled     \* PDUs dispatched: [at |-> stream position, bytes |-> decoded]

vars == <<sent, wire, rpos, pc, handled>>

\* Stream position at which the j-th PDU written starts.
Start(j) == FoldLeft(LAMBDA acc, p : acc + Len(Encode(p)), 0, SubSeq(sent, 1, j - 1))

Boundaries == {Start(j) : j \in 1..Len(sent) + 1}

\* The n bytes a memcpy takes from offset off of a read of buf.
Window(buf, off, n) == [i \in 1..n |-> IF off + i <= Len(buf) THEN buf[off + i] ELSE Stale]

\* Variants of handle_val_insert: the returned size without the email
\* length byte; the last bound check rejecting a PDU that ends the read.
handle_val_insert_short(buf, off) ==
    LET n  == Len(buf) - off
        nl == buf[off + 2 + SSN_LENGTH]
    IN  IF n < 1 + SSN_LENGTH + 1 \/ 2 + SSN_LENGTH + nl >= n THEN -1
        ELSE LET el == buf[off + 3 + SSN_LENGTH + nl]
             IN  IF 3 + SSN_LENGTH + nl + el > n THEN -1 ELSE 2 + SSN_LENGTH + nl + el

handle_val_insert_strict(buf, off) ==
    LET n  == Len(buf) - off
        nl == buf[off + 2 + SSN_LENGTH]
    IN  IF n < 1 + SSN_LENGTH + 1 \/ 2 + SSN_LENGTH + nl >= n THEN -1
        ELSE LET el == buf[off + 3 + SSN_LENGTH + nl]
             IN  IF 3 + SSN_LENGTH + nl + el >= n THEN -1 ELSE 3 + SSN_LENGTH + nl + el

\* handle_val_insert: the size of the VAL_INSERT at off, or -1.  When the
\* name ends exactly at the end of the read, the email length is read past
\* it and the last check fails whatever that byte holds.
handle_val_insert(buf, off) ==
    LET n  == Len(buf) - off
        nl == buf[off + 2 + SSN_LENGTH]
    IN  IF n < 1 + SSN_LENGTH + 1 THEN -1
        ELSE IF 2 + SSN_LENGTH + nl > n THEN -1
        ELSE IF 2 + SSN_LENGTH + nl = n THEN -1
        ELSE LET el == buf[off + 3 + SSN_LENGTH + nl]
             IN  IF 3 + SSN_LENGTH + nl + el > n THEN -1
                 ELSE 3 + SSN_LENGTH + nl + el

\* The offset loop of poll_for_incoming_data over one read buf that starts
\* at stream position base: dispatch on the tag, advance by the PDU's
\* size; an invalid tag or a failed VAL_INSERT ends the loop (offset = -1).
RECURSIVE ParseFrom(_, _, _)
ParseFrom(buf, off, base) ==
    IF off >= Len(buf) THEN <<>>
    ELSE LET tag == buf[off + 1]
             size == IF tag = VAL_INSERT THEN handle_val_insert(buf, off)
                     ELSE IF tag \in DOMAIN PduSize THEN PduSize[tag]
                     ELSE -1
         IN  IF size < 0 THEN <<>>
             ELSE << [at |-> base + off, bytes |-> Window(buf, off, size)] >>
                  \o ParseFrom(buf, off + size, base)

\* What one recv() may return: any prefix of the queued bytes when
\* segments may be cut, otherwise whole PDUs (one or more coalesced).
ReadSizes ==
    IF Split THEN 1..Len(wire)
    ELSE {k \in 1..Len(wire) : rpos + k \in Boundaries}

Init ==
    /\ sent = IF SyncFirst THEN <<JoinResp>> ELSE <<>>
    /\ wire = IF SyncFirst THEN Encode(JoinResp) ELSE <<>>
    /\ rpos = 0
    /\ pc = IF SyncFirst THEN "sync" ELSE "poll"
    /\ handled = <<>>

\* The peer writes one more PDU (send_tcp_pdu / send_insert_pdu_tcp).
Send ==
    /\ Len(sent) < MaxPdus
    /\ \E p \in Pdus :
        /\ sent' = Append(sent, p)
        /\ wire' = wire \o Encode(p)
    /\ UNCHANGED <<rpos, pc, handled>>

\* q7: receive_tcp_data(self, "predecessor", in_buffer, 9) reads at most
\* 9 bytes; in_buffer[7], in_buffer[8] become the range whatever was read.
SyncRecv ==
    /\ pc = "sync" /\ wire # <<>>
    /\ \E k \in ReadSizes \cap 1..9 :
        /\ handled' = Append(handled, [at |-> 0, bytes |-> Window(SubSeq(wire, 1, k), 0, 9)])
        /\ wire' = SubSeq(wire, k + 1, Len(wire))
        /\ rpos' = k
    /\ pc' = "poll"
    /\ UNCHANGED sent

\* q6: poll_for_incoming_data on this slot: one recv() and its offset loop.
Recv ==
    /\ pc = "poll" /\ wire # <<>>
    /\ \E k \in ReadSizes :
        /\ handled' = handled \o ParseFrom(SubSeq(wire, 1, k), 0, rpos)
        /\ wire' = SubSeq(wire, k + 1, Len(wire))
        /\ rpos' = rpos + k
    /\ UNCHANGED <<sent, pc>>

\* q6: the poll times out with nothing on the link and the loop goes round.
PollTimeout ==
    /\ pc = "poll" /\ wire = <<>>
    /\ UNCHANGED vars

Next == Send \/ SyncRecv \/ Recv \/ PollTimeout

\* The node polls the slot on every round of q6 and q7 waits on it.
Spec == Init /\ [][Next]_vars /\ WF_vars(SyncRecv) /\ WF_vars(Recv)

-----------------------------------------------------------------------------
\* Every PDU the receiver hands to a handler is one the peer wrote, decoded
\* from the position where it starts and from its own bytes only: the
\* offset loop (and q7's 9-byte read) never decodes a PDU from the middle
\* of another, from two reads, or from buffer bytes this read did not fill.
DecodedAsSent ==
    \A i \in DOMAIN handled :
        \E j \in DOMAIN sent :
            /\ handled[i].at = Start(j)
            /\ handled[i].bytes = Encode(sent[j])

\* Every PDU written on the link is eventually dispatched by the receiver
\* (none is dropped by the offset loop's error exits).
EveryPduHandled ==
    \A j \in 1..MaxPdus :
        Len(sent) >= j ~>
            Len(sent) >= j /\ \E i \in DOMAIN handled : handled[i].at = Start(j)
=============================================================================
