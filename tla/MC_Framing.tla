---------------------------- MODULE MC_Framing ----------------------------
EXTENDS Framing

\* Wire contents as the test clients and the nodes produce them: an ssn is
\* 12 ASCII digits, names and emails ASCII text ('d' = 100 = VAL_INSERT,
\* 'e' = 101 = VAL_REMOVE), addresses 127.0.0.1, ports in network order.
MCSsn == [i \in 1..12 |-> 48]
MCAddr == <<127, 0, 0, 1>>
MCPort == <<100, 101>>

MCInsertD == [t |-> 100, ssn |-> MCSsn, name |-> <<100>>, email |-> <<>>]
MCInsertE == [t |-> 100, ssn |-> MCSsn, name |-> <<>>, email |-> <<101, 97>>]
MCLookup == [t |-> 102, f |-> MCSsn \o MCAddr \o MCPort]
MCRemove == [t |-> 101, f |-> MCSsn]
MCJoin == [t |-> 3, f |-> MCAddr \o MCPort \o <<3>> \o MCAddr \o MCPort]
MCNewRange == [t |-> 6, f |-> <<0, 127>>]
MCLeaving == [t |-> 7, f |-> MCAddr \o MCPort]
MCClose == [t |-> 5, f |-> <<>>]
MCJoinResp == [t |-> 4, f |-> MCAddr \o MCPort \o <<128, 255>>]

\* Everything a node writes on a neighbour link in the poll loop.
MCPdus == {MCInsertD, MCInsertE, MCLookup, MCRemove, MCJoin, MCNewRange, MCLeaving, MCClose}
MCFixed == {MCLookup, MCRemove}
MCInserts == {MCInsertD, MCInsertE}
=============================================================================
