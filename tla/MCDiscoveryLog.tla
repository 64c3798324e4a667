--------------------------- MODULE MCDiscoveryLog ---------------------------
(***************************************************************************)
(* DiscoveryLog instantiated for TLC.                                      *)
(***************************************************************************)
EXTENDS DiscoveryLog, TLC

CONSTANTS nqnA, nqnB, nqnC, nqnDisc

\* Names whose sort order differs from any order of the model values:
\* nqnC is a prefix of nqnB, and both sort before nqnA.
Names == nqnA :> <<98>> @@ nqnB :> <<97, 98>> @@ nqnC :> <<97>>
           @@ nqnDisc :> <<100>>

\* "127.0.0.1:4420", abstracted to one address byte and a two-byte port.
Addr == <<49>>
Port == <<52, 52>>

\* Discovery reads as a host makes them: 1024, 2048 or 4096 bytes, at
\* offset 0 or at an entry boundary.
AlignedReads ==
  {[lid |-> LPDiscovery, numdl |-> d, numdu |-> 0, lpol |-> o] :
     d \in {255, 511, 1023}, o \in {0, 1024, 2048, 4096}}

\* The reads above, a read at offset 512 (inside the header, which
\* GetLogPage turns into the entry index -1) and a read of log page 2
\* (SMART), which the discovery subsystem does not serve.
HostReads ==
  AlignedReads \cup
  {[lid |-> LPDiscovery, numdl |-> 255, numdu |-> 0, lpol |-> 512],
   [lid |-> 2, numdl |-> 255, numdu |-> 0, lpol |-> 0]}

\* A header read of 12 bytes: NUMD = 2.
ShortRead == {[lid |-> LPDiscovery, numdl |-> 2, numdu |-> 0, lpol |-> 0]}

\* Queue ids, CIDs and NQNs of a client: the admin queue and two IO
\* queues, the first and the last CID, and an empty, a short and a
\* 256-byte NQN (the field's whole length, with no terminating 0).
ClientQueueIds == {0, 1, 300}
ClientCids == {0, 65535}
ClientNqns == {<<>>, <<110, 113, 110>>, [i \in 1..256 |-> 97]}

\* Connects a host may open the session with: every queue id, CID and
\* host NQN above, to the discovery subsystem or to an unknown name of
\* the field's whole length.
Connects ==
  {[id |-> id, cid |-> cid, sub |-> sub, host |-> host] :
     id \in ClientQueueIds, cid \in ClientCids,
     sub \in {Names[nqnDisc], [i \in 1..256 |-> 97]}, host \in ClientNqns}

\* The admin queue's Connect to the discovery subsystem.
DiscoveryConnect ==
  {[id |-> 0, cid |-> 0, sub |-> Names[nqnDisc], host |-> <<110, 113, 110>>]}

====
