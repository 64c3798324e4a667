---------------------------- MODULE DiscoveryLog ----------------------------
(***************************************************************************)
(* The discovery log page of the target, from the Get Log Page capsule to  *)
(* the bytes of the reply, with the server's subsystem map changing under  *)
(* it.                                                                     *)
(*                                                                         *)
(* A controller connected to the discovery subsystem dispatches Get Log    *)
(* Page (controller_capsule_admin.go): it reinterprets the capsule as a    *)
(* GetLogPageCommand, computes the length and offset, and calls            *)
(* DiscoverySubsystem.GetLogPage (subsys_discovery.go).  That ranges over  *)
(* Server.SubSystems without the server lock, sorts the names, and         *)
(* serializes the log page (offset 0) or the entries from offset/1024 - 1  *)
(* on (any other offset) into a buffer of the requested length.  The API   *)
(* adds and removes subsystems (server.go) at any time.                    *)
(*                                                                         *)
(* The session starts with the host's fabric Connect (controller_fabric.go),*)
(* which binds the controller to the subsystem the decoded SubNQN names;   *)
(* until then its subsystem is the InitSubsystem, whose GetLogPage fails.  *)
(*                                                                         *)
(* The page's layouts and the codec are those of WireCodec.                *)
(***************************************************************************)
EXTENDS WireCodec, SequencesExt, Bitwise

CONSTANTS
  NQNs,          \* names of target subsystems the API may add
  Discovery,     \* NVMEDiscoverySubsystemName
  NqnBytes,      \* the bytes of each name
  AddrBytes,     \* Server.Address before the ':'
  PortBytes,     \* Server.Address after the ':'
  LogRequests,   \* Get Log Page commands a host may send:
                 \* [lid, numdl, numdu, lpol] (dword count and offset fields)
  ConnectRequests \* Connects a host may open the session with:
                 \* [id, cid, sub, host] (queue id, CID, NQN bytes)

\* A host connects to the discovery subsystem or to a name the server
\* does not have; a Connect to a target subsystem is NvmeController's.
ASSUME \A r \in ConnectRequests : \A n \in NQNs : r.sub # NqnBytes[n]

VARIABLES
  subsystems,    \* the keys of Server.SubSystems
  pc,            \* the controller: "connect", "bind", "idle" (bound to the
                 \* discovery subsystem), "unbound" (still the InitSubsystem),
                 \* "range", "serve", or "exit" once the process died
  conn,          \* the Connect handler's locals: the request and what the
                 \* controller decoded from it
  rq,            \* the command being served
  seen,          \* the keys of the map when the range started
  during,        \* the keys written while the range was running
  list,          \* subsys: the sorted names the range produced
  reply          \* the reply just written: the command, the names, the bytes

vars == <<subsystems, pc, conn, rq, seen, during, list, reply>>

LPDiscovery == 112                   \* 0x70
CapsuleCmdGetLogPage == 2
NoCmd == [lid |-> 0, numdl |-> 0, numdu |-> 0, lpol |-> 0]
NoReply == [cmd |-> NoCmd, list |-> <<>>, buf |-> EmptyBuf]
NoConn == [sent |-> [id |-> 0, cid |-> 0, sub |-> <<>>, host |-> <<>>],
           cmd |-> OkV(<<>>), data |-> OkV(<<>>)]

----------------------------------------------------------------------------
(* The command as decoded by the controller. *)

\* The capsule a host sends for a Get Log Page command (CDW10 holds the
\* log id and NUMDL, CDW11 NUMDU, CDW12 the offset).
GetLogPageCapsule(c) ==
  [OpCode |-> CapsuleCmdGetLogPage, PRP |-> 0, CID |-> 0, FCType |-> 0,
   DPTR |-> [i \in 1..16 |-> 0], D10 |-> c.lid + 65536 * c.numdl,
   D11 |-> c.numdu, D12 |-> c.lpol, D13 |-> 0, D14 |-> 0, D15 |-> 0]

GetLogPageCommandLayout ==
  << Field("OpCode", "u8", 0), Field("Flags", "u8", 1),
     Field("CommendId", "u8", 2), Field("NamespaceId", "u32", 4),
     Field("LogPageId", "u8", 40), Field("LogSp", "u8", 41),
     Field("NumDWordsLower", "u16", 42), Field("NumDWordsUpper", "u16", 44),
     Field("D12", "u32", 48), Field("D13", "u32", 52),
     Field("D14", "u32", 56), Field("D15", "u32", 60) >>

\* GetLogPageCommand.GetReturnBufferLength and GetReturnOffset.
GetReturnBufferLength(lpc) == 4 * ((lpc.NumDWordsUpper | lpc.NumDWordsLower) + 1)
GetReturnOffset(lpc) == lpc.D12 + (lpc.D13 * 65536) * 65536

\* What the host asked for: NUMD is NUMDU:NUMDL, zero based, in dwords.
RequestedLength(c) == 4 * (c.numdu * 65536 + c.numdl + 1)

----------------------------------------------------------------------------
(* The log page. *)

\* Go's string <: byte-wise lexicographic order.
StrLess(a, b) ==
  \E k \in 0..Len(a) :
     /\ k <= Len(b)
     /\ SubSeq(a, 1, k) = SubSeq(b, 1, k)
     /\ \/ k = Len(a) /\ k < Len(b)
        \/ k < Len(a) /\ k < Len(b) /\ a[k+1] < b[k+1]

SortByNqn(S) == SetToSortSeq(S, LAMBDA a, b : StrLess(NqnBytes[a], NqnBytes[b]))

\* The entry GetLogPage builds for one subsystem.
Entry(n) ==
  [TransportType |-> 3, AddressFamily |-> 1, SubsystemType |-> 2,
   TransportRequirements |-> 4, PortId |-> 1, ControllerId |-> 65535,
   AdminMaxQueueSize |-> 8192, TransportServiceId |-> PortBytes,
   SubNQN |-> NqnBytes[n], TransportAddress |-> AddrBytes, TSAS |-> <<>>]

\* Mutant of LogPage: the entry index without the -1 for the header.
LogPageNoHeaderSkip(l, offset, length) ==
  IF offset = 0
  THEN Serialize(DiscoveryLogPageLayout,
                 [GenerationCounter |-> 0, NumberOfRecords |-> Len(l),
                  RecordFormat |-> 0,
                  DiscoveryLofEntries |-> [i \in 1..Len(l) |-> Entry(l[i])]],
                 length)
  ELSE LET idx == offset \div 1024 IN
       IF idx < 0 THEN Panic(EmptyBuf)
       ELSE Serialize(DiscoveryLogPageDataLayout,
                      [DiscoveryLofEntries |->
                         IF idx >= Len(l) THEN <<>>
                         ELSE [i \in 1..Len(l) - idx |-> Entry(l[idx + i])]],
                      length)

\* GetLogPage(LPDiscovery, offset, length) after the range: the whole page
\* at offset 0, otherwise the entries from offset/1024 - 1 on at 0, where
\* an index of -1 is subsys[-1], a panic.  The result of Serialize is
\* ignored: the buffer goes back as far as it was written.
LogPage(l, offset, length) ==
  IF offset = 0
  THEN Serialize(DiscoveryLogPageLayout,
                 [GenerationCounter |-> 0, NumberOfRecords |-> Len(l),
                  RecordFormat |-> 0,
                  DiscoveryLofEntries |-> [i \in 1..Len(l) |-> Entry(l[i])]],
                 length)
  ELSE LET idx == offset \div 1024 - 1 IN
       IF idx < 0 THEN Panic(EmptyBuf)
       ELSE Serialize(DiscoveryLogPageDataLayout,
                      [DiscoveryLofEntries |->
                         IF idx >= Len(l) THEN <<>>
                         ELSE [i \in 1..Len(l) - idx |-> Entry(l[idx + i])]],
                      length)

----------------------------------------------------------------------------
(* Actions. *)

\* server.New: the map holds the discovery subsystem.
Init ==
  /\ subsystems = {Discovery}
  /\ pc = "connect"
  /\ conn = NoConn
  /\ rq = NoCmd
  /\ seen = {}
  /\ during = {}
  /\ list = <<>>
  /\ reply = NoReply

\* A write to the map while the range runs is remembered in during.
NoteWrite(n) == during' = IF pc = "range" THEN during \cup {n} ELSE during

\* Server.AddSubSystem: under s.Lock, which the range does not take.
AddSubSystem(n) ==
  /\ pc # "exit"
  /\ subsystems' = subsystems \cup {n}
  /\ NoteWrite(n)
  /\ UNCHANGED <<pc, conn, rq, seen, list, reply>>

\* Server.RemoveSubSystem: an unknown name returns an error and changes
\* nothing.  Closing the sessions bound to it is NvmeServer's part.
RemoveSubSystem(n) ==
  /\ pc # "exit"
  /\ n \in subsystems
  /\ subsystems' = subsystems \ {n}
  /\ NoteWrite(n)
  /\ UNCHANGED <<pc, conn, rq, seen, list, reply>>

\* handleFabricCommand, Connect: the controller reinterprets the capsule as
\* a ConnectCommand and deserializes the payload as ConnectData; a failure
\* of either is tracer.Fatal.
Connect(r) ==
  LET got == ReceiveConnect(ClientConnect(r.id, r.cid),
                            ClientConnectData(r.sub, r.host))
  IN /\ pc = "connect"
     /\ conn' = [sent |-> r, cmd |-> got.cmd, data |-> got.data]
     /\ pc' = IF got.cmd.st = "ok" /\ got.data.st = "ok" THEN "bind" ELSE "exit"
     /\ UNCHANGED <<subsystems, rq, seen, during, list, reply>>

\* The rest of the Connect case: Server.GetSubSystem(ConnectedSubNQN) under
\* s.Lock.  A name the map does not hold answers SCNamespaceNotReady and
\* leaves the InitSubsystem bound.  The queue size check that follows
\* passes: Client.openQueue asks for 32 entries of the controller's 64.
\* The handler's locals end with it.
Bind ==
  /\ pc = "bind"
  /\ pc' = IF Discovery \in subsystems /\ conn.data.val.SubNQN = NqnBytes[Discovery]
           THEN "idle" ELSE "unbound"
  /\ conn' = NoConn
  /\ UNCHANGED <<subsystems, rq, seen, during, list, reply>>

\* The Get Log Page case of handleAdminCommand up to the subsystem's
\* switch on val = D10 & 0xFF: a log id other than the discovery page is
\* an error, which is tracer.Fatal, as is every log page of the
\* InitSubsystem.  The discovery page starts the range over the map; the
\* previous reply is already on the wire.
Dispatch(c) ==
  /\ pc \in {"idle", "unbound"}
  /\ rq' = c
  /\ pc' = IF pc = "idle" /\ GetLogPageCapsule(c).D10 % 256 = LPDiscovery
           THEN "range" ELSE "exit"
  /\ seen' = subsystems
  /\ during' = {}
  /\ reply' = NoReply
  /\ UNCHANGED <<subsystems, conn, list>>

\* Mutant of RangeSubSystems: the discovery subsystem not skipped.
RangeSubSystemsNoSkip ==
  /\ pc = "range"
  /\ \/ /\ during = {}
        /\ list' = SortByNqn(seen)
        /\ pc' = "serve"
     \/ /\ during # {}
        /\ \E T \in SUBSET during :
              list' = SortByNqn(((seen \ during) \cup T) \ {Discovery})
        /\ pc' = "serve"
     \/ /\ during # {}
        /\ pc' = "exit"
        /\ UNCHANGED list
  /\ UNCHANGED <<subsystems, conn, rq, seen, during, reply>>

\* The range over s.Server.SubSystems, skipping the discovery subsystem,
\* then the sort.  Without a concurrent write it yields the keys it
\* started with.  A write during the range is a data race: the runtime may
\* stop the process ("concurrent map iteration and map write"), and
\* otherwise a key written meanwhile may or may not be produced.
RangeSubSystems ==
  /\ pc = "range"
  /\ \/ /\ during = {}
        /\ list' = SortByNqn(seen \ {Discovery})
        /\ pc' = "serve"
     \/ /\ during # {}
        /\ \E T \in SUBSET during :
              list' = SortByNqn(((seen \ during) \cup T) \ {Discovery})
        /\ pc' = "serve"
     \/ /\ during # {}
        /\ pc' = "exit"
        /\ UNCHANGED list
  /\ UNCHANGED <<subsystems, conn, rq, seen, during, reply>>

\* The rest of GetLogPage and the reply: the page serialized into
\* make([]byte, length), then w.Write(data).  A panic ends the process.
\* The call's locals end with it.
Serve ==
  /\ pc = "serve"
  /\ LET lpc == ReinterpretCapsule(GetLogPageCapsule(rq), GetLogPageCommandLayout).val
         r == LogPage(list, GetReturnOffset(lpc), GetReturnBufferLength(lpc))
     IN IF r.st = "panic"
        THEN pc' = "exit" /\ UNCHANGED <<rq, seen, during, list, reply>>
        ELSE /\ pc' = "idle"
             /\ reply' = [cmd |-> rq, list |-> list, buf |-> r.buf]
             /\ rq' = NoCmd
             /\ seen' = {}
             /\ during' = {}
             /\ list' = <<>>
  /\ UNCHANGED <<subsystems, conn>>

\* The process has exited.
Exited == pc = "exit" /\ UNCHANGED vars

Next ==
  \/ \E r \in ConnectRequests : Connect(r)
  \/ Bind
  \/ \E n \in NQNs : AddSubSystem(n) \/ RemoveSubSystem(n)
  \/ \E c \in LogRequests : Dispatch(c)
  \/ RangeSubSystems
  \/ Serve
  \/ Exited

Spec == Init /\ [][Next]_vars

----------------------------------------------------------------------------
(* Properties. *)

TypeOK ==
  /\ subsystems \subseteq NQNs \cup {Discovery}
  /\ pc \in {"connect", "bind", "idle", "unbound", "range", "serve", "exit"}
  /\ conn.sent \in ConnectRequests \cup {NoConn.sent}
  /\ rq \in LogRequests \cup {NoCmd}
  /\ seen \subseteq NQNs \cup {Discovery}
  /\ during \subseteq NQNs
  /\ list \in Seq(NQNs)
  /\ reply.cmd \in LogRequests \cup {NoCmd}
  /\ \A p \in DOMAIN reply.buf : reply.buf[p] \in 0..255

\* The discovery log page of an NVMe over Fabrics target as the host reads
\* it: the record count at byte 8 of a 1024-byte header, then entry i at
\* 1024 * i, with the transport fields in bytes 0 to 9, the service id at
\* 32, the subsystem NQN at 256, the address at 512 and TSAS at 768.  The
\* pairs <<position, byte>> of its non-zero bytes.
RefLog(l) ==
  LET Put(at, bs) == {<<at + i, bs[i]>> : i \in DOMAIN bs}
      RefEntry(e, at) ==
        UNION {Put(at, LittleEndian(e.TransportType, 1)),
               Put(at + 1, LittleEndian(e.AddressFamily, 1)),
               Put(at + 2, LittleEndian(e.SubsystemType, 1)),
               Put(at + 3, LittleEndian(e.TransportRequirements, 1)),
               Put(at + 4, LittleEndian(e.PortId, 2)),
               Put(at + 6, LittleEndian(e.ControllerId, 2)),
               Put(at + 8, LittleEndian(e.AdminMaxQueueSize, 2)),
               Put(at + 32, StrBytes(e.TransportServiceId)),
               Put(at + 256, StrBytes(e.SubNQN)),
               Put(at + 512, StrBytes(e.TransportAddress)),
               Put(at + 768, StrBytes(e.TSAS))}
      all == Put(8, LittleEndian(Len(l), 8))
               \cup UNION {RefEntry(Entry(l[i]), 1024 * i) : i \in 1..Len(l)}
  IN {x \in all : x[2] # 0}

\* The bytes [off, off + len) of that page, moved to start at 0.
RefSlice(l, off, len) ==
  {<<x[1] - off, x[2]>> : x \in {y \in RefLog(l) : off <= y[1] /\ y[1] < off + len}}

\* The non-zero bytes of a reply buffer.
Sent(buf) == {<<p, buf[p]>> : p \in {q \in DOMAIN buf : buf[q] # 0}}

\* Every Get Log Page reply is the part of the discovery log page the host
\* asked for: the bytes at the requested offset and length of the page
\* that lists the names the range produced.  It fails if the capsule is
\* reinterpreted, the length or the offset computed, the entry index
\* chosen, or a nested entry serialized at the wrong place or size.
ReplyIsLogSlice ==
  reply # NoReply =>
    Sent(reply.buf) = RefSlice(reply.list, reply.cmd.lpol, RequestedLength(reply.cmd))

\* A Connect arrives as the client sent it: the controller's decoded
\* ConnectCommand has the exported fields of the command Client.openQueue
\* built, and its ConnectData is the data, NQNs of up to 256 bytes
\* included.  It fails if a hand codec (ConnectCommand.Marshal,
\* CapsuleCommand.Unmarshal) and a tag layout disagree on a field's place
\* or width, or if the tag codec drops or cuts a field.
ConnectRoundTrip ==
  conn # NoConn =>
    /\ conn.cmd.st = "ok"
    /\ Exported(conn.cmd.val, ConnectCommandLayout)
         = Exported(ClientConnect(conn.sent.id, conn.sent.cid), ConnectCommandLayout)
    /\ conn.data = OkV(ClientConnectData(conn.sent.sub, conn.sent.host))

\* The target process survives every Get Log Page a host sends: a read
\* whose length the page does not fit fails as an error (spec: the codec
\* never writes past the declared buffer), never as a panic of
\* PutUint64 (serialize.go checks only a field's start against the
\* buffer), of subsys[idx] or of a concurrent map write.
NoCrash == pc # "exit"


====
