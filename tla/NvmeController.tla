--------------------------- MODULE NvmeController ---------------------------
(***************************************************************************)
(* The target-side Controller of go-nvme, one per accepted TCP connection  *)
(* (src/controller.go and the handlers it calls).                          *)
(*                                                                         *)
(* Three goroutines share one Controller:                                  *)
(*  - the receive loop (Serve/HandleCapsule) reads PDUs from the host,     *)
(*    takes a request slot from the bounded "waiting" channel, dispatches  *)
(*    the capsule and, once the connection ends, drains every slot back;   *)
(*  - the CompletionHandler writes the response of every request pushed    *)
(*    onto "completions" and returns its payload buffer and its slot;      *)
(*  - the storage backend (Subsystem.QueueIO -> Target.Queue) completes    *)
(*    queued IO requests later, from its own goroutines.                   *)
(* The host is the environment: it sends PDUs and may close the TCP        *)
(* connection at any moment.  tracer.Fatal calls os.Exit: the model        *)
(* records it in "exited" and stops.                                       *)
(*                                                                         *)
(* Data is abstracted: a command is identified by the number of the PDU    *)
(* that carried it, a data buffer by the command that filled it, register  *)
(* values are kept as integers (the 64-bit capability register by its low *)
(* dword).                                                                 *)
(***************************************************************************)
EXTENDS Naturals, Sequences, FiniteSets, Bitwise

CONSTANTS
  NumSlots,        \* len(c.Queue) = cap(c.waiting) = NVMECtrlAttrMaxQueueSize
  NumBuffers,      \* count of buffers.New in Serve
  MaxPdus,         \* number of PDUs the host sends on this connection
  HostPdus,        \* the PDUs (capsules abstracted to records) the host may send
  BackendResults,  \* TargetError values the backend may complete a request with
  MidPduClose      \* may a read fail between a PDU header and its body?

ASSUME /\ NumSlots \in Nat \ {0}
       /\ NumBuffers \in Nat \ {0}
       /\ MaxPdus \in Nat
       /\ \A h \in HostPdus : "op" \in DOMAIN h /\ "data" \in DOMAIN h
       /\ BackendResults \subseteq
            {"None", "LbaOutOfRange", "Write", "Read", "Unsupported", "Aborted"}
       /\ MidPduClose \in BOOLEAN

Slots == 1..NumSlots
NoSlot == 0
NoPdu == [op |-> "None", data |-> FALSE]

\* Fixed values of the code.
MaxSGL == 16                 \* nvme_response.go MaxSGL
AutoCntlid == 65535          \* CNTLID 0xFFFF: "assign one"
AssignedCntlid == 7          \* the hard-coded controller ID
NoSqhd == 65535              \* SQHD reported when flow control is disabled
NqnOffsetHint == 65792       \* uint64(256) | 0x10000
VersionReg == 66304          \* 1<<16 | 3<<8 | 0
CapsLow == 251658303         \* low dword of 15<<24 | (NVMECtrlAttrMaxQueueSize-1)
KatoValue == 60000           \* GetFeatures keep-alive timer

Uint16(x) == x % 65536

FabricOps == {"Connect", "PropGet", "PropSet", "AuthRecv", "Disconnect", "FabricOther"}
AdminOps == {"Identify", "SetFeatures", "GetLogPage", "GetFeatures", "AER",
             "KeepAlive", "SecurityRecv"}
IOOps == {"Flush", "Read", "Write", "WriteZeros", "DSM"}

VARIABLES
  recvPc,        \* receive loop: "dequeue","ic","term","slot","recv","drain","done"
  hdr,           \* the PDU whose header the receive loop has read
  sent,          \* PDUs the host has sent so far; the current one is command `sent`
  cur,           \* slot held by the receive loop
  drained,       \* slots the Serve defer has taken back from waiting
  waiting,       \* c.waiting: FIFO of free slots
  completions,   \* c.completions: FIFO of slots whose response is ready
  complClosed,   \* close(c.completions) has happened
  backend,       \* slots queued to the storage backend, not completed yet
  req,           \* per-slot NVMERequest/NVMEResponse state
  freeBuffers,   \* buffers left in c.bufferManager
  chPc,          \* CompletionHandler: "take", "data", "exited"
  chCur,         \* slot the CompletionHandler is answering
  chIdx,         \* next scatter-list entry ProcessResponse sends
  conn,          \* TCP connection: "open" or "closed"
  exited,        \* the process ended in tracer.Fatal
  QueueID, QueueSize, SQHD, REGCtrlStatus, REGCtrlConfig, ControllerID,
  FlowControlDisabled, Subsystem, AEC, NumQueues,
  wire           \* PDUs the controller has written to the host, in order

ctrlRegs == <<QueueID, QueueSize, SQHD, REGCtrlStatus, REGCtrlConfig,
              ControllerID, FlowControlDisabled, Subsystem, AEC, NumQueues>>
recvVars == <<recvPc, hdr, sent, cur, drained>>
chVars == <<chPc, chCur, chIdx>>
vars == <<recvVars, chVars, waiting, completions, complClosed, backend, req,
          freeBuffers, conn, exited, ctrlRegs, wire>>

-----------------------------------------------------------------------------
(* Helpers translated from the code.                                       *)

\* PDU written to the host.  Every record has every field.
Pdu(type, cmd, data, last, status, sqhd, val) ==
  [type |-> type, cmd |-> cmd, data |-> data, last |-> last,
   status |-> status, sqhd |-> sqhd, val |-> val]

\* The outcomes of a write: on a closed connection it either fails or is
\* accepted by the socket and never reaches the host.
WriteResults == IF conn = "open" THEN {"sent"} ELSE {"lost", "failed"}

Transmit(pdu, r) == wire' = IF r = "sent" THEN Append(wire, pdu) ELSE wire

\* Mutant: the head is advanced without wrapping.
NextSqhdNoWrap == Uint16(SQHD + 1)

\* HandleCapsule: advance the submission queue head.
NextSqhd == IF Uint16(SQHD + 1) > QueueSize THEN 0 ELSE Uint16(SQHD + 1)

\* Buffers taken for the in-capsule payload.
PayloadBuffers(h) == IF h.data THEN 1 ELSE 0

\* The slot after Receive, ReceiveData and the response initialisation of
\* HandleCapsule.
Received(s) ==
  [req[s] EXCEPT !.cmd = sent, !.op = hdr.op, !.payload = hdr.data,
                 !.status = "SCSuccess", !.sqhd = SQHD]

\* Mutants: Reset forgets to clear the scatter count, or the NoReply flag.
ResetKeepsSgl(r) == [r EXCEPT !.noReply = FALSE]
ResetKeepsNoReply(r) == [r EXCEPT !.sgl = <<>>]

\* NVMEResponse.Reset
Reset(r) == [r EXCEPT !.sgl = <<>>, !.noReply = FALSE]

\* Mutant: the payload buffer is dropped without bufferManager.Put.
RecycleNoPut(s) ==
  /\ freeBuffers' = freeBuffers
  /\ req' = [req EXCEPT ![s] = Reset([@ EXCEPT !.payload = FALSE])]
  /\ waiting' = Append(waiting, s)

\* CompletionHandler, after ProcessResponse (on its error path too): release
\* the buffer, reset the response, requeue the slot.
Recycle(s) ==
  /\ freeBuffers' = freeBuffers + (IF req[s].payload THEN 1 ELSE 0)
  /\ req' = [req EXCEPT ![s] = Reset([@ EXCEPT !.payload = FALSE])]
  /\ waiting' = Append(waiting, s)

\* NVMERequest.Complete: map a TargetError to a response status.
CompletionStatus(e, old) ==
  CASE e = "None"          -> old
    [] e = "LbaOutOfRange" -> "SCLBAOutOfRange"
    [] e = "Write"         -> "SCMediaWriteFault"
    [] e = "Read"          -> "SCMediaUncorrectableReadError"
    [] e = "Unsupported"   -> "SCInvalidCommandOpcode"
    [] OTHER               -> "SCInternalError"

\* handleFabricCommand, Connect: the queue size check that calls tracer.Fatal.
ConnectFatal(h) == h.nqn = "target" /\ Uint16(h.qsize + 1) > NumSlots

\* handleFabricCommand: PropertyGet/PropertySet of an unknown register and an
\* unknown fabric command call tracer.Fatal.
FabricFatal(h) ==
  \/ h.op = "PropGet" /\ h.prop \notin {"CAP", "VS", "CSTS", "CC", "NSSR"}
  \/ h.op = "PropSet" /\ h.prop # "CC"
  \/ h.op = "FabricOther"

\* handleAdminCapsule, GetLogPage: a Subsystem error calls tracer.Fatal.
LogPageFatal(h) ==
  h.op = "GetLogPage" /\ (Subsystem # "target" \/ h.page = "unsupported")

AdminQueueFatal(h) ==
  \/ h.op = "Connect" /\ ConnectFatal(h)
  \/ FabricFatal(h)
  \/ LogPageFatal(h)

\* handleIOCapsule: unknown opcode, a write whose data is not in the capsule
\* (R2T), and a QueueIO that returns an error (the Subsystem is not a
\* target) all call tracer.Fatal.
IOQueueFatal(h) ==
  \/ h.op \notin IOOps
  \/ h.op = "Write" /\ ~h.data
  \/ h.op \in IOOps \ {"DSM"} /\ Subsystem # "target"

\* handleFabricCommand, PropertyGet: the register value serialised into
\* FabricResponse.
PropertyValue(p) ==
  CASE p = "CAP"  -> CapsLow
    [] p = "VS"   -> VersionReg
    [] p = "CSTS" -> REGCtrlStatus
    [] p = "CC"   -> REGCtrlConfig
    [] p = "NSSR" -> 0

\* handleAdminCapsule/handleFabricCommand for the commands that change no
\* controller register: the status, whether data follows, whether a reply is
\* sent and the FabricResponse value.
AdminStatus(h) ==
  CASE h.op = "Identify" /\ (Subsystem # "target" \/ h.cns = "unsupported")
                                        -> "CapsuleCmdInvalid"
    [] h.op = "GetFeatures" /\ h.fid \notin {"KATO", "AEC"}
                                        -> "SCInternalError"
    [] h.op = "SecurityRecv"            -> "CapsuleCmdInvalid"
    [] h.op \notin FabricOps \cup AdminOps -> "SCInternalError"
    [] OTHER                            -> "SCSuccess"

AdminHasData(h) ==
  \/ h.op = "Identify" /\ AdminStatus(h) = "SCSuccess"
  \/ h.op = "GetLogPage"

AdminValue(h, old) ==
  CASE h.op = "PropGet"                      -> PropertyValue(h.prop)
    [] h.op = "GetFeatures" /\ h.fid = "KATO" -> KatoValue
    [] h.op = "GetFeatures" /\ h.fid = "AEC"  -> AEC
    [] OTHER                                 -> old

\* handleFabricCommand, PropertySet of the configuration register.
StatusAfterConfig(v) ==
  IF (v & 49152) # 0
  THEN LET s8 == REGCtrlStatus | 8 IN s8 - (s8 % 2)    \* shutdown, clear ready
  ELSE IF REGCtrlStatus = 0 /\ (v & 1) = 1 THEN 1 ELSE REGCtrlStatus

-----------------------------------------------------------------------------
(* Initial state: startController and the start of Serve.                  *)

Init ==
  /\ recvPc = "dequeue"
  /\ hdr = NoPdu
  /\ sent = 0
  /\ cur = NoSlot
  /\ drained = 0
  /\ waiting = [i \in 1..NumSlots |-> i]
  /\ completions = <<>>
  /\ complClosed = FALSE
  /\ backend = {}
  /\ req = [s \in Slots |-> [cmd |-> 0, op |-> "None", payload |-> FALSE,
                             sgl |-> <<>>, noReply |-> FALSE,
                             status |-> "SCSuccess", sqhd |-> 0, fr |-> 0]]
  /\ freeBuffers = NumBuffers
  /\ chPc = "take"
  /\ chCur = NoSlot
  /\ chIdx = 0
  /\ conn = "open"
  /\ exited = FALSE
  /\ QueueID = 0
  /\ QueueSize = NumSlots
  /\ SQHD = 0
  /\ REGCtrlStatus = 0
  /\ REGCtrlConfig = 0
  /\ ControllerID = 0
  /\ FlowControlDisabled = FALSE
  /\ Subsystem = "init"
  /\ AEC = 0
  /\ NumQueues = 0
  /\ wire = <<>>

-----------------------------------------------------------------------------
(* The host.                                                               *)

\* The host sends a PDU and the receive loop's Dequeue reads its header.
RecvHeader ==
  /\ ~exited
  /\ recvPc = "dequeue"
  /\ conn = "open"
  /\ sent < MaxPdus
  /\ \E h \in HostPdus :
       /\ hdr' = h
       /\ recvPc' = CASE h.op = "ICReq"      -> "ic"
                      [] h.op = "H2CTermReq" -> "term"
                      [] OTHER               -> "slot"
  /\ sent' = sent + 1
  /\ UNCHANGED <<cur, drained, chVars, waiting, completions, complClosed,
                 backend, req, freeBuffers, conn, exited, ctrlRegs, wire>>

\* The host disconnects (or Controller.Close closes the socket).
CloseConn ==
  /\ ~exited
  /\ conn = "open"
  /\ conn' = "closed"
  /\ UNCHANGED <<recvVars, chVars, waiting, completions, complClosed, backend,
                 req, freeBuffers, exited, ctrlRegs, wire>>

-----------------------------------------------------------------------------
(* The receive loop: Serve and HandleCapsule.                              *)

\* Mutant: the loop retries Dequeue on EOF instead of breaking out.
RecvEOFNoBreak ==
  /\ ~exited
  /\ recvPc = "dequeue"
  /\ conn = "closed"
  /\ UNCHANGED vars

\* Dequeue fails with EOF: leave the loop for the deferred drain.
RecvEOF ==
  /\ ~exited
  /\ recvPc = "dequeue"
  /\ conn = "closed"
  /\ recvPc' = "drain"
  /\ UNCHANGED <<hdr, sent, cur, drained, chVars, waiting, completions,
                 complClosed, backend, req, freeBuffers, conn, exited,
                 ctrlRegs, wire>>

\* ICReq: receive it, send ICResp; a failed write returns from Serve.
HandleICReq ==
  /\ ~exited
  /\ recvPc = "ic"
  /\ \E r \in WriteResults :
       /\ Transmit(Pdu("ICResp", 0, 0, FALSE, "SCSuccess", 0, 0), r)
       /\ recvPc' = IF r = "failed" THEN "drain" ELSE "dequeue"
  /\ UNCHANGED <<hdr, sent, cur, drained, chVars, waiting, completions,
                 complClosed, backend, req, freeBuffers, conn, exited, ctrlRegs>>

\* H2CTermReq: Serve returns an error whether or not the body is read.
HandleTermReq ==
  /\ ~exited
  /\ recvPc = "term"
  /\ recvPc' = "drain"
  /\ UNCHANGED <<hdr, sent, cur, drained, chVars, waiting, completions,
                 complClosed, backend, req, freeBuffers, conn, exited,
                 ctrlRegs, wire>>

\* HandleCapsule: block on c.waiting for a free slot, advance SQHD.
TakeSlot ==
  /\ ~exited
  /\ recvPc = "slot"
  /\ waiting # <<>>
  /\ cur' = Head(waiting)
  /\ waiting' = Tail(waiting)
  /\ SQHD' = NextSqhd
  /\ recvPc' = "recv"
  /\ UNCHANGED <<hdr, sent, drained, chVars, completions, complClosed, backend,
                 req, freeBuffers, conn, exited, wire, QueueID, QueueSize,
                 REGCtrlStatus, REGCtrlConfig, ControllerID,
                 FlowControlDisabled, Subsystem, AEC, NumQueues>>

\* HandleCapsule: c.in.Receive of the capsule fails; Serve returns and the
\* slot taken from c.waiting is never given back.
RecvFail ==
  /\ ~exited
  /\ recvPc = "recv"
  /\ MidPduClose
  /\ conn = "closed"
  /\ recvPc' = "drain"
  /\ cur' = NoSlot
  /\ UNCHANGED <<hdr, sent, drained, chVars, waiting, completions, complClosed,
                 backend, req, freeBuffers, conn, exited, ctrlRegs, wire>>

\* The capsule and its payload are read; take the buffers this dispatch needs.
CanDispatch(extra) ==
  /\ ~exited
  /\ recvPc = "recv"
  /\ PayloadBuffers(hdr) + extra <= freeBuffers

\* The end of HandleCapsule: back to Dequeue.
Dispatched(extra) ==
  /\ freeBuffers' = freeBuffers - PayloadBuffers(hdr) - extra
  /\ recvPc' = "dequeue"
  /\ cur' = NoSlot

\* Any dispatch that reaches tracer.Fatal.
DispatchFatal ==
  /\ CanDispatch(0)
  /\ IF QueueID = 0 THEN AdminQueueFatal(hdr) ELSE IOQueueFatal(hdr)
  /\ exited' = TRUE
  /\ UNCHANGED <<recvVars, chVars, waiting, completions, complClosed, backend,
                 req, freeBuffers, conn, ctrlRegs, wire>>

\* Admin queue, fabric Connect to a subsystem the server does not have.
DispatchConnectUnknown ==
  /\ CanDispatch(0)
  /\ QueueID = 0
  /\ hdr.op = "Connect"
  /\ hdr.nqn = "unknown"
  /\ QueueID' = hdr.qid
  /\ req' = [req EXCEPT ![cur] = [Received(cur) EXCEPT
                                    !.status = "SCNamespaceNotReady",
                                    !.fr = NqnOffsetHint]]
  /\ completions' = Append(completions, cur)
  /\ Dispatched(0)
  /\ UNCHANGED <<hdr, sent, drained, chVars, waiting, complClosed, backend,
                 conn, exited, QueueSize, SQHD, REGCtrlStatus, REGCtrlConfig,
                 ControllerID, FlowControlDisabled, Subsystem, AEC, NumQueues,
                 wire>>

\* Admin queue, fabric Connect to the target subsystem.
DispatchConnect ==
  /\ CanDispatch(0)
  /\ QueueID = 0
  /\ hdr.op = "Connect"
  /\ hdr.nqn = "target"
  /\ ~ConnectFatal(hdr)
  /\ QueueID' = hdr.qid
  /\ Subsystem' = "target"
  /\ QueueSize' = Uint16(hdr.qsize + 1)
  /\ LET assign == hdr.cntlid = AutoCntlid /\ ControllerID = 0
     IN /\ ControllerID' = CASE assign                 -> AssignedCntlid
                             [] hdr.cntlid = AutoCntlid -> ControllerID
                             [] OTHER                  -> hdr.cntlid
        /\ req' = [req EXCEPT ![cur] =
                     [Received(cur) EXCEPT
                        !.fr = IF assign THEN AssignedCntlid ELSE @]]
  /\ FlowControlDisabled' = (FlowControlDisabled \/ hdr.sqflowOff)
  /\ completions' = Append(completions, cur)
  /\ Dispatched(0)
  /\ UNCHANGED <<hdr, sent, drained, chVars, waiting, complClosed, backend,
                 conn, exited, SQHD, REGCtrlStatus, REGCtrlConfig, AEC,
                 NumQueues, wire>>

\* Admin queue, fabric PropertySet of the configuration register.
DispatchPropertySet ==
  /\ CanDispatch(0)
  /\ QueueID = 0
  /\ hdr.op = "PropSet"
  /\ hdr.prop = "CC"
  /\ REGCtrlConfig' = hdr.val
  /\ REGCtrlStatus' = StatusAfterConfig(hdr.val)
  /\ req' = [req EXCEPT ![cur] = Received(cur)]
  /\ completions' = Append(completions, cur)
  /\ Dispatched(0)
  /\ UNCHANGED <<hdr, sent, drained, chVars, waiting, complClosed, backend,
                 conn, exited, QueueID, QueueSize, SQHD, ControllerID,
                 FlowControlDisabled, Subsystem, AEC, NumQueues, wire>>

\* Admin queue, SetFeatures.
DispatchSetFeatures ==
  /\ CanDispatch(0)
  /\ QueueID = 0
  /\ hdr.op = "SetFeatures"
  /\ NumQueues' = IF hdr.fid = "NumQueues" THEN hdr.val ELSE NumQueues
  /\ AEC' = IF hdr.fid = "AEC" THEN hdr.val ELSE AEC
  /\ req' = [req EXCEPT ![cur] =
               [Received(cur) EXCEPT
                  !.fr = IF hdr.fid \in {"NumQueues", "AEC"} THEN hdr.val ELSE @,
                  !.status = IF hdr.fid \in {"NumQueues", "AEC", "Reset"}
                             THEN @ ELSE "SCCmdFeatureNotChangeable"]]
  /\ completions' = Append(completions, cur)
  /\ Dispatched(0)
  /\ UNCHANGED <<hdr, sent, drained, chVars, waiting, complClosed, backend,
                 conn, exited, QueueID, QueueSize, SQHD, REGCtrlStatus,
                 REGCtrlConfig, ControllerID, FlowControlDisabled, Subsystem,
                 wire>>

\* Admin queue, every other command: handleAdminCapsule changes only the
\* response, then HandleCapsule completes the request.
DispatchAdmin ==
  /\ CanDispatch(0)
  /\ QueueID = 0
  /\ hdr.op \notin {"Connect", "PropSet", "SetFeatures"}
  /\ ~AdminQueueFatal(hdr)
  /\ req' = [req EXCEPT ![cur] =
               [Received(cur) EXCEPT
                  !.status = AdminStatus(hdr),
                  !.sgl = IF AdminHasData(hdr) THEN Append(@, sent) ELSE @,
                  !.noReply = (hdr.op = "AER"),
                  !.fr = AdminValue(hdr, @)]]
  /\ completions' = Append(completions, cur)
  /\ Dispatched(0)
  /\ UNCHANGED <<hdr, sent, drained, chVars, waiting, complClosed, backend,
                 conn, exited, ctrlRegs, wire>>

\* IO queue, Flush/Read/Write/WriteZeros: build the IORequest and QueueIO it.
\* A read takes a second buffer and replaces r.payload with it.
DispatchQueueIO ==
  LET isRead == hdr.op = "Read"
      extra == IF isRead THEN 1 ELSE 0
  IN /\ CanDispatch(extra)
     /\ QueueID # 0
     /\ hdr.op \in {"Flush", "Read", "Write", "WriteZeros"}
     /\ ~IOQueueFatal(hdr)
     /\ req' = [req EXCEPT ![cur] =
                  [Received(cur) EXCEPT
                     !.payload = @ \/ isRead,
                     !.sgl = IF isRead THEN Append(@, sent) ELSE @]]
     /\ backend' = backend \cup {cur}
     /\ Dispatched(extra)
     /\ UNCHANGED <<hdr, sent, drained, chVars, waiting, completions,
                    complClosed, conn, exited, ctrlRegs, wire>>

\* IO queue, DatasetManagement: completed at once as a no-op.
DispatchDSM ==
  /\ CanDispatch(0)
  /\ QueueID # 0
  /\ hdr.op = "DSM"
  /\ req' = [req EXCEPT ![cur] = Received(cur)]
  /\ completions' = Append(completions, cur)
  /\ Dispatched(0)
  /\ UNCHANGED <<hdr, sent, drained, chVars, waiting, complClosed, backend,
                 conn, exited, ctrlRegs, wire>>

\* The deferred drain of Serve: take every slot back from c.waiting, then
\* close c.completions; startController then closes the connection.
DrainOne ==
  /\ ~exited
  /\ recvPc = "drain"
  /\ waiting # <<>>
  /\ waiting' = Tail(waiting)
  /\ drained' = drained + 1
  /\ IF drained + 1 = NumSlots
     THEN /\ complClosed' = TRUE
          /\ recvPc' = "done"
          /\ conn' = "closed"
     ELSE UNCHANGED <<complClosed, recvPc, conn>>
  /\ UNCHANGED <<hdr, sent, cur, chVars, completions, backend, req,
                 freeBuffers, exited, ctrlRegs, wire>>

-----------------------------------------------------------------------------
(* The storage backend.                                                    *)

\* Target.Queue eventually calls r.Complete(e) for a queued request.
BackendComplete(s, e) ==
  /\ ~exited
  /\ s \in backend
  /\ backend' = backend \ {s}
  /\ req' = [req EXCEPT ![s].status = CompletionStatus(e, @)]
  /\ completions' = Append(completions, s)
  /\ UNCHANGED <<recvVars, chVars, waiting, complClosed, freeBuffers, conn,
                 exited, ctrlRegs, wire>>

-----------------------------------------------------------------------------
(* The CompletionHandler and ProcessResponse.                              *)

TakeCompletion ==
  /\ ~exited
  /\ chPc = "take"
  /\ completions # <<>>
  /\ chCur' = Head(completions)
  /\ completions' = Tail(completions)
  /\ chIdx' = 0
  /\ chPc' = "data"
  /\ UNCHANGED <<recvVars, waiting, complClosed, backend, req, freeBuffers,
                 conn, exited, ctrlRegs, wire>>

\* One C2HData PDU per scatter-list entry.  The last-transfer flag is set
\* when idx+1 = len(sgl), the length of the fixed array.
SendData ==
  /\ ~exited
  /\ chPc = "data"
  /\ chIdx < Len(req[chCur].sgl)
  /\ \E r \in WriteResults \ {"failed"} :
       Transmit(Pdu("C2HData", req[chCur].cmd, req[chCur].sgl[chIdx + 1],
                    chIdx + 1 = MaxSGL, "SCSuccess", 0, 0), r)
  /\ chIdx' = chIdx + 1
  /\ UNCHANGED <<recvVars, chPc, chCur, waiting, completions, complClosed,
                 backend, req, freeBuffers, conn, exited, ctrlRegs>>

\* A failed C2HData write calls tracer.Fatal.
SendDataFails ==
  /\ ~exited
  /\ chPc = "data"
  /\ chIdx < Len(req[chCur].sgl)
  /\ "failed" \in WriteResults
  /\ exited' = TRUE
  /\ UNCHANGED <<recvVars, chVars, waiting, completions, complClosed, backend,
                 req, freeBuffers, conn, ctrlRegs, wire>>

\* The capsule response (none for a NoReply request); whether or not the
\* write fails, the CompletionHandler then recycles the slot the same way.
RespPdu(s) ==
  Pdu("CapsuleResp", req[s].cmd, 0, FALSE, req[s].status,
      IF FlowControlDisabled THEN NoSqhd ELSE req[s].sqhd, req[s].fr)

SendResponse ==
  /\ ~exited
  /\ chPc = "data"
  /\ chIdx = Len(req[chCur].sgl)
  /\ \E r \in WriteResults :
       Transmit(RespPdu(chCur), IF req[chCur].noReply THEN "lost" ELSE r)
  /\ Recycle(chCur)
  /\ chPc' = "take"
  /\ chCur' = NoSlot
  /\ chIdx' = 0
  /\ UNCHANGED <<recvVars, completions, complClosed, backend, conn, exited,
                 ctrlRegs>>

\* The range loop ends when c.completions is closed; the goroutine then
\* closes the connection.
HandlerExit ==
  /\ ~exited
  /\ chPc = "take"
  /\ completions = <<>>
  /\ complClosed
  /\ chPc' = "exited"
  /\ conn' = "closed"
  /\ UNCHANGED <<recvVars, chCur, chIdx, waiting, completions, complClosed,
                 backend, req, freeBuffers, exited, ctrlRegs, wire>>

-----------------------------------------------------------------------------
(* The specification.                                                      *)

Stopped == recvPc = "done" /\ chPc = "exited"

\* Both goroutines have returned, or the process has exited.
Terminated ==
  /\ Stopped \/ exited
  /\ UNCHANGED vars

Dispatch ==
  \/ DispatchFatal
  \/ DispatchConnectUnknown
  \/ DispatchConnect
  \/ DispatchPropertySet
  \/ DispatchSetFeatures
  \/ DispatchAdmin
  \/ DispatchQueueIO
  \/ DispatchDSM

ReceiveLoop ==
  \/ RecvEOF \/ HandleICReq \/ HandleTermReq \/ TakeSlot \/ RecvFail
  \/ Dispatch \/ DrainOne

CompletionLoop ==
  \/ TakeCompletion \/ SendData \/ SendDataFails \/ SendResponse
  \/ HandlerExit

Backend(s) == \E e \in BackendResults : BackendComplete(s, e)

Next ==
  \/ RecvHeader
  \/ CloseConn
  \/ ReceiveLoop
  \/ CompletionLoop
  \/ \E s \in Slots : Backend(s)
  \/ Terminated

\* Each goroutine is scheduled whenever it can run; the backend completes
\* every request it was given (every Target completes through r.Complete).
Fairness ==
  /\ WF_vars(ReceiveLoop)
  /\ WF_vars(CompletionLoop)
  /\ \A s \in Slots : WF_vars(Backend(s))

Spec == Init /\ [][Next]_vars /\ Fairness

-----------------------------------------------------------------------------
(* Properties.                                                             *)

InWaiting(s) == \E i \in DOMAIN waiting : waiting[i] = s

Statuses == {"SCSuccess", "SCNamespaceNotReady", "SCCmdFeatureNotChangeable",
             "CapsuleCmdInvalid", "SCInternalError", "SCLBAOutOfRange",
             "SCMediaWriteFault", "SCMediaUncorrectableReadError",
             "SCInvalidCommandOpcode"}

\* Every variable keeps its type; SQHD stays within the preallocated queue.
TypeOK ==
  /\ recvPc \in {"dequeue", "ic", "term", "slot", "recv", "drain", "done"}
  /\ sent \in 0..MaxPdus
  /\ cur \in Slots \cup {NoSlot}
  /\ drained \in 0..NumSlots
  /\ waiting \in Seq(Slots) /\ Len(waiting) <= NumSlots
  /\ completions \in Seq(Slots) /\ Len(completions) <= NumSlots
  /\ complClosed \in BOOLEAN
  /\ backend \subseteq Slots
  /\ \A s \in Slots :
       /\ req[s].cmd \in 0..MaxPdus
       /\ req[s].payload \in BOOLEAN
       /\ req[s].sgl \in Seq(1..MaxPdus) /\ Len(req[s].sgl) <= MaxSGL
       /\ req[s].noReply \in BOOLEAN
       /\ req[s].status \in Statuses
  /\ freeBuffers \in 0..NumBuffers
  /\ chPc \in {"take", "data", "exited"}
  /\ chCur \in Slots \cup {NoSlot}
  /\ conn \in {"open", "closed"}
  /\ exited \in BOOLEAN
  /\ SQHD \in 0..NumSlots
  /\ QueueSize \in 0..NumSlots
  /\ FlowControlDisabled \in BOOLEAN

\* The CompletionHandler answers each command with its own data: every
\* C2HData PDU carries the buffer filled for the command it names, and
\* nothing is written for a command after its CapsuleResp.  Broken if a
\* recycled slot keeps the scatter list or CID of its previous command.
ResponseIntegrity ==
  \A i \in DOMAIN wire :
    /\ wire[i].type = "C2HData" => wire[i].data = wire[i].cmd
    /\ wire[i].type = "CapsuleResp" =>
         \A j \in i + 1..Len(wire) : wire[j].cmd # wire[i].cmd

\* Buffer pool contract: every buffer taken by bufferManager.Get is held by
\* exactly one request slot as its payload until the CompletionHandler puts
\* it back; none is lost or returned twice.
PoolConservation ==
  freeBuffers + Cardinality({s \in Slots : req[s].payload}) = NumBuffers

\* A command dispatched to a slot that is still in flight.
Pending(n) ==
  \E s \in Slots : /\ req[s].cmd = n
                   /\ req[s].op # "AER"
                   /\ ~InWaiting(s)
                   /\ s # cur

Answered(n) ==
  \E i \in DOMAIN wire : wire[i].type = "CapsuleResp" /\ wire[i].cmd = n

\* While the connection stays up, every dispatched command other than an
\* Asynchronous Event Request is eventually answered with a CapsuleResp
\* (HandleCapsule -> Complete -> CompletionHandler -> ProcessResponse).
EveryCommandAnswered ==
  \A n \in 1..MaxPdus : Pending(n) ~> (Answered(n) \/ conn = "closed" \/ exited)

\* Drain on close: once the connection is closed, the Serve defer gets every
\* slot back, closes c.completions, and both goroutines return.
CloseDrains == conn = "closed" ~> (Stopped \/ exited)

\* A transport or command failure ends at most the connection: the process
\* never reaches tracer.Fatal (os.Exit).
NoProcessExit == ~exited

=============================================================================
