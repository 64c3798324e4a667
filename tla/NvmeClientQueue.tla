--------------------------- MODULE NvmeClientQueue --------------------------
(***************************************************************************)
(* The host side of one go-nvme connection: a client Queue used through an *)
(* IOQueue (src/client/queue.go, src/client/queue_io.go).                  *)
(*                                                                         *)
(* Goroutines:                                                             *)
(*  - callers: each IOQueue operation takes a descriptor from the pool     *)
(*    q.ready, queues it on requestQueue, waits on its unbuffered "ready"  *)
(*    channel, puts the descriptor back and reads its status;              *)
(*  - the transmitter assigns a CID under the lock, records the request in *)
(*    the CID map and flushes the capsule;                                 *)
(*  - the receiver looks responses up by CID and signals the caller; when  *)
(*    the connection ends it signals every request left in the map;        *)
(*  - the monitor, once both have returned, clears the map.                *)
(* The target answers each capsule it received once, in any order, and the *)
(* connection may be closed by the peer or by Queue.Close.                 *)
(*                                                                         *)
(* Done is a send on an unbuffered channel: it is a rendezvous with the     *)
(* caller that is waiting on that descriptor, and blocks until there is one.*)
(***************************************************************************)
EXTENDS Naturals, Sequences, FiniteSets

CONSTANTS
  Callers,         \* goroutines calling IOQueue operations
  NumDescs,        \* descriptors in q.ready (128 in OpenIOQueue)
  ReqQueueCap,     \* capacity of requestQueue (32 in openQueue)
  MaxOps,          \* operations each caller performs
  TargetStatuses,  \* statuses the target may answer with
  PeerMayClose,    \* may the target or network drop the connection?
  CloseWhileBusy   \* may the owner call Close while operations are in flight?

ASSUME /\ NumDescs \in Nat \ {0}
       /\ ReqQueueCap \in Nat \ {0}
       /\ MaxOps \in Nat
       /\ "SCSuccess" \in TargetStatuses
       /\ PeerMayClose \in BOOLEAN
       /\ CloseWhileBusy \in BOOLEAN

Descs == 1..NumDescs
CidSpace == 65536            \* c.cid is a uint16
NoCid == CidSpace            \* no CID: a Done that carries no response
NoDesc == 0
SCSuccess == "SCSuccess"

VARIABLES
  callerPc,     \* "idle", "acquire", "queue", "wait", "release", "return"
  callerDesc,   \* descriptor the caller holds
  callerOps,    \* operations the caller has started
  mine,         \* ghost: CID the transmitter gave the caller's current request
  woken,        \* ghost: [cid, status] of the Done that woke the caller
  result,       \* status the caller's last operation returned
  pool,         \* q.ready: free descriptors
  status,       \* per descriptor: CapsuleRequest.Response status
  requestQueue, \* c.requestQueue: descriptors waiting for the transmitter
  rqClosed,     \* close(c.requestQueue) has happened
  cid,          \* c.cid: next CID
  requests,     \* c.requests: set of <<CID, descriptor>>
  lock,         \* holder of c.lock while it is held across a block: "free"/"recv"
  txPc, txDesc, txCid,
  rxPc, rxDesc, rxCid, rxStatus,
  monPc,
  conn,         \* "open", "peerClosed" (writes may still succeed), "closed"
  toTarget,     \* CIDs of capsules the target received and has not answered
  toHost,       \* PDUs on their way to the receiver, in order
  crashed       \* "none", or "panic" after a send on a closed channel

callerVars == <<callerPc, callerDesc, callerOps, mine, woken, result>>
txVars == <<txPc, txDesc, txCid>>
rxVars == <<rxPc, rxDesc, rxCid, rxStatus>>
netVars == <<conn, toTarget, toHost>>
vars == <<callerVars, pool, status, requestQueue, rqClosed, cid, requests,
          lock, txVars, rxVars, monPc, netVars, crashed>>

-----------------------------------------------------------------------------
(* Helpers translated from the code.                                       *)

\* The caller blocked in req.Wait() on descriptor d, if any.
Waiters(d) == {c \in Callers : callerPc[c] = "wait" /\ callerDesc[c] = d}

\* CapsuleRequest.Done: hand (k, st) to the caller waiting on d.  k is the
\* CID of the response that completes it, NoCid when no response arrived.
Done(d, k, st) ==
  \E c \in Waiters(d) :
    /\ callerPc' = [callerPc EXCEPT ![c] = "release"]
    /\ woken' = [woken EXCEPT ![c] = [cid |-> k, status |-> st]]

\* Map lookup: the descriptor recorded for CID k.
Lookup(k) == {e[2] : e \in {x \in requests : x[1] = k}}

\* delete(c.requests, k)
Delete(k) == {e \in requests : e[1] # k}

\* CapsuleRequest.SetStatus has a value receiver: it changes a copy.
SetStatus(d, st) == status' = status

\* Mutant: c.cid is incremented before the capsule's CID is set.
RegisterSkew(d) ==
  /\ requests' = Delete(cid) \cup {<<cid, d>>}
  /\ txCid' = (cid + 1) % CidSpace

\* transmitter: cmd.Request.SetCID(c.cid); c.requests[c.cid] = cmd
Register(d) ==
  /\ requests' = Delete(cid) \cup {<<cid, d>>}
  /\ txCid' = cid

\* The outcomes of Flush on the connection.
FlushResults ==
  CASE conn = "open"       -> {"ok"}
    [] conn = "peerClosed" -> {"ok", "fail"}
    [] OTHER               -> {"fail"}

-----------------------------------------------------------------------------

Init ==
  /\ callerPc = [c \in Callers |-> "idle"]
  /\ callerDesc = [c \in Callers |-> NoDesc]
  /\ callerOps = [c \in Callers |-> 0]
  /\ mine = [c \in Callers |-> NoCid]
  /\ woken = [c \in Callers |-> [cid |-> NoCid, status |-> SCSuccess]]
  /\ result = [c \in Callers |-> SCSuccess]
  /\ pool = Descs
  /\ status = [d \in Descs |-> SCSuccess]
  /\ requestQueue = <<>>
  /\ rqClosed = FALSE
  /\ cid = 0
  /\ requests = {}
  /\ lock = "free"
  /\ txPc = "take" /\ txDesc = NoDesc /\ txCid = NoCid
  /\ rxPc = "dequeue" /\ rxDesc = NoDesc /\ rxCid = NoCid
  /\ rxStatus = SCSuccess
  /\ monPc = "wait"
  /\ conn = "open"
  /\ toTarget = {}
  /\ toHost = <<>>
  /\ crashed = "none"

-----------------------------------------------------------------------------
(* Callers: IOQueue.Read/Write/WriteZero/Trim/Flush.                       *)

\* The application starts an operation; it starts none after Close.
StartCall(c) ==
  /\ crashed = "none"
  /\ callerPc[c] = "idle"
  /\ callerOps[c] < MaxOps
  /\ ~rqClosed
  /\ callerPc' = [callerPc EXCEPT ![c] = "acquire"]
  /\ callerOps' = [callerOps EXCEPT ![c] = @ + 1]
  /\ UNCHANGED <<callerDesc, mine, woken, result, pool, status, requestQueue,
                 rqClosed, cid, requests, lock, txVars, rxVars, monPc,
                 netVars, crashed>>

\* req := <-q.ready
Acquire(c) ==
  /\ crashed = "none"
  /\ callerPc[c] = "acquire"
  /\ \E d \in pool :
       /\ pool' = pool \ {d}
       /\ callerDesc' = [callerDesc EXCEPT ![c] = d]
  /\ callerPc' = [callerPc EXCEPT ![c] = "queue"]
  /\ UNCHANGED <<callerOps, mine, woken, result, status, requestQueue,
                 rqClosed, cid, requests, lock, txVars, rxVars, monPc,
                 netVars, crashed>>

\* Mutant: the capacity of requestQueue is not respected.
QueueCapsuleUnbounded(c) ==
  /\ crashed = "none"
  /\ callerPc[c] = "queue"
  /\ ~rqClosed
  /\ requestQueue' = Append(requestQueue, callerDesc[c])
  /\ callerPc' = [callerPc EXCEPT ![c] = "wait"]
  /\ mine' = [mine EXCEPT ![c] = NoCid]
  /\ UNCHANGED <<callerDesc, callerOps, woken, result, pool, status,
                 rqClosed, cid, requests, lock, txVars, rxVars, monPc,
                 netVars, crashed>>

\* q.QueueCapsule(req): c.requestQueue <- cap, blocking while it is full.
QueueCapsule(c) ==
  /\ crashed = "none"
  /\ callerPc[c] = "queue"
  /\ ~rqClosed
  /\ Len(requestQueue) < ReqQueueCap
  /\ requestQueue' = Append(requestQueue, callerDesc[c])
  /\ callerPc' = [callerPc EXCEPT ![c] = "wait"]
  /\ mine' = [mine EXCEPT ![c] = NoCid]
  /\ UNCHANGED <<callerDesc, callerOps, woken, result, pool, status,
                 rqClosed, cid, requests, lock, txVars, rxVars, monPc,
                 netVars, crashed>>

\* QueueCapsule after Queue.Close: a send on a closed channel panics.
QueueOnClosed(c) ==
  /\ crashed = "none"
  /\ callerPc[c] = "queue"
  /\ rqClosed
  /\ crashed' = "panic"
  /\ UNCHANGED <<callerVars, pool, status, requestQueue, rqClosed, cid,
                 requests, lock, txVars, rxVars, monPc, netVars>>

\* Mutant: the descriptor is not put back into the pool.
ReleaseNoPut(c) ==
  /\ crashed = "none"
  /\ callerPc[c] = "release"
  /\ callerPc' = [callerPc EXCEPT ![c] = "return"]
  /\ UNCHANGED <<callerDesc, callerOps, mine, woken, result, pool, status,
                 requestQueue, rqClosed, cid, requests, lock, txVars, rxVars,
                 monPc, netVars, crashed>>

\* req.Wait() has returned: q.ready <- req
Release(c) ==
  /\ crashed = "none"
  /\ callerPc[c] = "release"
  /\ pool' = pool \cup {callerDesc[c]}
  /\ callerPc' = [callerPc EXCEPT ![c] = "return"]
  /\ UNCHANGED <<callerDesc, callerOps, mine, woken, result, status,
                 requestQueue, rqClosed, cid, requests, lock, txVars, rxVars,
                 monPc, netVars, crashed>>

\* return req.GetStatus().AsError(), read after the descriptor went back.
Return(c) ==
  /\ crashed = "none"
  /\ callerPc[c] = "return"
  /\ result' = [result EXCEPT ![c] = status[callerDesc[c]]]
  /\ callerDesc' = [callerDesc EXCEPT ![c] = NoDesc]
  /\ callerPc' = [callerPc EXCEPT ![c] = "idle"]
  /\ UNCHANGED <<callerOps, mine, woken, pool, status, requestQueue,
                 rqClosed, cid, requests, lock, txVars, rxVars, monPc,
                 netVars, crashed>>

-----------------------------------------------------------------------------
(* The transmitter goroutine.                                              *)

\* for cmd := range c.requestQueue, then the CID assignment under c.lock.
TxTake ==
  /\ crashed = "none"
  /\ txPc = "take"
  /\ requestQueue # <<>>
  /\ lock = "free"
  /\ LET d == Head(requestQueue)
     IN /\ Register(d)
        /\ txDesc' = d
        /\ mine' = [c \in Callers |->
                      IF callerDesc[c] = d /\ callerPc[c] = "wait"
                      THEN cid ELSE mine[c]]
  /\ requestQueue' = Tail(requestQueue)
  /\ cid' = (cid + 1) % CidSpace
  /\ txPc' = "flush"
  /\ UNCHANGED <<callerPc, callerDesc, callerOps, woken, result, pool, status,
                 rqClosed, lock, rxVars, monPc, netVars, crashed>>

\* The range ends: requestQueue is closed and empty.
TxExit ==
  /\ crashed = "none"
  /\ txPc = "take"
  /\ requestQueue = <<>>
  /\ rqClosed
  /\ txPc' = "exit"
  /\ UNCHANGED <<callerVars, pool, status, requestQueue, rqClosed, cid,
                 requests, lock, txDesc, txCid, rxVars, monPc, netVars,
                 crashed>>

\* out.Flush() succeeds; the capsule reaches the target if it is still there.
TxFlush ==
  /\ crashed = "none"
  /\ txPc = "flush"
  /\ "ok" \in FlushResults
  /\ toTarget' = IF conn = "open" THEN toTarget \cup {txCid} ELSE toTarget
  /\ txPc' = "take"
  /\ UNCHANGED <<callerVars, pool, status, requestQueue, rqClosed, cid,
                 requests, lock, txDesc, txCid, rxVars, monPc, conn, toHost,
                 crashed>>

\* out.Flush() fails: delete(c.requests, c.cid) -- c.cid was already
\* incremented -- then cmd.SetStatus(SCInternalError) and cmd.Done().
TxFlushFail ==
  /\ crashed = "none"
  /\ txPc = "flush"
  /\ "fail" \in FlushResults
  /\ lock = "free"
  /\ requests' = Delete(cid)
  /\ SetStatus(txDesc, "SCInternalError")
  /\ txPc' = "done"
  /\ UNCHANGED <<callerVars, pool, requestQueue, rqClosed, cid, lock, txDesc,
                 txCid, rxVars, monPc, netVars, crashed>>

TxDone ==
  /\ crashed = "none"
  /\ txPc = "done"
  /\ Done(txDesc, NoCid, status[txDesc])
  /\ txPc' = "take"
  /\ UNCHANGED <<callerDesc, callerOps, mine, result, pool, status,
                 requestQueue, rqClosed, cid, requests, lock, txDesc, txCid,
                 rxVars, monPc, netVars, crashed>>

-----------------------------------------------------------------------------
(* The receiver goroutine.                                                 *)

Resp(k, st) == [type |-> "CapsuleResp", cid |-> k, status |-> st]
Data(k) == [type |-> "C2HData", cid |-> k, status |-> SCSuccess]

\* The receiver can read the next PDU: it is in the stream and the socket
\* is not closed locally (a read of a closed net.Conn fails at once).
CanRead == rxPc = "dequeue" /\ toHost # <<>> /\ conn # "closed"

\* CapsuleResp: look up and delete the request, r.Response = capResponse.
\* A CID missing from the map would be tracer.Fatal (NoUnknownCid).
RxResponse ==
  /\ crashed = "none"
  /\ CanRead
  /\ lock = "free"
  /\ LET m == Head(toHost)
     IN /\ m.type = "CapsuleResp"
        /\ \E d \in Lookup(m.cid) :
             /\ requests' = Delete(m.cid)
             /\ status' = [status EXCEPT ![d] = m.status]
             /\ rxDesc' = d
        /\ rxCid' = m.cid
        /\ rxStatus' = m.status
  /\ toHost' = Tail(toHost)
  /\ rxPc' = "done"
  /\ UNCHANGED <<callerVars, pool, requestQueue, rqClosed, cid, lock, txVars,
                 monPc, conn, toTarget, crashed>>

\* r.Done() for the response just received.
RxDone ==
  /\ crashed = "none"
  /\ rxPc = "done"
  /\ Done(rxDesc, rxCid, rxStatus)
  /\ rxPc' = "dequeue"
  /\ UNCHANGED <<callerDesc, callerOps, mine, result, pool, status,
                 requestQueue, rqClosed, cid, requests, lock, txVars, rxDesc,
                 rxCid, rxStatus, monPc, netVars, crashed>>

\* C2HData: look the request up without deleting it and copy the data.
RxData ==
  /\ crashed = "none"
  /\ CanRead
  /\ lock = "free"
  /\ Head(toHost).type = "C2HData"
  /\ Lookup(Head(toHost).cid) # {}
  /\ toHost' = Tail(toHost)
  /\ UNCHANGED <<callerVars, pool, status, requestQueue, rqClosed, cid,
                 requests, lock, txVars, rxVars, monPc, conn, toTarget,
                 crashed>>

\* Dequeue fails: EOF after the peer closed, or any read once the socket is
\* closed locally.  The deferred cleanup closes the connection.
RxEOF ==
  /\ crashed = "none"
  /\ rxPc = "dequeue"
  /\ \/ conn = "peerClosed" /\ toHost = <<>>
     \/ conn = "closed"
  /\ conn' = "closed"
  /\ rxPc' = "drainLock"
  /\ UNCHANGED <<callerVars, pool, status, requestQueue, rqClosed, cid,
                 requests, lock, txVars, rxDesc, rxCid, rxStatus, monPc,
                 toTarget, toHost, crashed>>

\* The deferred cleanup takes c.lock and keeps it while it signals every
\* request still in the map.
RxDrainLock ==
  /\ crashed = "none"
  /\ rxPc = "drainLock"
  /\ lock = "free"
  /\ lock' = "recv"
  /\ rxPc' = "drain"
  /\ UNCHANGED <<callerVars, pool, status, requestQueue, rqClosed, cid,
                 requests, txVars, rxDesc, rxCid, rxStatus, monPc, netVars,
                 crashed>>

RxDrainNext ==
  /\ crashed = "none"
  /\ rxPc = "drain"
  /\ \E e \in requests :
       /\ requests' = requests \ {e}
       /\ SetStatus(e[2], "SCInternalError")
       /\ rxDesc' = e[2]
  /\ rxPc' = "drainDone"
  /\ UNCHANGED <<callerVars, pool, requestQueue, rqClosed, cid, lock, txVars,
                 rxCid, rxStatus, monPc, netVars, crashed>>

RxDrainDone ==
  /\ crashed = "none"
  /\ rxPc = "drainDone"
  /\ Done(rxDesc, NoCid, status[rxDesc])
  /\ rxPc' = "drain"
  /\ UNCHANGED <<callerDesc, callerOps, mine, result, pool, status,
                 requestQueue, rqClosed, cid, requests, lock, txVars, rxDesc,
                 rxCid, rxStatus, monPc, netVars, crashed>>

RxDrainEnd ==
  /\ crashed = "none"
  /\ rxPc = "drain"
  /\ requests = {}
  /\ lock' = "free"
  /\ rxPc' = "exit"
  /\ UNCHANGED <<callerVars, pool, status, requestQueue, rqClosed, cid,
                 requests, txVars, rxDesc, rxCid, rxStatus, monPc, netVars,
                 crashed>>

-----------------------------------------------------------------------------
(* The monitor goroutine of Queue.init.                                    *)

\* wg.Wait() returns once the transmitter has returned and the receiver has
\* run its wg.Done (deferred last, so it runs before the drain); then the
\* map is cleared under the lock, without signalling anyone.
MonCleanup ==
  /\ crashed = "none"
  /\ monPc = "wait"
  /\ txPc = "exit"
  /\ rxPc \notin {"dequeue", "done"}
  /\ lock = "free"
  /\ requests' = {}
  /\ monPc' = "done"
  /\ UNCHANGED <<callerVars, pool, status, requestQueue, rqClosed, cid, lock,
                 txVars, rxVars, netVars, crashed>>

-----------------------------------------------------------------------------
(* The target, the network and the owner of the queue.                     *)

\* The controller answers a capsule it received, with or without data first.
TargetAnswer ==
  /\ crashed = "none"
  /\ conn = "open"
  /\ \E k \in toTarget, st \in TargetStatuses, withData \in BOOLEAN :
       /\ toTarget' = toTarget \ {k}
       /\ toHost' = toHost \o (IF withData THEN <<Data(k)>> ELSE <<>>)
                           \o <<Resp(k, st)>>
  /\ UNCHANGED <<callerVars, pool, status, requestQueue, rqClosed, cid,
                 requests, lock, txVars, rxVars, monPc, conn, crashed>>

\* The target or the network drops the connection; unanswered capsules are
\* lost, responses already sent can still be read.
PeerClose ==
  /\ crashed = "none"
  /\ PeerMayClose
  /\ conn = "open"
  /\ conn' = "peerClosed"
  /\ toTarget' = {}
  /\ UNCHANGED <<callerVars, pool, status, requestQueue, rqClosed, cid,
                 requests, lock, txVars, rxVars, monPc, toHost, crashed>>

\* Queue.Close: close(c.requestQueue); c.conn.Close()
Close ==
  /\ crashed = "none"
  /\ ~rqClosed
  /\ CloseWhileBusy \/ \A c \in Callers : callerPc[c] = "idle"
  /\ rqClosed' = TRUE
  /\ conn' = "closed"
  /\ UNCHANGED <<callerVars, pool, status, requestQueue, cid, requests, lock,
                 txVars, rxVars, monPc, toTarget, toHost, crashed>>

-----------------------------------------------------------------------------
(* The specification.                                                      *)

Stopped ==
  \/ crashed # "none"
  \/ /\ txPc = "exit" /\ rxPc = "exit" /\ monPc = "done"
     /\ \A c \in Callers : callerPc[c] = "idle"

\* Every goroutine has returned, or the process has crashed.
Terminated == Stopped /\ UNCHANGED vars

Caller(c) ==
  \/ Acquire(c) \/ QueueCapsule(c) \/ QueueOnClosed(c) \/ Release(c)
  \/ Return(c)

Transmitter == TxTake \/ TxExit \/ TxFlush \/ TxFlushFail \/ TxDone

Receiver ==
  \/ RxResponse \/ RxDone \/ RxData \/ RxEOF \/ RxDrainLock
  \/ RxDrainNext \/ RxDrainDone \/ RxDrainEnd

Next ==
  \/ \E c \in Callers : StartCall(c) \/ Caller(c)
  \/ Transmitter
  \/ Receiver
  \/ MonCleanup
  \/ TargetAnswer
  \/ PeerClose
  \/ Close
  \/ Terminated

\* Every goroutine runs when it can; the controller answers every capsule it
\* receives (checked by EveryCommandAnswered of NvmeController).  The
\* application is not forced to start operations or to close the queue.
Fairness ==
  /\ \A c \in Callers : WF_vars(Caller(c))
  /\ WF_vars(Transmitter)
  /\ WF_vars(Receiver)
  /\ WF_vars(MonCleanup)
  /\ WF_vars(TargetAnswer)

Spec == Init /\ [][Next]_vars /\ Fairness

-----------------------------------------------------------------------------
(* Properties.                                                             *)

\* Every variable keeps its type.
TypeOK ==
  /\ callerPc \in [Callers -> {"idle", "acquire", "queue", "wait", "release",
                               "return"}]
  /\ callerDesc \in [Callers -> Descs \cup {NoDesc}]
  /\ callerOps \in [Callers -> 0..MaxOps]
  /\ pool \subseteq Descs
  /\ status \in [Descs -> TargetStatuses]
  /\ requestQueue \in Seq(Descs) /\ Len(requestQueue) <= ReqQueueCap
  /\ cid \in 0..CidSpace - 1
  /\ requests \subseteq (0..CidSpace - 1) \X Descs
  /\ lock \in {"free", "recv"}
  /\ conn \in {"open", "peerClosed", "closed"}
  /\ crashed \in {"none", "panic"}

\* The receiver never meets a response or data PDU for a CID it does not
\* know (the tracer.Fatal branches of receiver): however the target orders
\* its answers and whenever the connection fails, the CID map still holds the
\* request of the next PDU the receiver reads.
NoUnknownCid == CanRead => Lookup(Head(toHost).cid) # {}

\* An IOQueue operation returns the status of the response to its own
\* command, and an error when no response arrived (transport failure).
ResultIsOwn ==
  \A c \in Callers :
    callerPc[c] = "idle" /\ callerOps[c] > 0 =>
      IF woken[c].cid = mine[c] /\ mine[c] # NoCid
      THEN result[c] = woken[c].status
      ELSE result[c] # SCSuccess

\* Every IOQueue operation that has started eventually returns (unless the
\* process crashed): no caller blocks forever in q.ready, QueueCapsule or Wait.
EveryCallReturns ==
  \A c \in Callers :
    callerPc[c] # "idle" ~> (callerPc[c] = "idle" \/ crashed # "none")

====
