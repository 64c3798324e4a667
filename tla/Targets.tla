------------------------------ MODULE Targets ------------------------------
(***************************************************************************)
(* The storage targets of src/targets behind TargetSubsystem.QueueIO.      *)
(*                                                                         *)
(* A target is created by the factory and started before its subsystem is *)
(* added (cmd/nvmed).  File, rbd (built with the ceph tag) and sleepy      *)
(* targets are wrapped in a WorkQueue:                                     *)
(* Queue sends the IORequest into a channel of capacity 8, and Start runs  *)
(* cap(queue) worker goroutines that receive and call the wrapped          *)
(* target's Queue.  Memory, null and testable targets run Queue on the     *)
(* caller's goroutine, the controller's receive loop.  Each target calls   *)
(* the request's completion callback, r.Complete(status).                  *)
(*                                                                         *)
(* WorkQueue.Close closes the channel, completes what it can still         *)
(* receive as Aborted, and closes the wrapped target.                      *)
(*                                                                         *)
(* Data is abstracted to statuses and sizes: a request is its command,     *)
(* first LBA and block count (Length / 512), and a target is its size in   *)
(* blocks.  Each request has its own submitting goroutine, as requests of  *)
(* different connections do.                                               *)
(***************************************************************************)
EXTENDS Integers, Sequences

CONSTANTS
  Tgts,          \* the targets
  KindOf,        \* the provider of each: "file", "rbd", "sleepy", "mem", "null",
                 \* "testable"
  Blocks,        \* Blocks[t]: the size of target t at start, in blocks
  Regions,       \* TestableTarget.Regions: <<[start, end, failRead, failWrite], ...>>
  Reqs,          \* the IORequests
  ReqOf,         \* each request: [tgt, cmd, lba, nlb]
  QueueCap,      \* cap(w.queue) in NewWorkQueue (8), which is also the worker count
  Closable,      \* the WorkQueue targets whose owner may call WorkQueue.Close
  NoReq          \* no request

VARIABLES
  phase,         \* phase[r]: "new", "blocked" (in a send to a full channel),
                 \* "queued", "running" (a worker holds it), "done"
  queue,         \* queue[t]: the buffered requests of w.queue
  qclosed,       \* qclosed[t]: close(w.queue) has run
  worker,        \* worker[t][w]: "recv", "run" or "exit"
  held,          \* held[t][w]: the request worker w is running
  closer,        \* closer[t]: "open", "drain" (Close's range) or "closed"
  open,          \* open[t]: the target's file is open
  size,          \* size[t]: the target's size in blocks
  status,        \* status[r]: what r.Complete was called with, or "pending"
  crashed        \* the process panicked

vars == <<phase, queue, qclosed, worker, held, closer, open, size, status, crashed>>

Statuses == {"None", "Unsupported", "Aborted", "LbaOutOfRange", "Write", "Read", "Internal"}
Pending == "pending"

\* FILECreateTarget, RBDCreateTarget and SleepyCreateTarget return
\* NewWorkQueue(options, t).
WorkQueued == {"file", "rbd", "sleepy"}
WQ == {t \in Tgts : KindOf[t] \in WorkQueued}
Workers == 1..QueueCap

End(q) == q.lba + q.nlb
MaxOf(a, b) == IF a > b THEN a ELSE b

----------------------------------------------------------------------------
(* What each target's Queue completes a request with. *)

\* MemTarget.Queue: the slice Buffer[offset:offset+Length] and the index
\* loop of WriteZero/Trim panic past the buffer; there is no range check.
MemCrashes(q, sz) == q.cmd # "Flush" /\ End(q) > sz

\* TestableTarget.Queue: a range check, then the first region holding the
\* first LBA decides whether reads or writes fail.
TestableStatus(q, sz) ==
  LET hits == {i \in DOMAIN Regions : Regions[i].start <= q.lba /\ q.lba <= Regions[i].end}
      first == IF hits = {} THEN 0 ELSE CHOOSE i \in hits : \A j \in hits : i <= j
      fail(f) == first # 0 /\ Regions[first][f]
  IN CASE End(q) >= sz                        -> "LbaOutOfRange"
       [] q.cmd = "Read" /\ fail("failRead")   -> "Read"
       [] q.cmd = "Write" /\ fail("failWrite") -> "Write"
       [] OTHER                                -> "None"

\* FileTarget.Queue: ReadAt fails on a closed file and at end of file,
\* WriteAt fails on a closed file and extends the file past its end.
FileStatus(q, isOpen, sz) ==
  CASE q.cmd = "Read"                   -> IF isOpen /\ End(q) <= sz THEN "None" ELSE "Unsupported"
    [] q.cmd = "Write"                  -> IF isOpen THEN "None" ELSE "Unsupported"
    [] q.cmd \in {"Trim", "WriteZero"}  -> IF isOpen THEN "None" ELSE "Internal"
    [] q.cmd = "Flush"                  -> "None"
FileSize(q, isOpen, sz) ==
  IF isOpen /\ q.cmd \in {"Write", "Trim", "WriteZero"} THEN MaxOf(sz, End(q)) ELSE sz

\* RBDTarget.Queue: go-ceph's ReadAt and WriteAt return an error for a
\* closed image and for a short transfer, and librbd neither reads nor
\* writes past the image's end, so an rbd image never grows.  Trim,
\* WriteZero and Flush complete with None without touching the image.
\* Image.Close racing a ReadAt or WriteAt already inside librbd is a use
\* after free: the outcome is an error or a crash.
RbdStatus(q, isOpen, sz) ==
  CASE q.cmd \in {"Read", "Write"} /\ isOpen -> IF End(q) <= sz THEN {"None"} ELSE {"Unsupported"}
    [] q.cmd \in {"Read", "Write"}           -> {"Unsupported", "crash"}
    [] OTHER                                -> {"None"}

\* The wrapped target's Queue run by a worker: FileTarget, RBDTarget or
\* SleepyTarget (which sleeps, then succeeds).  A set of outcomes, "crash"
\* among them where the process may die.
HandlerStatus(t, q) ==
  CASE KindOf[t] = "file" -> {FileStatus(q, open[t], size[t])}
    [] KindOf[t] = "rbd"  -> RbdStatus(q, open[t], size[t])
    [] OTHER              -> {"None"}

\* The Queue of a target that is not wrapped: mem, null or testable.
DirectStatus(t, q) ==
  CASE KindOf[t] = "testable" -> TestableStatus(q, size[t])
    [] OTHER                  -> "None"

----------------------------------------------------------------------------
(* Actions. *)

\* Every target is started before its subsystem is added: WorkQueue.Start
\* runs cap(w.queue) workers, each blocked in <-w.queue.
Init ==
  /\ phase = [r \in Reqs |-> "new"]
  /\ queue = [t \in WQ |-> <<>>]
  /\ qclosed = [t \in WQ |-> FALSE]
  /\ worker = [t \in WQ |-> [w \in Workers |-> "recv"]]
  /\ held = [t \in WQ |-> [w \in Workers |-> NoReq]]
  /\ closer = [t \in WQ |-> "open"]
  /\ open = [t \in Tgts |-> TRUE]
  /\ size = Blocks
  /\ status = [r \in Reqs |-> Pending]
  /\ crashed = FALSE

\* TargetSubsystem.QueueIO on a mem, null or testable target: the target's
\* Queue runs to the completion on the caller's goroutine.
SubmitDirect(r) ==
  LET q == ReqOf[r] IN
  /\ ~crashed
  /\ phase[r] = "new"
  /\ q.tgt \notin WQ
  /\ IF KindOf[q.tgt] = "mem" /\ MemCrashes(q, size[q.tgt])
     THEN crashed' = TRUE /\ UNCHANGED <<phase, status>>
     ELSE /\ phase' = [phase EXCEPT ![r] = "done"]
          /\ status' = [status EXCEPT ![r] = DirectStatus(q.tgt, q)]
          /\ UNCHANGED crashed
  /\ UNCHANGED <<queue, qclosed, worker, held, closer, open, size>>

\* Mutant: a send that buffers past the channel's capacity.
SendUnbounded(r) ==
  LET t == ReqOf[r].tgt IN
  IF qclosed[t]
  THEN crashed' = TRUE /\ UNCHANGED <<phase, queue>>
  ELSE IF Len(queue[t]) < QueueCap + 1
       THEN /\ queue' = [queue EXCEPT ![t] = Append(@, r)]
            /\ phase' = [phase EXCEPT ![r] = "queued"]
            /\ UNCHANGED crashed
       ELSE /\ phase' = [phase EXCEPT ![r] = "blocked"]
            /\ UNCHANGED <<queue, crashed>>

\* w.queue <- r: a send on a closed channel panics, a send to a full
\* channel blocks, any other send is buffered and Queue returns None.
Send(r) ==
  LET t == ReqOf[r].tgt IN
  IF qclosed[t]
  THEN crashed' = TRUE /\ UNCHANGED <<phase, queue>>
  ELSE IF Len(queue[t]) < QueueCap
       THEN /\ queue' = [queue EXCEPT ![t] = Append(@, r)]
            /\ phase' = [phase EXCEPT ![r] = "queued"]
            /\ UNCHANGED crashed
       ELSE /\ phase' = [phase EXCEPT ![r] = "blocked"]
            /\ UNCHANGED <<queue, crashed>>

\* WorkQueue.Queue, called from TargetSubsystem.QueueIO.
SubmitQueued(r) ==
  /\ ~crashed
  /\ phase[r] = "new"
  /\ ReqOf[r].tgt \in WQ
  /\ Send(r)
  /\ UNCHANGED <<qclosed, worker, held, closer, open, size, status>>

\* A blocked send proceeds once a receive has made room, or panics once
\* the channel is closed.
Unblock(r) ==
  LET t == ReqOf[r].tgt IN
  /\ ~crashed
  /\ phase[r] = "blocked"
  /\ qclosed[t] \/ Len(queue[t]) < QueueCap
  /\ Send(r)
  /\ UNCHANGED <<qclosed, worker, held, closer, open, size, status>>

\* Work: r := <-w.queue.  A closed and empty channel yields nil, and the
\* worker returns.
Receive(t, w) ==
  /\ ~crashed
  /\ worker[t][w] = "recv"
  /\ \/ /\ queue[t] # <<>>
        /\ held' = [held EXCEPT ![t][w] = Head(queue[t])]
        /\ phase' = [phase EXCEPT ![Head(queue[t])] = "running"]
        /\ queue' = [queue EXCEPT ![t] = Tail(@)]
        /\ worker' = [worker EXCEPT ![t][w] = "run"]
     \/ /\ queue[t] = <<>>
        /\ qclosed[t]
        /\ worker' = [worker EXCEPT ![t][w] = "exit"]
        /\ UNCHANGED <<held, phase, queue>>
  /\ UNCHANGED <<qclosed, closer, open, size, status, crashed>>

\* Mutant: Work receives once, before its loop, and hands the same request
\* to the handler again and again.
RunReceiveOnce(t, w) ==
  LET r == held[t][w]
      q == ReqOf[r]
  IN /\ ~crashed
     /\ worker[t][w] = "run"
     /\ \E e \in HandlerStatus(t, q) \ {"crash"} :
          status' = [status EXCEPT ![r] = e]
     /\ size' = [size EXCEPT ![t] = IF KindOf[t] = "file"
                                    THEN FileSize(q, open[t], @) ELSE @]
     /\ phase' = [phase EXCEPT ![r] = "done"]
     /\ UNCHANGED <<held, worker, queue, qclosed, closer, open, crashed>>

\* Work: w.Handler.Queue(r), which completes r, then the next receive.
Run(t, w) ==
  LET r == held[t][w]
      q == ReqOf[r]
  IN /\ ~crashed
     /\ worker[t][w] = "run"
     /\ \E e \in HandlerStatus(t, q) :
          IF e = "crash"
          THEN crashed' = TRUE /\ UNCHANGED <<status, size, phase, held, worker>>
          ELSE /\ status' = [status EXCEPT ![r] = e]
               /\ size' = [size EXCEPT ![t] = IF KindOf[t] = "file"
                                              THEN FileSize(q, open[t], @) ELSE @]
               /\ phase' = [phase EXCEPT ![r] = "done"]
               /\ held' = [held EXCEPT ![t][w] = NoReq]
               /\ worker' = [worker EXCEPT ![t][w] = "recv"]
               /\ UNCHANGED crashed
     /\ UNCHANGED <<queue, qclosed, closer, open>>

\* WorkQueue.Close: close(w.queue).  The owner closes a target once every
\* Queue call on it has returned.
CloseQueue(t) ==
  /\ ~crashed
  /\ t \in Closable
  /\ closer[t] = "open"
  /\ \A r \in Reqs : ReqOf[r].tgt = t => phase[r] \notin {"new", "blocked"}
  /\ qclosed' = [qclosed EXCEPT ![t] = TRUE]
  /\ closer' = [closer EXCEPT ![t] = "drain"]
  /\ UNCHANGED <<phase, queue, worker, held, open, size, status, crashed>>

\* Close's range over the closed channel, competing with the workers: each
\* request it receives is completed as Aborted.
Drain(t) ==
  /\ ~crashed
  /\ closer[t] = "drain"
  /\ queue[t] # <<>>
  /\ status' = [status EXCEPT ![Head(queue[t])] = "Aborted"]
  /\ phase' = [phase EXCEPT ![Head(queue[t])] = "done"]
  /\ queue' = [queue EXCEPT ![t] = Tail(@)]
  /\ UNCHANGED <<qclosed, worker, held, closer, open, size, crashed>>

\* The range ends on the empty closed channel; w.Handler.Close() closes the
\* file or the rbd image (SleepyTarget.Close does nothing), whether or not a
\* worker is still in the handler's Queue.
CloseHandler(t) ==
  /\ ~crashed
  /\ closer[t] = "drain"
  /\ queue[t] = <<>>
  /\ closer' = [closer EXCEPT ![t] = "closed"]
  /\ open' = [open EXCEPT ![t] = IF KindOf[t] \in {"file", "rbd"} THEN FALSE ELSE @]
  /\ UNCHANGED <<phase, queue, qclosed, worker, held, size, status, crashed>>

\* Every request is completed and nothing is left to run, or the process
\* has panicked.
Quiet ==
  /\ crashed \/ \A r \in Reqs : phase[r] = "done"
  /\ UNCHANGED vars

Next ==
  \/ \E r \in Reqs : SubmitDirect(r) \/ SubmitQueued(r) \/ Unblock(r)
  \/ \E t \in WQ, w \in Workers : Receive(t, w) \/ Run(t, w)
  \/ \E t \in WQ : CloseQueue(t) \/ Drain(t) \/ CloseHandler(t)
  \/ Quiet

\* Workers, blocked senders and Close's range are goroutines the scheduler
\* runs whenever they can proceed.  Hosts and the owner are not obliged to
\* submit or to close.
Fairness ==
  /\ \A r \in Reqs : WF_vars(Unblock(r))
  /\ \A t \in WQ, w \in Workers : WF_vars(Receive(t, w)) /\ WF_vars(Run(t, w))
  /\ \A t \in WQ : WF_vars(Drain(t)) /\ WF_vars(CloseHandler(t))

Spec == Init /\ [][Next]_vars /\ Fairness

----------------------------------------------------------------------------
(* Properties. *)

TypeOK ==
  /\ phase \in [Reqs -> {"new", "blocked", "queued", "running", "done"}]
  /\ \A t \in WQ : /\ Len(queue[t]) <= QueueCap
                   /\ \A i \in DOMAIN queue[t] : phase[queue[t][i]] = "queued"
  /\ worker \in [WQ -> [Workers -> {"recv", "run", "exit"}]]
  /\ \A t \in WQ, w \in Workers :
       (worker[t][w] = "run") = (held[t][w] \in Reqs)
  /\ status \in [Reqs -> Statuses \cup {Pending}]
  /\ \A r \in Reqs : (status[r] # Pending) = (phase[r] = "done")

\* The Target contract of spec.md §6: every request given to Queue has its
\* completion callback invoked exactly once, eventually, never with Aborted
\* unless the owner has begun WorkQueue.Close, and no request makes the
\* process panic.  A request blocked in the channel send is handed over but
\* not yet completed.
TS == INSTANCE TargetService WITH
        TgtOf <- [r \in Reqs |-> ReqOf[r].tgt],
        result <- [r \in Reqs |-> CASE phase[r] = "new"  -> "new"
                                    [] phase[r] = "done" -> status[r]
                                    [] OTHER             -> "pending"],
        closing <- [t \in Tgts |-> t \in WQ /\ closer[t] # "open"],
        up <- ~crashed
TargetContract == TS!Spec

====
