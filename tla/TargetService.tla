---------------------------- MODULE TargetService ----------------------------
(***************************************************************************)
(* What a Target promises the subsystem that queues IO on it (spec.md §6): *)
(* Queue(IORequest) hands a request over, and the request's completion     *)
(* callback is invoked exactly once, eventually, with a TargetError.       *)
(* Command-level failures (a bad LBA, a backend error) are statuses and    *)
(* never stop the process.  Aborted is the status of a request the target  *)
(* gave up on because its owner closed it.                                 *)
(*                                                                         *)
(* Targets implements this specification under the mapping in             *)
(* Targets.TargetContract.                                                 *)
(***************************************************************************)
CONSTANTS
  Tgts,        \* the targets
  Reqs,        \* the requests
  TgtOf,       \* the target each request is queued on
  Statuses     \* the TargetError values

VARIABLES
  result,      \* result[r]: "new" before Queue, "pending", or the status r completed with
  closing,     \* closing[t]: the owner has called Close on t
  up           \* the process is running

vars == <<result, closing, up>>

Init ==
  /\ result = [r \in Reqs |-> "new"]
  /\ closing = [t \in Tgts |-> FALSE]
  /\ up = TRUE

\* Queue(r) returns with r in progress.
Accept(r) ==
  /\ result[r] = "new"
  /\ result' = [result EXCEPT ![r] = "pending"]
  /\ UNCHANGED <<closing, up>>

\* The completion callback runs, once; Aborted only on a closing target.
Complete(r, s) ==
  /\ result[r] = "pending"
  /\ s # "Aborted" \/ closing[TgtOf[r]]
  /\ result' = [result EXCEPT ![r] = s]
  /\ UNCHANGED <<closing, up>>

\* Queue(r) completes r before it returns.
AcceptAndComplete(r, s) ==
  /\ result[r] = "new"
  /\ s # "Aborted"
  /\ result' = [result EXCEPT ![r] = s]
  /\ UNCHANGED <<closing, up>>

Close(t) ==
  /\ ~closing[t]
  /\ closing' = [closing EXCEPT ![t] = TRUE]
  /\ UNCHANGED <<result, up>>

Next ==
  \/ \E r \in Reqs : Accept(r) \/ \E s \in Statuses : Complete(r, s) \/ AcceptAndComplete(r, s)
  \/ \E t \in Tgts : Close(t)

\* Every request handed over is completed.
Spec == Init /\ [][Next]_vars /\ \A r \in Reqs : WF_vars(\E s \in Statuses : Complete(r, s))

====
