------------------------ MODULE MCNvmeClientQueue ---------------------------
(***************************************************************************)
(* Model-checking instances of NvmeClientQueue.                            *)
(***************************************************************************)
EXTENDS NvmeClientQueue, TLC

CONSTANTS c1, c2

\* Callers are interchangeable goroutines (safety runs only).
CallerSymmetry == Permutations({c1, c2})

\* A success and one error status of the target.
Statuses == {"SCSuccess", "SCMediaWriteFault"}

====
