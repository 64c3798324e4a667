------------------------------ MODULE MCTargets ------------------------------
(***************************************************************************)
(* Targets for TLC: a file target and an rbd target behind WorkQueues, a  *)
(* memory target and a testable target, as cmd/nvmed creates them.  Only  *)
(* the file target is closed: no code of the repository calls a target's  *)
(* Close (DeleteVolume panics before it).  Closing the rbd image under a   *)
(* running worker may crash the process (RbdStatus), which TargetContract *)
(* forbids; that race is listed as a hazard rather than checked here.      *)
(*                                                                         *)
(* The channel capacity, and with it the number of workers, is 2 instead   *)
(* of 8: five requests to the file target then fill both workers and the   *)
(* channel and block a fifth sender, which 8 would need 17 requests for.   *)
(***************************************************************************)
EXTENDS Targets, TLC

CONSTANTS f1, r1, m1, t1, NoReqV

MCTgts == {f1, r1, m1, t1}
MCKindOf == [t \in MCTgts |-> CASE t = f1 -> "file" [] t = r1 -> "rbd"
                                [] t = m1 -> "mem" [] OTHER -> "testable"]

\* A 4-block image file and rbd image, the memory target of an 8 KiB size option, and the
\* 1 GiB buffer of NewTestableTarget (2097152 blocks).
MCBlocks == [t \in MCTgts |-> CASE t \in {f1, r1} -> 4 [] t = m1 -> 16 [] OTHER -> 2097152]

\* NewTestableTarget's regions.
MCRegions == << [start |-> 1000, end |-> 1063, failRead |-> FALSE, failWrite |-> TRUE],
                [start |-> 1064, end |-> 1127, failRead |-> TRUE,  failWrite |-> FALSE],
                [start |-> 1128, end |-> 1256, failRead |-> TRUE,  failWrite |-> TRUE] >>

\* Requests as handleIOCapsule builds them (one SGE, Length = NLB * 512).
\* To the file: a read running past the 4-block image, a write past its end
\* that grows it, a read of the grown block, a trim and a flush.  To the
\* testable target: a write to its failing-write region.  To the rbd image: a write past its end, which
\* the file target would take by growing.
MCReqOf == 1 :> [tgt |-> f1, cmd |-> "Read",  lba |-> 3,    nlb |-> 2]
        @@ 2 :> [tgt |-> f1, cmd |-> "Write", lba |-> 4,    nlb |-> 1]
        @@ 3 :> [tgt |-> f1, cmd |-> "Read",  lba |-> 4,    nlb |-> 1]
        @@ 4 :> [tgt |-> f1, cmd |-> "Trim",  lba |-> 0,    nlb |-> 1]
        @@ 5 :> [tgt |-> f1, cmd |-> "Flush", lba |-> 0,    nlb |-> 0]
        @@ 6 :> [tgt |-> t1, cmd |-> "Write", lba |-> 1000, nlb |-> 8]
        @@ 7 :> [tgt |-> r1, cmd |-> "Write", lba |-> 4,    nlb |-> 1]

MCReqs == DOMAIN MCReqOf

MCClosable == {f1}

====
