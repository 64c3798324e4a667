---------------------------- MODULE MCNvmeServer ----------------------------
(* Model values for NvmeServer. *)
EXTENDS NvmeServer, TLC

CONSTANTS h1, h2, nqnA

ConnSymmetry == Permutations({h1, h2})
=============================================================================
