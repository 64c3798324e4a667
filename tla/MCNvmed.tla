------------------------------- MODULE MCNvmed -------------------------------
(***************************************************************************)
(* Model values for Nvmed: host connections, two volumes, DeleteVolume     *)
(* requests.  MaxAdminOps is one AddSubSystem per volume and one           *)
(* RemoveSubSystem per DeleteVolume request, so the API is never cut short *)
(* by the bound.                                                           *)
(***************************************************************************)
EXTENDS Nvmed, TLC

CONSTANTS h1, h2, v1, v2, d1, d2

MCMaxAdminOps == Cardinality(NQNs) + Cardinality(Dels)

====
