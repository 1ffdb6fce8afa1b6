----------------------------- MODULE MCFailover -----------------------------
(* Replication where a primary with a peer is lost while two appends run,  *)
(* and a third broker joins; or where an append gives its offset, while a  *)
(* health check runs and one of them is cancelled, or as a stream breaks.  *)
EXTENDS MCReplication

CONSTANTS a1, a2, a3, p1

MCAppends == {a1, a2, a3}
MCBudgets == {Budget({a1, a2}, 0, 0, 1), Budget({a3, p1}, 1, 0, 0), Budget({a3}, 0, 1, 0)}
MCSymmetry == Permutations({a1, a2})
=============================================================================
