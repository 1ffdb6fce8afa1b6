---------------------------- MODULE MCReassigned ----------------------------
(* Replication where a journal is removed from a broker and soon assigned  *)
(* to it again: a health check and an append before, a health check after, *)
(* and an append once the journal has been removed from its first broker.  *)
EXTENDS MCReplication

CONSTANTS a1, a2, p1, p2

MCAppends == {a1, a2}
MCPings == {p1, p2}
MCBudgets == {Budget(MCAppends \union MCPings, 0, 0, 0)}
MCBegins == Begins(p1 :> 1 @@ a1 :> 1 @@ p2 :> 4 @@ a2 :> 6)
=============================================================================
