--------------------------- MODULE MCReplication ---------------------------
(* Replication over few brokers, operations and failures.                  *)
EXTENDS Replication, TLC

Budget(issued, cancels, breaks, crashes) ==
    [issued |-> issued, cancels |-> cancels, breaks |-> breaks, crashes |-> crashes]

\* A bound on schedules: operation o begins while Etcd is at revision begin[o].
Begins(begin) == \A o \in Op :
    /\ Len(etcd) < begin[o] => ops[o].pc = "idle"
    /\ Len(etcd) > begin[o] => ops[o].pc # "idle"
=============================================================================
