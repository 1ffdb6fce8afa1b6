----------------------------- MODULE MCBrokers -----------------------------
(***************************************************************************)
(* Two small instances of Replication over two brokers, of which the       *)
(* initial state chooses one (`part`): in "handoff" the allocator moves a  *)
(* journal of one replica from A to B, and in "faults" a stream breaks and *)
(* the primary is lost, while an append states its offset.                 *)
(***************************************************************************)
EXTENDS TLC

CONSTANTS A, B, Nobody, NONE, a1, a2, p1, b1, b2

VARIABLES part, etcd, leased, live, view, local, rep, pipes, ops, acked, store, budget

H == INSTANCE Replication WITH
    Broker <- {A, B}, Codec <- {NONE}, SpecCodec <- NONE,
    Appends <- {a1, a2}, Byte <- {a1, a2}, ResetAppends <- {}, Pings <- {p1},
    R <- 1, InitMembers <- {A}, InitPrimary <- A, InitRefreshed <- {}, MayReassign <- FALSE,
    MaxRev <- 4, MaxPipelines <- 3, Fallible <- {},
    Budgets <- {[issued |-> {a1, a2, p1}, cancels |-> 0, breaks |-> 0, crashes |-> 0]}

F == INSTANCE Replication WITH
    Broker <- {A, B}, Codec <- {NONE}, SpecCodec <- NONE,
    Appends <- {b1, b2}, Byte <- {b1, b2}, ResetAppends <- {b2}, Pings <- {},
    R <- 1, InitMembers <- {A, B}, InitPrimary <- A, InitRefreshed <- {}, MayReassign <- FALSE,
    MaxRev <- 3, MaxPipelines <- 3, Fallible <- {A},
    Budgets <- {[issued |-> {b1, b2}, cancels |-> 0, breaks |-> 1, crashes |-> 1]}

ASSUME H!ReplicationAssumption /\ F!ReplicationAssumption

Faults == part = "faults"

MCInit == part \in {"handoff", "faults"} /\ IF Faults THEN F!Init ELSE H!Init

MCNext ==
    /\ UNCHANGED part
    /\ \/ Faults /\ F!Next
       \/ ~Faults /\ H!Next

MCSpec == MCInit /\ [][MCNext]_<<part, H!vars>>

Symmetric == Permutations({a1, a2})

-----------------------------------------------------------------------------
\* No other append is acknowledged at the offset of one which was, and it isn't lost.
AckedSafely == IF Faults THEN F!AckedSafely ELSE H!AckedSafely

\* If the assignments advertise a consistent Route then any one of its members knows of all
\* acknowledged appends, and the allocator may remove the others.
ConsistentMeansCaughtUp == IF Faults THEN F!ConsistentMeansCaughtUp ELSE H!ConsistentMeansCaughtUp

\* A Spool and a pipeline are each owned by one goroutine, channel or Replicate stream.
OwnedOnce == IF Faults THEN F!OwnedOnce ELSE H!OwnedOnce

\* A stream has as many acknowledgements on their way as operations wait to read one.
ResponsesInOrder == IF Faults THEN F!ResponsesInOrder ELSE H!ResponsesInOrder
=============================================================================
