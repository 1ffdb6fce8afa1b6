---------------------------- MODULE MCGoroutines ----------------------------
(***************************************************************************)
(* Goroutines which start, retry, wait for one another and end, on small   *)
(* instances of four modules: ShardReplica, Persister, RetryReader and     *)
(* Replication.  They share no state.  The initial state chooses one       *)
(* (`part`), and only that one takes steps, so that behaviours add up.     *)
(***************************************************************************)
EXTENDS ShardReplica

CONSTANTS A, B, Nobody, NONE, a1, p1

VARIABLES
    part,
    \* of the Persister
    spec, specs, complete, qA, qB, qC, age, lookups, uploads, attempting, stored, dropped,
    failures, serve, todo, exiting, finish, late,
    \* of the RetryReader
    reader, buf, unpack, frame, size, want, last, removed, errors, seeks,
    \* of Replication
    etcd, leased, live, views, local, rep, pipes, ops, acked, store, faults

persisterVars ==
    <<spec, specs, complete, qA, qB, qC, age, lookups, uploads, attempting, stored, dropped,
      failures, serve, todo, exiting, finish, late>>
readerVars == <<reader, buf, unpack, frame, size, want, last, removed, errors, seeks>>
brokerVars == <<etcd, leased, live, views, local, rep, pipes, ops, acked, store, faults>>

Spools == {"s1", "s2", "s3"}

P == INSTANCE Persister WITH
    Spool <- Spools, Empty <- {"s3"}, Store <- {"store"}, current <- attempting,
    MaxFailures <- 2, MaxSpecs <- 1

Q == INSTANCE RetryReader WITH
    Ends <- <<2, 5, 10, 12>>, Fragments <- {<<0, 5>>, <<5, 10>>, <<10, 12>>},
    HeaderLen <- 2, BufferSize <- 4,
    MaxErrors <- 1, MaxRemoved <- 1, RemovesRead <- FALSE, MaxSeeks <- 1

\* An append and a health check of a journal which the allocator moves off its primary, with one
\* broken stream and one cancelled operation.
J == INSTANCE Replication WITH
    view <- views, budget <- faults, Broker <- {A, B}, Codec <- {NONE}, SpecCodec <- NONE,
    Appends <- {a1}, Byte <- {a1}, ResetAppends <- {}, Pings <- {p1},
    R <- 1, InitMembers <- {A, B}, InitPrimary <- A, InitRefreshed <- {}, MayReassign <- FALSE,
    MaxRev <- 4, MaxPipelines <- 4, Fallible <- {A},
    Budgets <- {[issued |-> {a1, p1}, cancels |-> 1, breaks |-> 1, crashes |-> 0]}

ASSUME Q!ReaderAssumption /\ J!ReplicationAssumption

Budget(changes, fails, rpcs, ends) ==
    [changes |-> changes, failures |-> fails, rpcs |-> rpcs, ends |-> ends]
MCBudgets == {Budget(3, 0, 0, 0), Budget(2, 1, 0, 1), Budget(2, 0, 1, 1), Budget(2, 1, 1, 0)}

MCInit ==
    /\ part \in {"shard", "persister", "reader", "broker"}
    /\ Init /\ P!Init /\ Q!Init /\ J!Init
    /\ part # "shard" => budget = Budget(3, 0, 0, 0)

MCNext ==
    /\ UNCHANGED part
    /\ \/ part = "shard" /\ Next /\ UNCHANGED <<persisterVars, readerVars, brokerVars>>
       \/ part = "persister" /\ P!Next /\ UNCHANGED <<vars, readerVars, brokerVars>>
       \/ part = "reader" /\ Q!Next /\ UNCHANGED <<vars, persisterVars, brokerVars>>
       \/ part = "broker" /\ J!Next /\ UNCHANGED <<vars, persisterVars, readerVars>>

MCvars == <<part, vars, persisterVars, readerVars, brokerVars>>

\* The fairness of each module, if it's the one which runs.
MCSpec ==
    /\ MCInit /\ [][MCNext]_MCvars
    /\ WF_vars(part = "shard" /\ Runs)
    /\ \A s \in Spools : WF_persisterVars(part = "persister" /\ P!Attempt(s))
    /\ WF_persisterVars(part = "persister" /\ P!Serves)
    /\ SF_persisterVars(part = "persister" /\ P!ReceiveDone)
    /\ WF_persisterVars(part = "persister" /\ P!FinishReturns)
    /\ WF_readerVars(part = "reader" /\ (Q!Unpacks \/ Q!Receive))
    /\ WF_brokerVars(part = "broker" /\ J!Runs)

-----------------------------------------------------------------------------
\* Persister: once Finish returns every Spool which was completed is in a store, or was
\* dropped for want of one.
FinishPersists == P!FinishPersists

\* Persister: every Spool is persisted or dropped in the end, and Finish returns.
Persists == P!Persists

\* RetryReader: messages are handed on whole and in order, with the offset at which they end,
\* and only removed ones are skipped.
MessagesInOrder == Q!MessagesInOrder

\* RetryReader: the client reads each message which stays.
ReadsAll == part = "reader" => Q!ReadsAll

\* Replication: an Append or health check which has resolved the journal eventually returns.
OpsFinish == part = "broker" => J!OpsFinish
=============================================================================
