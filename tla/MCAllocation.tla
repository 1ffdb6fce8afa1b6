---------------------------- MODULE MCAllocation ----------------------------
(***************************************************************************)
(* Allocation, from the mirror of Etcd to the assignments put there, on    *)
(* small instances of three modules: Allocator, PushRelabel (the solver it *)
(* calls, which Allocator takes by its result) and KeySpace (the mirror it *)
(* observes).  The initial state chooses one (`part`), and only that one   *)
(* takes steps, so that their behaviours add up.                           *)
(***************************************************************************)
EXTENDS Allocator, TLC

VARIABLES
    part,
    \* of PushRelabel
    problem, arcs, nodeArcs, flow, height, excess, next, active, node,
    \* of the KeySpace
    events, sent, notified, queue, header, kvs, status, waiter

solverVars == <<problem, arcs, nodeArcs, flow, height, excess, next, active, node>>
mirrorVars == <<events, sent, notified, queue, header, kvs, status, waiter>>

MCItemLimit == (1 :> 2 @@ 2 :> 2 @@ 3 :> 1)
MCAnnounced == <<1, 2>>
MCReplication == (1 :> 1 @@ 2 :> 1 @@ 3 :> 1)
MCAssigned == {<<1, 1, 0>>, <<2, 1, 0>>, <<3, 2, 0>>}
MCChanges == {{<<"announce", 3>>, <<"expire", 2>>}, {<<"announce", 3>>, <<"signal", 1>>},
              {<<"signal", 1>>, <<"expire", 2>>},
              {<<"item", 1, 2>>, <<"item", 1, 1>>, <<"delete", 3>>},
              {<<"item", 1, 2>>, <<"item", 2, 1>>, <<"error">>}}

Priors == {{}, {<<1, 1>>, <<1, 3>>, <<2, 2>>}, {1, 2} \X {1, 2, 3}}
MCProblem(r, l, D) == [items |-> r, limit |-> l, zone |-> <<1, 1, 2>>, prior |-> D]
MCProblems ==
    {MCProblem(r, l, D) : r \in [{1, 2} -> 1..2], l \in [{1, 2, 3} -> {0, 1, 3}], D \in Priors}
AProblem == MCProblem(<<1, 1>>, <<1, 1, 1>>, {})

F == INSTANCE PushRelabel WITH Problems <- MCProblems

K == INSTANCE KeySpace WITH
    etcd <- events, Key <- {1, 2}, Outside <- 0, MaxRev <- 3, MaxQueue <- 2, MaxNotify <- 1

ASSUME K!KeySpaceAssumption

MCInit ==
    /\ part \in {"allocator", "solver", "mirror"}
    /\ Init /\ (part # "allocator" => todo = CHOOSE changes \in MCChanges : TRUE)
    /\ F!Init /\ (part # "solver" => problem = AProblem)
    /\ K!Init

MCNext ==
    /\ UNCHANGED part
    /\ \/ part = "allocator" /\ Next /\ UNCHANGED <<solverVars, mirrorVars>>
       \/ part = "solver" /\ F!Next /\ UNCHANGED <<vars, mirrorVars>>
       \/ part = "mirror" /\ K!Next /\ UNCHANGED <<vars, solverVars>>

MCvars == <<part, vars, solverVars, mirrorVars>>

\* The fairness of each module, if it's the one which runs.
MCSpec ==
    /\ MCInit /\ [][MCNext]_MCvars
    /\ \A m \in Member :
         \/ []<>(part # "allocator" \/ ~MayAllocate(m))
         \/ []<><<part = "allocator" /\ Allocates(m)>>_vars
    /\ WF_vars(part = "allocator" /\ \E k \in DOMAIN etcd.asn : Advertise(k))
    /\ WF_solverVars(part = "solver" /\ F!Next)

-----------------------------------------------------------------------------
\* Allocator: once changes end, each item reaches and keeps its replication, unless an iteration
\* failed with an error and nothing changed since.
AllocationConverges == <>[](part = "allocator" /\ Attainable /\ ~Stalled => Converged)

\* PushRelabel: the solver keeps to a preflow and ends, with a largest assignment, which is what
\* Allocator takes it for.
Solves ==
    /\ [](part = "solver" => F!Preflow)
    /\ <>(part = "solver" => F!Solved /\ F!Largest)

\* KeySpace: it's Etcd at its revision, whichever way watch responses were batched, and a
\* goroutine which awaits a revision is woken once it's there.
FollowsEtcd == part = "mirror" => K!MirrorsEtcd /\ K!WaitersWoken
=============================================================================
