---------------------------- MODULE PushRelabel ----------------------------
(***************************************************************************)
(* FindMaxFlow (v2/pkg/allocator/push_relabel): the highest node which has *)
(* excess is discharged of it by pushes along its arcs, and relabelled     *)
(* when there are none left to push on.  Nodes of one height may be taken  *)
(* in any order.                                                           *)
(***************************************************************************)
EXTENDS FlowNetwork

CONSTANTS
    Problems    \* the allocation problems to solve

VARIABLES
    problem,    \* the one being solved,
    arcs,       \* the arcs of its network,
    nodeArcs,   \* and those of each node, in order
    flow,       \* flow of each arc; that of its residual is the negative
    height,     \* label of each node
    excess,     \* excess flow of each node
    next,       \* index of the next arc of each node
    active,     \* nodes which have excess, other than the sink
    node        \* the node which is being discharged

net == <<problem, arcs, nodeArcs>>
vars == <<net, flow, height, excess, next, active, node>>

None == <<"none", 0, 0>>

Init ==
    /\ problem \in Problems
    /\ arcs = Arcs(problem)
    /\ nodeArcs = [n \in Nodes(problem) |-> NodeArcs(arcs, n)]
    /\ flow = [k \in DOMAIN arcs |-> 0]
    /\ height = [n \in Nodes(problem) |-> Height(problem, n)]
    /\ excess = [n \in Nodes(problem) |-> IF n = Source THEN Infinite ELSE 0]
    /\ next = [n \in Nodes(problem) |-> 1]
    /\ active = {Source}
    /\ node = None

\* Faulty variant of Residual: flow isn't returned.
ResidualOneWay(a) == IF a[2] THEN arcs[a[1]].capacity - flow[a[1]] ELSE 0

\* An arc, or the residual of one.
Residual(a) == IF a[2] THEN arcs[a[1]].capacity - flow[a[1]] ELSE flow[a[1]]
Target(a) == IF a[2] THEN arcs[a[1]].to ELSE arcs[a[1]].from

\* A highest node is popped of the heap.
Pop ==
    /\ node = None
    /\ \E n \in active :
         /\ \A o \in active : height[o] <= height[n]
         /\ node' = n
         /\ active' = active \ {n}
    /\ UNCHANGED <<net, flow, height, excess, next>>

\* Arcs from the next one on along which flow may be pushed downhill.
Admissible(n) ==
    {j \in next[n]..Len(nodeArcs[n]) :
        /\ Residual(nodeArcs[n][j]) > 0
        /\ height[n] > height[Target(nodeArcs[n][j])]}

Delta(a) == Min({excess[node], Residual(a)})

Push ==
    /\ node # None /\ excess[node] > 0 /\ Admissible(node) # {}
    /\ LET j == Min(Admissible(node))
           a == nodeArcs[node][j]
           delta == Delta(a)
           to == Target(a)
       IN  /\ flow' = [flow EXCEPT ![a[1]] = IF a[2] THEN @ + delta ELSE @ - delta]
           /\ excess' = [excess EXCEPT ![node] = @ - delta, ![to] = @ + delta]
           /\ active' = IF excess'[to] = delta /\ to # Sink THEN active \union {to} ELSE active
           /\ next' = [next EXCEPT ![node] = j + 1]
    /\ UNCHANGED <<net, height, node>>

\* Heights of neighbours to which flow could be pushed.
Neighbours(n) ==
    {height[Target(a)] : a \in {b \in ToSet(nodeArcs[n]) : Residual(b) > 0}}

Relabelled(n) == Min(Neighbours(n)) + 1

Relabel ==
    /\ node # None /\ excess[node] > 0
    /\ Admissible(node) = {} /\ Neighbours(node) # {}
    /\ height' = [height EXCEPT ![node] = Relabelled(node)]
    /\ next' = [next EXCEPT ![node] = 1]
    /\ UNCHANGED <<net, flow, excess, active, node>>

\* The node has no excess left or, if it's the source, no arc left.
Return ==
    /\ node # None
    /\ excess[node] = 0 \/ Admissible(node) \union Neighbours(node) = {}
    /\ node' = None
    /\ UNCHANGED <<net, flow, height, excess, next, active>>

Next == Pop \/ Push \/ Relabel \/ Return

Spec == Init /\ [][Next]_vars /\ WF_vars(Next)

Solved == active = {} /\ node = None
-----------------------------------------------------------------------------
\* The types of the variables.
TypeOK ==
    /\ flow \in [DOMAIN arcs -> Nat]
    /\ height \in [Nodes(problem) -> Nat] /\ excess \in [Nodes(problem) -> Nat]
    /\ next \in [Nodes(problem) -> Nat]
    /\ active \subseteq Nodes(problem) /\ node \in Nodes(problem) \union {None}

\* The solution is a largest assignment within the constraints of items, zones and members.
Largest == Extracted(arcs, flow) \in Desired(problem)

\* Flow is within capacities, nodes have as excess what flows in and not out, and those which have
\* some are on the heap or are being discharged, so that FindMaxFlow doesn't panic over a node
\* which it takes or leaves.
Preflow ==
    /\ \A k \in DOMAIN arcs : flow[k] \in 0..arcs[k].capacity
    /\ \A n \in Nodes(problem) \ {Source} :
         /\ excess[n] >= 0
         /\ excess[n] = Sum({k \in DOMAIN arcs : arcs[k].to = n}, LAMBDA k : flow[k])
                          - Sum({k \in DOMAIN arcs : arcs[k].from = n}, LAMBDA k : flow[k])
    /\ {n \in Nodes(problem) : excess[n] > 0} \subseteq active \union {node, Source, Sink}
    /\ \A n \in active : excess[n] > 0 /\ n # node

\* The solver keeps to a preflow and ends, with a largest assignment.
Solves == []Preflow /\ <>(Solved /\ Largest)
=============================================================================
