-------------------------------- MODULE FSM --------------------------------
(***************************************************************************)
(* The state machine over RecordedOps (v2/pkg/recoverylog/fsm.go) which    *)
(* both a Recorder and a Player step, and the hints which it builds.       *)
(*                                                                         *)
(* An op is [author, seq, sum, kind, fnode, path].  Its checksum, a running*)
(* CRC over the frames before it, is taken to be injective: `sum` is the   *)
(* sequence of Authors of ops 1..(seq - 1) of its history, since an Author *)
(* writes at most one op of each sequence number.  The meta-fields begin   *)
(* and end are the op's FirstOffset and LastOffset.                        *)
(***************************************************************************)
EXTENDS Segments

\* The file which is kept as a property, and isn't tracked as an Fnode.
IDENTITY == "IDENTITY"

NoHints == [nodes |-> <<>>, props |-> <<>>]

-----------------------------------------------------------------------------
(* LiveLogSegments and NewFSM.  Hints hold, for each live Fnode, ordered   *)
(* on Fnode, its segments, and the content of properties.                  *)

\* The hinted Fnodes and their SegmentSet, which is "error" if the hints are
\* not consistent.
LiveLogSegments(hints) ==
    LET AddNode(set, n) ==
            IF set = "error" \/ n.segments = <<>> \/ n.segments[1].first # n.fnode THEN "error"
            ELSE FoldLeft(LAMBDA t, s : IF t = "error" THEN t ELSE Add(t, s), set, n.segments)
        ordered == \A i \in 2..Len(hints.nodes) : hints.nodes[i - 1].fnode < hints.nodes[i].fnode
    IN  [fnodes |-> [i \in DOMAIN hints.nodes |-> hints.nodes[i].fnode],
         set    |-> IF ordered THEN FoldLeft(AddNode, <<>>, hints.nodes) ELSE "error"]

FSMOf(live, props) ==
    [next   |-> IF live.set = <<>> THEN 1 ELSE live.set[1].first,
     sum    |-> IF live.set = <<>> THEN <<>> ELSE live.set[1].sum,
     props  |-> props,
     nodes  |-> <<>>,
     hintedSegments |-> live.set,
     hintedFnodes   |-> live.fnodes]

NewFSM(hints) == FSMOf(LiveLogSegments(hints), hints.props)

hasRemainingHints(m) == m.hintedSegments # <<>> \/ m.hintedFnodes # <<>>

-----------------------------------------------------------------------------
(* Apply.  m.nodes maps a live Fnode to its links and its segments.        *)

Live(m) == DOMAIN m.nodes
Linked(m, path) == \E f \in Live(m) : path \in m.nodes[f].links
FnodeAt(m, path) == CHOOSE f \in Live(m) : path \in m.nodes[f].links
Taken(m, path) == Linked(m, path) \/ path \in DOMAIN m.props

extendSegments(s, op) ==
    IF s # <<>> /\ Last(s).author = op.author
    THEN [s EXCEPT ![Len(s)].last = op.seq, ![Len(s)].end = op.end]
    ELSE Append(s, [author |-> op.author, first |-> op.seq, begin |-> op.begin,
                    sum |-> op.sum, last |-> op.seq, end |-> op.end])

\* node f of m, with its links and extended by op.
Extend(m, f, links, op) ==
    [m EXCEPT !.nodes = (f :> [links    |-> links,
                               segments |-> extendSegments(IF f \in Live(m) THEN m.nodes[f].segments
                                                           ELSE <<>>, op)]) @@ @]

Ok(m) == [err |-> "nil", fsm |-> m]
Err(m, err) == [err |-> err, fsm |-> m]

applyCreate(m, op) ==
    IF Taken(m, op.path) THEN Err(m, "exists")
    ELSE IF m.hintedFnodes # <<>> /\ Head(m.hintedFnodes) # op.seq THEN Err(m, "not tracked")
    ELSE Ok(Extend([m EXCEPT !.hintedFnodes = IF @ = <<>> THEN @ ELSE Tail(@)],
                   op.seq, {op.path}, op))

applyLink(m, op) ==
    IF Taken(m, op.path) THEN Err(m, "exists")
    ELSE IF op.fnode \notin Live(m) THEN Err(m, "not tracked")
    ELSE Ok(Extend(m, op.fnode, m.nodes[op.fnode].links \cup {op.path}, op))

applyUnlink(m, op) ==
    IF op.fnode \notin Live(m) THEN Err(m, "not tracked")
    ELSE LET links == m.nodes[op.fnode].links \ {op.path}
         IN  IF op.path \notin m.nodes[op.fnode].links THEN Err(m, "no such link")
             ELSE IF links = {} THEN Ok([m EXCEPT !.nodes = Restrict(@, Live(m) \ {op.fnode})])
             ELSE Ok(Extend(m, op.fnode, links, op))

applyWrite(m, op) ==
    IF op.fnode \notin Live(m) THEN Err(m, "not tracked")
    ELSE Ok(Extend(m, op.fnode, m.nodes[op.fnode].links, op))

\* The content of a property is the Fnode whose content it was set from.
applyProperty(m, op) ==
    IF Linked(m, op.path) \/ (op.path \in DOMAIN m.props /\ m.props[op.path] # op.fnode)
    THEN Err(m, "exists")
    ELSE Ok([m EXCEPT !.props = (op.path :> op.fnode) @@ @])

ApplyKind(m, op) ==
    IF op.kind = "create" THEN applyCreate(m, op)
    ELSE IF m.hintedFnodes # <<>> /\ Head(m.hintedFnodes) = op.seq THEN Err(m, "expected create")
    ELSE CASE op.kind = "link"     -> applyLink(m, op)
           [] op.kind = "unlink"   -> applyUnlink(m, op)
           [] op.kind = "write"    -> applyWrite(m, op)
           [] op.kind = "property" -> applyProperty(m, op)
           [] op.kind = "noop"     -> Ok(m)

\* The next expected op: when a hinted segment is exhausted, the first op of
\* the segment after it.
Step(m, op) ==
    LET done == m.hintedSegments # <<>> /\ Head(m.hintedSegments).last < m.next + 1
        rest == IF done THEN Tail(m.hintedSegments) ELSE m.hintedSegments
        skip == done /\ rest # <<>>
    IN  [m EXCEPT !.hintedSegments = rest,
                  !.next = IF skip THEN rest[1].first ELSE @ + 1,
                  !.sum  = IF skip THEN rest[1].sum ELSE Append(@, op.author)]

\* The result of Apply, where that of the op's kind is r.
Stepped(m, op, r) ==
    IF r.err \notin {"nil", "not tracked"} THEN Err(m, r.err)
    ELSE [r EXCEPT !.fsm = Step(@, op)]

\* Faulty variant of Apply: takes an op of any author at the next number.
ApplyAnySum(m, op) ==
    IF m.hintedSegments # <<>> /\ Head(m.hintedSegments).author # op.author
    THEN Err(m, "not hinted author")
    ELSE IF op.seq # m.next THEN Err(m, "wrong seqno")
    ELSE Stepped(m, op, ApplyKind(m, op))

\* Apply returns an error and the FSM, which made a transition if there was no
\* error, or if the op's Fnode isn't tracked.
Apply(m, op) ==
    IF m.hintedSegments # <<>> /\ Head(m.hintedSegments).author # op.author
    THEN Err(m, "not hinted author")
    ELSE IF op.seq # m.next THEN Err(m, "wrong seqno")
    ELSE IF op.sum # m.sum THEN Err(m, "checksum mismatch")
    ELSE Stepped(m, op, ApplyKind(m, op))

BuildHints(m) ==
    LET fnodes == SetToSortSeq(Live(m), <)
    IN  [nodes |-> [i \in DOMAIN fnodes |->
                       [fnode |-> fnodes[i], segments |-> m.nodes[fnodes[i]].segments]],
         props |-> m.props]
=============================================================================
