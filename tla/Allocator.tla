----------------------------- MODULE Allocator -----------------------------
(***************************************************************************)
(* The allocator (v2/pkg/allocator): members announce themselves in Etcd   *)
(* under a lease, and the leader among them converges the assignments of   *)
(* items (journals or shards) towards a desired maximum assignment, by     *)
(* checked transactions which it builds from its view of Etcd.             *)
(***************************************************************************)
EXTENDS MaxAssignment, SequencesExt

CONSTANTS
    Item,           \* items, as naturals in the order of their IDs
    Member,         \* members, as naturals in the order of their keys
    ItemLimit,      \* the limit which each member announces
    Announced,      \* members which are there at first, in order
    Replication,    \* desired replication of the items which are there at first
    Assigned,       \* the assignments there are at first, all of them consistent
    Changes,        \* sets of changes to members and items and of errors of transactions, of
                    \* one of which each may happen once
    maxTxnOps,      \* operations or comparisons of a transaction
    MaxLag          \* bound: revisions by which a view may be behind Etcd

ASSUME AllocatorAssumption ==
    /\ Item \subseteq Nat /\ Member \subseteq Nat
    /\ ItemLimit \in [Member -> Nat]
    /\ maxTxnOps \in Nat \ {0} /\ MaxLag \in Nat

VARIABLES
    hist,       \* Etcd, at each revision which the leader may yet observe
    wait,       \* index of hist from which it may
    todo,       \* changes which didn't happen yet
    round,      \* of each member's Allocate: transactions of its converge iteration
    solved,     \* of each member's Allocate: its desired assignments, and of which network
    late,       \* transactions which failed with an error, and may take effect yet
    overtaken   \* whether one took effect which was built on a view that is
                \* behind another transaction of its leader

vars == <<hist, wait, todo, round, solved, late, overtaken>>

\* Etcd, at its last revision.  Members are in the order of their creation.  ModRevisions are
\* stood for by the keys which each revision modified.
etcd == Last(hist)

\* An assignment key names an item, a member and a slot.
AssignmentsOf(v, i) == {k \in DOMAIN v.asn : k[1] = i}
AssignmentsTo(v, m) == {k \in DOMAIN v.asn : k[2] = m}
IsConsistent(v, k) == v.asn[k]
Replicas(v, i) == Cardinality({k \in AssignmentsOf(v, i) : IsConsistent(v, k)})

Without(f, S) == Restrict(f, DOMAIN f \ S)
With(f, x, value) == [y \in DOMAIN f \union {x} |-> IF y = x THEN value ELSE f[y]]

MemberKey(m) == <<"member", m>>
ItemKey(i) == <<"item", i>>
AssignmentKey(k) == <<"assignment", k>>

\* `stale` is of keys which were modified since the iteration's view.  `overtaken` is whether a
\* transaction of another iteration took effect since.
Idle == [txns |-> <<>>, stale |-> {}, overtaken |-> FALSE]
Unsolved == [network |-> <<>>, desired |-> {}]

Init ==
    /\ hist = <<[order |-> Announced,
                 limit |-> [m \in ToSet(Announced) |-> ItemLimit[m]],
                 items |-> Replication,
                 asn |-> [k \in Assigned |-> TRUE],
                 modified |-> {}, allocated |-> FALSE]>>
    /\ wait = 1
    /\ todo \in Changes
    /\ round = [m \in Member |-> Idle]
    /\ solved = [m \in Member |-> Unsolved]
    /\ late = {} /\ overtaken = FALSE
-----------------------------------------------------------------------------
\* observe: what members have of the items.
TotalCount(v) ==
    [m \in DOMAIN v.limit |->
        Cardinality({k \in AssignmentsTo(v, m) : k[1] \in DOMAIN v.items})]
PrimaryCount(v) ==
    [m \in DOMAIN v.limit |->
        Cardinality({k \in AssignmentsTo(v, m) : k[1] \in DOMAIN v.items /\ k[3] = 0})]

NetworkHash(v) == <<v.limit, v.items>>

isLeader(v, m) == v.order # <<>> /\ Head(v.order) = m

shouldExit(v, m) == v.limit[m] = 0 /\ TotalCount(v)[m] = 0

\* memberLoadRatio, as a fraction.  Over a limit of zero it's infinite or, if the count is zero
\* also, not a number: no ratio is then lower than it, nor is it lower than any.
memberLoadRatio(v, m, counts) == <<counts[m], v.limit[m]>>
Lower(r, s) == r[1] * s[2] < s[1] * r[2]

\* The problem to solve.  Members are of one failure zone.
Problem(v) == [items |-> v.items, limit |-> v.limit, zone |-> [m \in DOMAIN v.limit |-> 1]]
-----------------------------------------------------------------------------
\* Keys are in natural order of the member, and then of the slot.
Natural(k, l) == k[2] < l[2] \/ (k[2] = l[2] /\ k[3] < l[3])

\* init: the assignments to add, of slots above those in use...
Added(v, i, desired) ==
    LET cur == AssignmentsOf(v, i)
        nextSlot == IF cur = {} THEN 0 ELSE 1 + Max({k[3] : k \in cur})
        new == {m \in Member : <<i, m>> \in desired /\ ~\E k \in cur : k[2] = m}
    IN  SetToSortSeq({<<i, m, nextSlot + Cardinality({n \in new : n < m})>> : m \in new}, Natural)

\* ... those to keep, and those to remove.
Kept(v, i, desired) ==
    {k \in AssignmentsOf(v, i) : /\ <<i, k[2]>> \in desired
                                 /\ \A l \in AssignmentsOf(v, i) : l[2] = k[2] => k[3] <= l[3]}
Removable(v, i, desired, total) ==
    LET ratio(k) == memberLoadRatio(v, k[2], total)
        before(k, l) == \/ Lower(ratio(l), ratio(k))
                        \/ ~Lower(ratio(k), ratio(l)) /\ Natural(k, l)
    IN  SetToSortSeq(AssignmentsOf(v, i) \ Kept(v, i, desired), before)

\* Faulty variant of constrainRemovals: counts assignments which aren't consistent.
constrainRemovalsOfAny(v, i, remove) ==
    LET left(n) == Cardinality(AssignmentsOf(v, i)) - n
    IN  SubSeq(remove, 1, Min({n \in 0..Len(remove) : n = Len(remove) \/ left(n) <= v.items[i]}))

\* constrainRemovals: assignments are released in order, while the item's replication is kept.
constrainRemovals(v, i, remove) ==
    LET r == v.items[i]
        consistent(n) == Cardinality({j \in 1..n : IsConsistent(v, remove[j])})
        left(n) == Replicas(v, i) - consistent(n)
        halts(n) == \/ n = Len(remove) \/ left(n) < r
                    \/ left(n) = r /\ IsConsistent(v, remove[n + 1])
    IN  SubSeq(remove, 1, Min({n \in 0..Len(remove) : halts(n)}))

\* constrainReorders: assignments by their slot and, if none of them is primary, one to promote
\* is first: a consistent one, of a member of lower primary load.
BetterPrimary(v, primary, k, best) ==
    \/ IsConsistent(v, k) /\ ~IsConsistent(v, best)
    \/ /\ IsConsistent(v, k) = IsConsistent(v, best)
       /\ Lower(memberLoadRatio(v, k[2], primary), memberLoadRatio(v, best[2], primary))
constrainReorders(v, reorder, primary) ==
    LET slots == SetToSortSeq(reorder, LAMBDA k, l : k[3] < l[3])
        best == FoldLeft(LAMBDA b, k : IF BetterPrimary(v, primary, k, b) THEN k ELSE b,
                         slots[1], slots)
    IN  IF slots = <<>> \/ slots[1][3] = 0 THEN slots
        ELSE <<best>> \o SelectSeq(slots, LAMBDA k : k # best)

\* Faulty variant of constrainAdds: takes a limit to be what may be exceeded.
constrainAddsOverLimit(v, add, total) ==
    SelectSeq(add, LAMBDA k : v.limit[k[2]] >= total[k[2]])

\* constrainAdds: members which are at their limit aren't added to.
constrainAdds(v, add, total) ==
    SelectSeq(add, LAMBDA k : v.limit[k[2]] > total[k[2]])
-----------------------------------------------------------------------------
\* A comparison is of a key, which mustn't have been modified since the view.
Put(k, ok) == [put |-> TRUE, key |-> k, ok |-> ok]
Delete(k) == [put |-> FALSE, key |-> k, ok |-> FALSE]

buildAddOps(v, add) ==
    [cmps |-> [j \in DOMAIN add |-> MemberKey(add[j][2])],
     ops |-> [j \in DOMAIN add |-> Put(add[j], FALSE)]]
buildRemoveOps(v, i, remove) ==
    [cmps |-> (IF remove = <<>> THEN <<>> ELSE <<ItemKey(i)>>)
                \o [j \in DOMAIN remove |-> AssignmentKey(remove[j])],
     ops |-> [j \in DOMAIN remove |-> Delete(remove[j])]]

\* The same value is moved to another key.
buildMoveOps(v, k, slot) ==
    [cmps |-> <<AssignmentKey(k)>>,
     ops |-> <<Delete(k), Put(<<k[1], k[2], slot>>, v.asn[k])>>]

NoOps == [cmps |-> <<>>, ops |-> <<>>]
buildPromoteOps(v, reorder) ==
    IF reorder = <<>> \/ reorder[1][3] = 0 THEN NoOps ELSE buildMoveOps(v, reorder[1], 0)

\* Faulty variant of buildPackOps: overlooks the last assignment.
buildPackOpsButLast(v, reorder) ==
    LET loose == {j \in 2..Len(reorder) - 1 : reorder[j][3] # j - 1}
    IN  IF loose = {} THEN NoOps ELSE buildMoveOps(v, reorder[Min(loose)], Min(loose) - 1)

buildPackOps(v, reorder) ==
    LET loose == {j \in 2..Len(reorder) : reorder[j][3] # j - 1}
    IN  IF loose = {} THEN NoOps ELSE buildMoveOps(v, reorder[Min(loose)], Min(loose) - 1)

Joined(a, b) == [cmps |-> a.cmps \o b.cmps, ops |-> a.ops \o b.ops]

\* Counts of members are updated as operations are built.
Counted(counts, add, remove, Counts(_)) ==
    [m \in DOMAIN counts |-> counts[m]
        + Cardinality({j \in DOMAIN add : add[j][2] = m /\ Counts(add[j])})
        - Cardinality({j \in DOMAIN remove : remove[j][2] = m /\ Counts(remove[j])})]

\* constrainAndBuildOps: a checkpoint for an item.
constrainAndBuildOps(v, desired, acc, i) ==
    LET removable == Removable(v, i, desired, acc.total)
        remove == constrainRemovals(v, i, removable)
        reorder == constrainReorders(v, AssignmentsOf(v, i) \ ToSet(remove), acc.primary)
        add == constrainAdds(v, Added(v, i, desired), acc.total)
        promote == buildPromoteOps(v, reorder)
        pack == IF add = <<>> /\ remove = <<>> THEN buildPackOps(v, reorder) ELSE NoOps
        promoted == IF promote = NoOps THEN add ELSE Append(add, <<i, reorder[1][2], 0>>)
    IN  [checkpoints |-> Append(acc.checkpoints,
             Joined(Joined(buildAddOps(v, add), buildRemoveOps(v, i, remove)), Joined(promote, pack))),
         total |-> Counted(acc.total, add, remove, LAMBDA k : TRUE),
         primary |-> Counted(acc.primary, promoted, remove, LAMBDA k : k[3] = 0)]

\* removeDeadAssignments: a checkpoint for an item which was deleted.
removeDeadAssignments(v, acc, i) ==
    LET dead == SetToSortSeq(AssignmentsOf(v, i), Natural)
    IN  IF dead = <<>> THEN acc
        ELSE [acc EXCEPT !.checkpoints = Append(@, buildRemoveOps(v, i, dead))]

\* converge walks items and assignments in order.
converge(v, desired) ==
    LET visit(acc, i) == IF i \in DOMAIN v.items THEN constrainAndBuildOps(v, desired, acc, i)
                         ELSE removeDeadAssignments(v, acc, i)
    IN  FoldLeft(visit, [checkpoints |-> <<>>, total |-> TotalCount(v), primary |-> PrimaryCount(v)],
                 SetToSortSeq(Item, LAMBDA i, j : i < j)).checkpoints

\* batchedTxn: the transactions by which Checkpoint and Commit issue the checkpoints, each with
\* the fixed comparisons.
Batched(checkpoints, fixedCmps) ==
    LET add(txns, c) ==
            LET t == Last(txns)
            IN  IF \/ Len(t.cmps) + Len(c.cmps) > maxTxnOps
                   \/ Len(t.ops) + Len(c.ops) > maxTxnOps
                THEN Append(txns, Joined([cmps |-> fixedCmps, ops |-> <<>>], c))
                ELSE Append(Front(txns), Joined(t, c))
    IN  FoldLeft(add, <<[cmps |-> fixedCmps, ops |-> <<>>]>>, checkpoints)
-----------------------------------------------------------------------------
\* A transaction is applied to Etcd, if its comparisons hold.
Succeeds(txn, stale) == ToSet(txn.cmps) \intersect stale = {}
Committed(db, txn) ==
    LET apply(asn, op) == IF op.put THEN With(asn, op.key, op.ok) ELSE Without(asn, {op.key})
    IN  [db EXCEPT !.asn = FoldLeft(apply, @, txn.ops),
                   !.modified = {AssignmentKey(txn.ops[j].key) : j \in DOMAIN txn.ops},
                   !.allocated = TRUE]

\* An iteration which is under way is behind by the modified keys, and so is a late transaction.
\* One whose comparisons no longer hold has no effect.
Behind(r, db) ==
    IF r.txns = <<>> THEN Idle
    ELSE [r EXCEPT !.stale = @ \union db.modified, !.overtaken = @ \/ db.allocated]
MayLand(r) == Succeeds(Head(r.txns), r.stale)
Later(delayed, db) == {r \in {Behind(d, db) : d \in delayed} : MayLand(r)}

\* Revisions are retained from the first which the leader may observe next.
Observable(h, from) ==
    LET first == Max({Min({from, Len(h)}), Len(h) - MaxLag})
    IN  /\ hist' = SubSeq(h, first, Len(h))
        /\ wait' = Max({from - first + 1, 1})

\* Revisions from before a leader was removed aren't of interest to the next.
Revise(db) ==
    LET leads == etcd.order = <<>> \/ db.order = <<>> \/ Head(etcd.order) = Head(db.order)
    IN  IF leads THEN Observable(Append(hist, db), wait) ELSE hist' = <<db>> /\ wait' = 1

\* Etcd is changed by another than a leader's transaction.
Change(put) ==
    LET db == [put EXCEPT !.allocated = FALSE]
    IN  /\ Revise(db)
        /\ round' = [m \in Member |-> Behind(round[m], db)]
        /\ late' = Later(late, db)
        /\ UNCHANGED overtaken

\* Allocate, of the leader.  It observed a revision which it waits for, and builds transactions
\* towards a desired assignment, which it solves for if the network changed.
Converge(m) ==
    \E n \in wait..Len(hist) :
        LET v == hist[n]
            since == {hist[j] : j \in n + 1..Len(hist)}
        IN  /\ round[m].txns = <<>>
            /\ isLeader(v, m) /\ ~shouldExit(v, m)
            /\ \E desired \in (IF NetworkHash(v) = solved[m].network THEN {solved[m].desired}
                               ELSE Desired(Problem(v))) :
                 /\ solved' = [solved EXCEPT ![m] =
                                  [network |-> NetworkHash(v), desired |-> desired]]
                 /\ round' = [round EXCEPT ![m] =
                                 [txns |-> Batched(converge(v, desired), <<MemberKey(m)>>),
                                  stale |-> UNION {db.modified : db \in since},
                                  overtaken |-> \E db \in since : db.allocated]]
            /\ Observable(hist, n + 1)
            /\ UNCHANGED <<todo, late, overtaken>>

\* The next revision to observe, once the transaction at the head is done.
Awaited(m, h) == IF Len(round[m].txns) = 1 /\ isLeader(etcd, m) THEN Max({wait, Len(h)}) ELSE wait

\* A transaction of the iteration is issued.  The response of the last is awaited by the next
\* iteration, whether or not it succeeded; those of earlier ones aren't.
Commit(m) ==
    LET txn == Head(round[m].txns)
        ok == Succeeds(txn, round[m].stale)
        revises == ok /\ txn.ops # <<>>
        db == Committed(etcd, txn)
        h == IF revises THEN Append(hist, db) ELSE hist
        left == IF ok THEN Tail(round[m].txns) ELSE <<>>
        own == [round[m] EXCEPT !.txns = left, !.stale = @ \union db.modified]
    IN  /\ round[m].txns # <<>>
        /\ round' = [n \in Member |-> IF n = m THEN IF left = <<>> THEN Idle ELSE own
                                      ELSE IF revises THEN Behind(round[n], db) ELSE round[n]]
        /\ late' = IF revises THEN Later(late, db) ELSE late
        /\ overtaken' = (overtaken \/ (revises /\ round[m].overtaken))
        /\ Observable(h, Awaited(m, h))
        /\ UNCHANGED <<todo, solved>>

\* A transaction fails with an error.  It may have taken effect, or may yet, or not.  The
\* iteration ends without a response to await: the next one needs only a later revision.
CommitFails(m) ==
    /\ round[m].txns # <<>>
    /\ <<"error">> \in todo
    /\ todo' = todo \ {<<"error">>}
    /\ late' = late \union {r \in {[round[m] EXCEPT !.txns = <<Head(@)>>]} : MayLand(r)}
    /\ round' = [round EXCEPT ![m] = Idle]
    /\ UNCHANGED <<hist, wait, solved, overtaken>>

\* It takes effect (external to the allocator).
Land(r) ==
    LET db == Committed(etcd, Head(r.txns))
    IN  /\ Head(r.txns).ops # <<>>
        /\ Observable(Append(hist, db), wait)
        /\ round' = [m \in Member |-> Behind(round[m], db)]
        /\ late' = Later(late \ {r}, db)
        /\ overtaken' = (overtaken \/ r.overtaken)
        /\ UNCHANGED <<todo, solved>>

\* Members leave with their keys, by which their assignments are removed also.
Left(m) ==
    [etcd EXCEPT !.order = SelectSeq(@, LAMBDA n : n # m),
                 !.limit = Without(@, {m}),
                 !.asn = Without(@, AssignmentsTo(etcd, m)),
                 !.modified = {MemberKey(m)} \union {AssignmentKey(k) : k \in AssignmentsTo(etcd, m)}]

\* shouldExit: a member which has no limit and no items returns from Allocate.  Its lease is
\* then closed.
Exit(m) ==
    /\ m \in DOMAIN etcd.limit /\ round[m].txns = <<>>
    /\ shouldExit(etcd, m)
    /\ solved' = [solved EXCEPT ![m] = Unsolved]
    /\ Change(Left(m))
    /\ UNCHANGED todo

\* The member of an assignment advertises that it's consistent (external to the allocator).
Advertise(k) ==
    /\ k \in DOMAIN etcd.asn /\ ~etcd.asn[k]
    /\ Change([etcd EXCEPT !.asn[k] = TRUE, !.modified = {AssignmentKey(k)}])
    /\ UNCHANGED <<todo, solved>>

Happens(change, db) ==
    /\ change \in todo
    /\ todo' = todo \ {change}
    /\ Change(db)
    /\ UNCHANGED solved

\* Announce, of a member which isn't there.
Announce(m) ==
    /\ m \notin DOMAIN etcd.limit
    /\ Happens(<<"announce", m>>, [etcd EXCEPT !.order = Append(@, m),
           !.limit = With(@, m, ItemLimit[m]), !.modified = {MemberKey(m)}])

\* A signal zeros the member's limit, by Update of its announcement.
ZeroLimit(m) ==
    /\ m \in DOMAIN etcd.limit
    /\ Happens(<<"signal", m>>, [etcd EXCEPT !.limit[m] = 0, !.modified = {MemberKey(m)}])

\* The member's lease expires.  Transactions it built may yet be issued.
Expire(m) ==
    /\ m \in DOMAIN etcd.limit
    /\ Happens(<<"expire", m>>, Left(m))

\* An item's specification is put or deleted.
Specify(i, r) ==
    Happens(<<"item", i, r>>, [etcd EXCEPT !.items = With(@, i, r), !.modified = {ItemKey(i)}])
Unspecify(i) ==
    /\ i \in DOMAIN etcd.items
    /\ Happens(<<"delete", i>>, [etcd EXCEPT !.items = Without(@, {i}), !.modified = {ItemKey(i)}])

Next ==
    \/ \E m \in Member : Converge(m) \/ Commit(m) \/ CommitFails(m) \/ Exit(m)
                            \/ Announce(m) \/ ZeroLimit(m) \/ Expire(m)
    \/ \E r \in late : Land(r)
    \/ \E k \in DOMAIN etcd.asn : Advertise(k)
    \/ \E i \in Item : Unspecify(i) \/ \E r \in 0..Cardinality(Member) : Specify(i, r)

Spec == Init /\ [][Next]_vars

\* Weak fairness of each Allocate loop, whose steps are spelled out: it may take one, or it does.
MayAllocate(m) ==
    \/ round[m].txns # <<>>
    \/ \E n \in wait..Len(hist) : isLeader(hist[n], m)
    \/ m \in DOMAIN etcd.limit /\ shouldExit(etcd, m)
Allocates(m) ==
    \/ Len(round'[m].txns) # Len(round[m].txns)
    \/ todo' = todo /\ m \in DOMAIN etcd.limit \ DOMAIN etcd'.limit

\* Allocators go on, and replicas become consistent.
Fairness ==
    /\ \A m \in Member : []<>(~MayAllocate(m)) \/ []<><<Allocates(m)>>_vars
    /\ WF_vars(\E k \in DOMAIN etcd.asn : Advertise(k))

FairSpec == Spec /\ Fairness
-----------------------------------------------------------------------------
\* The types of the variables.
TypeOK ==
    /\ \A j \in DOMAIN hist :
         /\ DOMAIN hist[j].limit = ToSet(hist[j].order) /\ IsInjective(hist[j].order)
         /\ DOMAIN hist[j].items \subseteq Item
         /\ DOMAIN hist[j].asn \subseteq Item \X (DOMAIN hist[j].limit) \X Nat
    /\ wait \in 1..Len(hist) + 1
    /\ \E changes \in Changes : todo \subseteq changes
    /\ \A m \in Member : solved[m].desired \subseteq Item \X Member

\* An item has one assignment to a member, and one of a slot: never two primaries.
SlotsDistinct ==
    \A k, l \in DOMAIN etcd.asn : k[1] = l[1] /\ k # l => k[2] # l[2] /\ k[3] # l[3]

\* A step doesn't assign items to a member beyond its limit.
KeepsLimits ==
    \A m \in DOMAIN etcd'.limit :
        Cardinality(AssignmentsTo(etcd', m)) >
            (IF m \in DOMAIN etcd.limit THEN Cardinality(AssignmentsTo(etcd, m)) ELSE 0)
        => TotalCount(etcd')[m] <= etcd'.limit[m]

\* Replicas of an item which went with their member, of those which a transaction built on.
GoneSince(i, stale) ==
    {key \in stale : /\ key[1] = "assignment" /\ key[2][1] = i
                     /\ key[2] \notin DOMAIN etcd.asn /\ key[2][2] \notin DOMAIN etcd.limit}

\* The transactions which a step issues, or which take effect by it.
Issued ==
    {round[m] : m \in {n \in Member : Len(round'[n].txns) < Len(round[n].txns)}}
        \union {r \in late \ late' : etcd' = Committed(etcd, Head(r.txns))}

\* A transaction doesn't remove a consistent assignment unless the item keeps its replication, but
\* for replicas which went with their member since the leader observed them.
KeepsReplicas ==
    \A r \in Issued, i \in DOMAIN etcd.items :
        Replicas(etcd', i) < Replicas(etcd, i) =>
            Replicas(etcd', i) >= etcd.items[i] - Cardinality(GoneSince(i, r.stale))

\* An assignment isn't put again: one which is consistent remains so while it's there.
KeepsValues ==
    \A k \in DOMAIN etcd.asn \intersect DOMAIN etcd'.asn : etcd.asn[k] => etcd'.asn[k]

\* What the allocator assigns fits items and members, until a leader builds on a view which is
\* behind a transaction of its own.
AssignmentsFit == [](~overtaken => SlotsDistinct) /\ [][~overtaken' => KeepsLimits]_vars

\* The allocator keeps replicas of items, until a leader builds on such a view.
KeepsReplication == [][~overtaken' => KeepsReplicas /\ KeepsValues]_vars

\* A change which converge makes never violates the replication of an item or the limit of a
\* member (allocator.go:140-144).
ChangesAreAllowed == [][KeepsLimits /\ KeepsReplicas]_vars

\* Once changes end each item reaches and keeps its replication, if members have room for that of
\* all of them: consistent assignments in contiguous slots from a primary on.  Nothing is assigned
\* of a deleted item, and signalled members have left.
Attainable ==
    \A S \in SUBSET DOMAIN etcd.items :
        Sum(S, LAMBDA i : etcd.items[i])
            <= Sum(DOMAIN etcd.limit, LAMBDA m : Min({etcd.limit[m], Cardinality(S)}))
Converged ==
    /\ \A k \in DOMAIN etcd.asn : etcd.asn[k] /\ k[1] \in DOMAIN etcd.items
    /\ \A i \in DOMAIN etcd.items :
         /\ Cardinality(AssignmentsOf(etcd, i)) = etcd.items[i]
         /\ {k[3] : k \in AssignmentsOf(etcd, i)} = 0..(etcd.items[i] - 1)
    /\ \A m \in DOMAIN etcd.limit : etcd.limit[m] > 0

\* An iteration ended with an error, and nothing changed since which would start another.
Stalled == \E r \in late : r.stale = {}
Converges == <>[](Attainable /\ ~Stalled => Converged)
=============================================================================
