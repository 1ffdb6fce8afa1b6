---------------------------- MODULE FlowNetwork ----------------------------
(***************************************************************************)
(* The flow network of an allocation problem                               *)
(* (v2/pkg/allocator/flow_network.go).  Flow of an item passes through its *)
(* zones, to members and to the sink, and by an overflow node once the     *)
(* members' scaled limits are used up.  p.prior are current assignments.   *)
(***************************************************************************)
EXTENDS MaxAssignment, SequencesExt

Source == <<"source", 0, 0>>
Sink == <<"sink", 0, 0>>
Overflow == <<"overflow", 0, 0>>
ItemNode(i) == <<"item", i, 0>>
ZoneItem(i, z) == <<"zoneItem", i, z>>
MemberNode(m) == <<"member", m, 0>>

ZoneItems(p) == {ZoneItem(i, z) : i \in Items(p), z \in Zones(p)}
Nodes(p) ==
    {Source, Sink, Overflow} \union {ItemNode(i) : i \in Items(p)} \union ZoneItems(p)
        \union {MemberNode(m) : m \in Members(p)}

\* Labels are distances to the sink, but for the source and for the overflow node, which is just
\* low enough that flow takes it before it returns to the source.
Height(p, n) ==
    CASE n[1] = "source" -> Cardinality(Nodes(p))
      [] n[1] = "overflow" -> Cardinality(Nodes(p)) - 2
      [] n[1] = "item" -> 3
      [] n[1] = "zoneItem" -> 2
      [] n[1] = "member" -> 1
      [] n[1] = "sink" -> 0

\* An arc which was saturated comes first, and then one which had flow.
Priority(capacity, prevFlow) ==
    IF prevFlow >= capacity THEN 2 ELSE IF prevFlow > 0 THEN 1 ELSE 0
addArc(from, to, capacity, prevFlow) ==
    [from |-> from, to |-> to, capacity |-> capacity, priority |-> Priority(capacity, prevFlow)]

\* zoneScalingFactors, as numerator and denominator.
zoneScalingFactors(p, z) ==
    LET count == Cardinality(Items(p))
        fixed(y) == Min({count, ZoneSlots(p, y)})
        fixedSlots == Sum(Zones(p), fixed)
        itemRemainder == Max({0, Min({ItemSlots(p), MemberSlots(p)}) - fixedSlots})
        memberRemainder == Max({1, MemberSlots(p) - fixedSlots})
    IN  <<(memberRemainder - itemRemainder) * fixed(z) + itemRemainder * ZoneSlots(p, z),
          ZoneSlots(p, z) * memberRemainder>>

\* The share of its limit which a member is balanced to, rounded up.
Scaled(p, m) ==
    LET f == zoneScalingFactors(p, p.zone[m])
        scaled == p.limit[m] * f[1]
    IN  IF scaled = 0 THEN 0 ELSE (scaled + f[2] - 1) \div f[2]

Ordered(S) == SetToSortSeq(S, LAMBDA a, b : a < b)
Concat(F(_), S) == FlattenSeq([j \in 1..Cardinality(S) |-> F(Ordered(S)[j])])

buildItemArcs(p, i) ==
    LET toMember(z, m) == addArc(ZoneItem(i, z), MemberNode(m), 1, IF <<i, m>> \in p.prior THEN 1 ELSE 0)
        toZone(z) ==
            <<addArc(ItemNode(i), ZoneItem(i, z), SlotsOfZone(p, i),
                     Cardinality(MembersOf(p.prior, i) \intersect ZoneMembers(p, z)))>>
            \o Concat(LAMBDA m : <<toMember(z, m)>>, ZoneMembers(p, z))
    IN  <<addArc(Source, ItemNode(i), Slots(p, i), Cardinality(MembersOf(p.prior, i)))>>
        \o Concat(toZone, Zones(p))

Infinite == 2147483647

memberArcs(p, m) ==
    <<addArc(MemberNode(m), Sink, Scaled(p, m), Cardinality(ItemsOf(p.prior, m)))>>
    \o IF p.limit[m] > Scaled(p, m)
       THEN <<addArc(MemberNode(m), Overflow, p.limit[m] - Scaled(p, m), 0)>> ELSE <<>>

\* init: arcs, in the order of being added.
Arcs(p) ==
    <<addArc(Overflow, Sink, Infinite, 0)>>
    \o Concat(LAMBDA i : buildItemArcs(p, i), Items(p))
    \o Concat(LAMBDA m : memberArcs(p, m), Members(p))

\* SortNodeArcs: arcs of a node, and residuals of those which lead to it (which have the negative
\* priority), by priority and then as they were added.
NodeArcs(arcs, n) ==
    LET priority(a) == IF a[2] THEN arcs[a[1]].priority ELSE -arcs[a[1]].priority
        before(a, b) == \/ priority(a) > priority(b)
                        \/ priority(a) = priority(b) /\ a[1] < b[1]
    IN  SetToSortSeq({<<k, TRUE>> : k \in {k \in DOMAIN arcs : arcs[k].from = n}}
                       \union {<<k, FALSE>> : k \in {k \in DOMAIN arcs : arcs[k].to = n}}, before)

\* extractItemFlow, of all items.
Extracted(arcs, flow) ==
    {<<arcs[k].from[2], arcs[k].to[2]>> :
        k \in {k \in DOMAIN arcs : arcs[k].from[1] = "zoneItem" /\ flow[k] > 0}}
=============================================================================
