--------------------------- MODULE MaxAssignment ---------------------------
(***************************************************************************)
(* What the allocator's solver promises of an allocation problem: a        *)
(* largest assignment of items to members, within the replication of each  *)
(* item, its share of a failure zone and the limit of each member.         *)
(*                                                                         *)
(* A problem p has p.items, the desired replication of each item; p.limit, *)
(* the item limit of each member; and p.zone, the zone of each.            *)
(***************************************************************************)
EXTENDS Integers, FiniteSets, FiniteSetsExt

Items(p) == DOMAIN p.items
Members(p) == DOMAIN p.limit
Zones(p) == {p.zone[m] : m \in Members(p)}
Sum(S, Of(_)) == MapThenSumSet(Of, S)

ZoneMembers(p, z) == {m \in Members(p) : p.zone[m] = z}
ZoneSlots(p, z) == Sum(ZoneMembers(p, z), LAMBDA m : p.limit[m])
MemberSlots(p) == Sum(Members(p), LAMBDA m : p.limit[m])
ItemSlots(p) == Sum(Items(p), LAMBDA i : p.items[i])

\* A zone is effective if it can hold all items and one more.
EffectiveZones(p) == Cardinality({z \in Zones(p) : ZoneSlots(p, z) > Cardinality(Items(p))})

\* Items are bound in order to the member slots which earlier ones left.
Slots(p, i) ==
    LET before == Sum({j \in Items(p) : j < i}, LAMBDA j : p.items[j])
    IN  Max({0, Min({p.items[i], MemberSlots(p) - before})})

\* Of a zone an item has one slot less, if there are other effective zones.
SlotsOfZone(p, i) ==
    IF Slots(p, i) > 1 /\ EffectiveZones(p) > 1 THEN Slots(p, i) - 1 ELSE Slots(p, i)

MembersOf(D, i) == {m \in {d[2] : d \in D} : <<i, m>> \in D}
ItemsOf(D, m) == {i \in {d[1] : d \in D} : <<i, m>> \in D}

\* Members which an item may be assigned to together.
Placements(p, i) ==
    {S \in UNION {kSubset(k, Members(p)) : k \in 0..Slots(p, i)} : \A z \in Zones(p) :
        Cardinality(S \intersect ZoneMembers(p, z)) <= SlotsOfZone(p, i)}

Assignments(p) ==
    LET Extend(i, Ds) == {D \union {<<i, m>> : m \in S} : D \in Ds, S \in Placements(p, i)}
        placed == FoldSet(Extend, {{}}, Items(p))
    IN  {D \in placed : \A m \in Members(p) : Cardinality(ItemsOf(D, m)) <= p.limit[m]}

Desired(p) ==
    LET all == Assignments(p)
        most == Max({Cardinality(D) : D \in all})
    IN  {D \in all : Cardinality(D) = most}
=============================================================================
