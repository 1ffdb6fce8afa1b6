------------------------------ MODULE CoverSet ------------------------------
(***************************************************************************)
(* A CoverSet (v2/pkg/fragment/cover_set.go): the Fragments of a journal   *)
(* which an index keeps, ordered on their End.  A Fragment is the range of *)
(* offsets [begin, end), with further fields which this module ignores.    *)
(***************************************************************************)
EXTENDS Integers, SequencesExt

Span(f) == f.begin..(f.end - 1)
Covered(s) == UNION {Span(s[i]) : i \in DOMAIN s}

EndOffset(s) == IF s = <<>> THEN 0 ELSE s[Len(s)].end

\* The first index for which a loop, or sort.Search, meets its condition: the
\* least of those in `found`, or else one past the set.
First(s, found) ==
    IF found = {} THEN Len(s) + 1 ELSE CHOOSE i \in found : \A j \in found : i <= j

FirstEndingAfter(s, offset) == First(s, {i \in DOMAIN s : s[i].end > offset})

\* Fragment g fully covers f, without being equal to it.
FullyCovers(g, f) ==
    \/ g.begin <= f.begin /\ g.end > f.end
    \/ g.begin < f.begin /\ g.end >= f.end

-----------------------------------------------------------------------------
(* Add returns the set, and whether it was updated to reflect the Fragment.*)

Unchanged(s) == [set |-> s, updated |-> FALSE]
Updated(s) == [set |-> s, updated |-> TRUE]

\* The Fragment replaces or is sequenced after the last one.
AddLast(s, f) ==
    IF s[Len(s)].begin >= f.begin THEN [s EXCEPT ![Len(s)] = f] ELSE Append(s, f)

\* The slow path: splice the Fragment in place of those it covers, the entries
\* from rBegin up to but not including rEnd.
Splice(s, f) ==
    LET from   == FirstEndingAfter(s, f.begin)
        rBegin == First(s, {i \in from..Len(s) : FullyCovers(s[i], f) \/ s[i].begin >= f.begin})
        rEnd   == First(s, {i \in rBegin..Len(s) : s[i].end > f.end})
    IN  IF rBegin <= Len(s) /\ FullyCovers(s[rBegin], f) THEN Unchanged(s)
        ELSE Updated(SubSeq(s, 1, rBegin - 1) \o <<f>> \o SubSeq(s, rEnd, Len(s)))

Add(s, f) ==
    IF f.begin = f.end           THEN Unchanged(s)
    ELSE IF s = <<>>             THEN Updated(<<f>>)
    ELSE IF EndOffset(s) < f.end THEN Updated(AddLast(s, f))
    ELSE Splice(s, f)

-----------------------------------------------------------------------------
(* LongestOverlappingFragment: the index of a Fragment covering the offset *)
(* or of the next one after it, and whether it covers the offset.          *)

Longest(s, offset) ==
    LET ind == FirstEndingAfter(s, offset)
    IN  First(s, {i \in ind..Len(s) : i = Len(s) \/ s[i + 1].begin > offset})

Found(s, offset) ==
    LET ind == FirstEndingAfter(s, offset)
    IN  ind <= Len(s) /\ s[ind].begin <= offset

-----------------------------------------------------------------------------
(* CoverSetDifference: the Fragments of a which aren't covered by b, where *)
(* a sequence of contiguous or overlapping Fragments of b may together     *)
(* cover one of a.                                                         *)

\* b, skipped forward to the Fragment which is longest at `offset`.
SkipTo(b, offset) == SubSeq(b, Longest(b, offset), Len(b))

\* The end of the contiguous span of b from its first Fragment, followed no
\* further than to `end`.
SpanEnd(b, end) ==
    b[First(b, {i \in DOMAIN b : i = Len(b) \/ b[i].end >= end \/ b[i + 1].begin > b[i].end})].end

\* Faulty variant of IsCoveredBy: takes no account of where b begins.
IsCoveredByEndOf(f, b) == b # <<>> /\ f.end <= SpanEnd(b, f.end)

\* Faulty variant of IsCoveredBy: doesn't take an equal begin to be covered.
IsCoveredByInside(f, b) == b # <<>> /\ f.begin > b[1].begin /\ f.end <= SpanEnd(b, f.end)

IsCoveredBy(f, b) == b # <<>> /\ f.begin >= b[1].begin /\ f.end <= SpanEnd(b, f.end)

CoverSetDifference(a, b) ==
    LET step(acc, f) ==
            LET rest == SkipTo(acc.b, f.begin)
            IN  [b |-> rest, out |-> IF IsCoveredBy(f, rest) THEN acc.out ELSE Append(acc.out, f)]
    IN  FoldLeft(step, [b |-> b, out |-> <<>>], a).out
=============================================================================
