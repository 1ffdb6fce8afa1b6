------------------------------ MODULE Segments ------------------------------
(***************************************************************************)
(* Segments of a recovery log (v2/pkg/recoverylog/segment.go): the ranges  *)
(* of sequence numbers, written by one Author, which hints ask a Player to *)
(* read.  `first` and `last` are the FirstSeqNo and LastSeqNo.  `begin` is *)
(* the FirstOffset, a lower bound on where the segment starts in the log.  *)
(* `end` is the LastOffset, or zero where it isn't known.  `sum` is the    *)
(* FirstChecksum.                                                          *)
(***************************************************************************)
EXTENDS Integers, SequencesExt

Valid(s) ==
    /\ s.first > 0 /\ s.begin >= 0
    /\ s.last >= s.first
    /\ s.end = 0 \/ s.end > s.begin

nonZeroAndLess(a, b) == a # 0 /\ a < b

-----------------------------------------------------------------------------
(* reduceSegment of two segments: their reduction, that they are not       *)
(* reducible, or that they are inconsistent.  Ordered puts first the one   *)
(* with the smaller FirstSeqNo and, of equal ones, the longer.             *)

Ordered(a, b) ==
    IF a.first > b.first \/ (a.first = b.first /\ a.last < b.last)
    THEN <<b, a>> ELSE <<a, b>>

Inconsistent(a, b) ==
    \/ a.first < b.first /\ a.begin > b.begin
    \/ a.first < b.first /\ a.end = 0 /\ b.end # 0
    \/ a.last <= b.last /\ nonZeroAndLess(b.end, a.end)
    \/ a.last >= b.last /\ nonZeroAndLess(a.end, b.end)
    \/ a.first = b.first /\ a.sum # b.sum

Apart(a, b) ==
    \/ a.last + 1 < b.first
    \/ a.last + 1 = b.first /\ a.author # b.author

\* The tighter lower bound, a LastOffset if there is one, and the farther end.
Merged(a, b) ==
    [a EXCEPT !.begin = IF a.first = b.first /\ a.begin < b.begin THEN b.begin ELSE @,
              !.last  = IF a.last < b.last THEN b.last ELSE @,
              !.end   = IF a.last < b.last \/ (a.last = b.last /\ a.end = 0) THEN b.end ELSE @]

Reduced(a, b) ==
    IF Inconsistent(a, b)       THEN [is |-> "error"]
    ELSE IF Apart(a, b)         THEN [is |-> "apart"]
    ELSE IF a.author # b.author THEN [is |-> "error"]
    ELSE [is |-> "reduced", segment |-> Merged(a, b)]

reduceSegment(x, y) == LET o == Ordered(x, y) IN Reduced(o[1], o[2])

-----------------------------------------------------------------------------
(* A SegmentSet is a sequence of segments, or "error" once one which would *)
(* make it inconsistent was added.                                         *)

\* The reduction of the segment with those of the set in [begin, end), for each `end`.
Reductions(set, seg, begin) ==
    LET absorb[end \in begin..(Len(set) + 1)] ==
            IF end = begin THEN [is |-> "reduced", segment |-> seg]
            ELSE LET r == absorb[end - 1]
                 IN  IF r.is # "reduced" THEN r ELSE reduceSegment(set[end - 1], r.segment)
    IN  absorb

\* Splice it in place of the set's [begin, end).
Splice(set, begin, end, absorb) ==
    IF end <= Len(set) /\ absorb[end + 1].is = "error" THEN "error"
    ELSE SubSeq(set, 1, begin - 1) \o <<absorb[end].segment>> \o SubSeq(set, end, Len(set))

\* Reduce it with those of the set for as long as they are reducible.
Absorb(set, seg, begin) ==
    LET absorb == Reductions(set, seg, begin)
    IN  Splice(set, begin, Max({e \in DOMAIN absorb : absorb[e].is = "reduced"}), absorb)

\* Add the segment before `begin`, where `prev` is its reduction with the one before that.
AddAt(set, seg, begin, prev) ==
    IF ~Valid(seg) \/ prev.is = "error" THEN "error"
    ELSE IF prev.is = "reduced" THEN Absorb(set, prev.segment, begin - 1)
    ELSE Absorb(set, seg, begin)

Add(set, seg) ==
    LET begin == Min({i \in DOMAIN set : set[i].first >= seg.first} \cup {Len(set) + 1})
    IN  AddAt(set, seg, begin, IF begin > 1 THEN reduceSegment(set[begin - 1], seg)
                               ELSE [is |-> "apart"])

\* The segments which overlap with the range [first, last) of the log.
Intersect(set, first, last) ==
    LET starts == {i \in DOMAIN set : set[i].begin >= last}
        j == IF starts = {} THEN Len(set) + 1 ELSE Min(starts)
        ended == {i \in 1..(j - 1) : set[i].end # 0 /\ set[i].end <= first}
        i == IF ended = {} THEN 1 ELSE 1 + Max(ended)
    IN  SubSeq(set, i, j - 1)
=============================================================================
