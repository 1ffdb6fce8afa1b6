---------------------------- MODULE MCFragments ----------------------------
(***************************************************************************)
(* The Spool of a journal replica, and the index of its Fragments, on      *)
(* small instances of SpoolLife and FragmentIndex.  The initial state      *)
(* chooses one (`part`), and only that one takes steps.  A peer's Spool    *)
(* may receive any well-formed proposal of at most MaxEnd bytes.           *)
(***************************************************************************)
EXTENDS SpoolLife

VARIABLES part, set, local, extent, stores, walk, reads

indexVars == <<set, local, extent, stores, walk, reads>>

\* A pipeline rolls the Spools of its brokers together, so that their Fragments begin
\* alike, and end apart where a broker left it.  Another pipeline rolled elsewhere, so
\* that Fragments overlap, and one holds what two others do.
OverlappingFragment ==
    {f \in [begin : 0..1, end : 0..3] : f.begin < f.end /\ f.end <= f.begin + 2}

I == INSTANCE FragmentIndex WITH
    spool <- extent, Fragments <- OverlappingFragment,
    StoreCount <- 2, Reads <- {"r1"}, MaxOffset <- 3, MaxStored <- 2

ASSUME I!FragmentIndexAssumption

MCContents == UNION {[1..n -> Byte] : n \in 0..MaxEnd}

MCProposals ==
    {[begin |-> b, end |-> b + Len(c), codec |-> k,
      sum |-> IF c = <<>> THEN ZeroSum ELSE SHA1(c)] :
        b \in 0..MaxEnd, c \in MCContents, k \in Codec}

MCChunks == {c \in MCContents : Len(c) \in 1..2}

MCInit == part \in {"spool", "index"} /\ Init /\ I!Init

MCNext ==
    /\ UNCHANGED part
    /\ \/ part = "spool" /\ Next /\ UNCHANGED indexVars
       \/ part = "index" /\ I!Next /\ UNCHANGED vars

MCSpec ==
    /\ MCInit /\ [][MCNext]_<<part, vars, indexVars>>
    /\ WF_indexVars(part = "index" /\ I!Query("r1"))

-----------------------------------------------------------------------------
\* FragmentIndex: ReplaceRemote doesn't panic, since what CoverSetDifference keeps isn't
\* covered already.
ReplacesCleanly == I!ReplacesCleanly

\* FragmentIndex: no step takes an offset out of the index.
NeverForgets == I!NeverForgets

\* FragmentIndex: a read is answered at its offset, or after it if what's between isn't in
\* the index.
ReadsForward == I!ReadsForward

\* FragmentIndex: a read of an offset which is, or comes to be, in the index is answered or
\* ends.
ReadsAnswered == part = "index" => I!ReadsAnswered
=============================================================================
