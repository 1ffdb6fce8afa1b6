-------------------------- MODULE SpoolLifeProofs --------------------------
(***************************************************************************)
(* Theorems of SpoolLife, for every content, set of proposals, codecs and  *)
(* greatest offset.  They rest on one inductive invariant, Inv: a Spool is *)
(* consistent (SpoolOK) throughout, and unless a former primary may serve  *)
(* Replicate RPCs its compressor is in step with what it has committed.    *)
(***************************************************************************)
EXTENDS SpoolLife, SpoolProofs

\* A compressor is opened by a primary, and is in step with the Fragment as long
\* as only a primary commits to it.
CompressorInv ==
    /\ CompressorOK(spool)
    /\ spool.compressor # <<>> \/ owner = "pipeline" => wasPrimary
    /\ owner = "Replicate" => ~wasPrimary
    /\ PersistedMatchesSum

Inv ==
    /\ TypeOK
    /\ SpoolOK(spool)
    /\ ~MayDemote => CompressorInv

-----------------------------------------------------------------------------

\* The proposals a pipeline makes of its own Spool are well-formed Fragments.
LEMMA PrimaryProposalsType ==
    ASSUME SpoolOK(spool)
    PROVE  PrimaryProposals \subseteq Fragment
<1>1. spool.frag \in Fragment /\ spool.frag.end \in Nat /\ spool.frag.codec \in Codec
  BY SpoolFields
<1>2. NextFragment(spool) \in Fragment
  BY NextFragmentProperties
<1>3. \A c \in Codec : EmptyAt(spool.frag.end, c) \in Fragment
  BY <1>1, EmptyAtProperties
<1>4. ASSUME NEW o \in spool.frag.end..MaxEnd
      PROVE  EmptyAt(o, spool.frag.codec) \in Fragment
  <2>1. o \in Nat
    BY <1>1, SpoolLifeAssumption
  <2> QED
    BY <1>1, <2>1, EmptyAtProperties
<1> QED
  BY <1>1, <1>2, <1>3, <1>4 DEF PrimaryProposals

\* What is persisted of a Spool is content.
LEMMA CompletionType ==
    ASSUME SpoolOK(spool)
    PROVE  Completion(spool) \in [frag : Fragment, content : Seq(Byte)]
<1>1. /\ spool.frag \in Fragment /\ spool.file \in Seq(Byte)
      /\ ContentLength(spool.frag) \in 0..Len(spool.file)
      /\ spool.compressor \in Optional(Seq(Byte))
  BY SpoolFields
<1>2. CommittedContent(spool) \in Seq(Byte)
  BY <1>1, SectionProperties DEF CommittedContent
<1>3. spool.compressor # <<>> => spool.compressor[1] \in Seq(Byte)
  BY <1>1, OptionalProperties
<1>4. PersistedContent(spool) \in Seq(Byte)
  BY <1>2, <1>3 DEF PersistedContent, finishCompression
<1> QED
  BY <1>1, <1>4 DEF Completion

\* Applying any proposal keeps the Spool consistent and hands on well-formed
\* completions.
LEMMA ApplyType ==
    ASSUME TypeOK, SpoolOK(spool), NEW proposal \in Fragment, NEW primary \in BOOLEAN,
           Apply(proposal, primary)
    PROVE  /\ SpoolOK(spool') /\ spool' \in SpoolType
           /\ completed' \in SUBSET [frag : Fragment, content : Seq(Byte)]
<1>1. PICK ioErr \in BOOLEAN : spool' = applyCommit(spool, proposal, primary, ioErr)
  BY DEF Apply
<1>2. SpoolOK(spool')
  BY <1>1, ApplyCommitOK
<1>3. spool' \in SpoolType
  BY <1>2 DEF SpoolOK
<1>4. completed' \in SUBSET [frag : Fragment, content : Seq(Byte)]
  BY CompletionType DEF Apply, TypeOK
<1> QED
  BY <1>2, <1>3, <1>4

\* A Spool completed while its compressor is in step is persisted as it was
\* committed, under the Sum of that content.
LEMMA ApplyPersists ==
    ASSUME SpoolOK(spool), CompressorOK(spool), PersistedMatchesSum,
           NEW proposal, NEW primary, Apply(proposal, primary)
    PROVE  PersistedMatchesSum'
<1>1. PersistedContent(spool) = CommittedContent(spool)
  BY PersistedIsCommitted
<1>2. ContentLength(spool.frag) # 0 => spool.frag.sum = SHA1(CommittedContent(spool))
  BY DEF SpoolOK, SumOK
<1>3. Completes(spool, proposal) =>
        Completion(spool).frag.sum = SHA1(Completion(spool).content)
  BY <1>1, <1>2 DEF Completes, Completion
<1>4. \A c \in completed' :
        c \in completed \/ (Completes(spool, proposal) /\ c = Completion(spool))
  BY DEF Apply
<1> QED
  BY <1>3, <1>4 DEF PersistedMatchesSum

\* Applying a proposal keeps the compressor in step, if a primary applies it, if
\* there's no compressor, or if it rolls back.
LEMMA ApplyCompresses ==
    ASSUME SpoolOK(spool), CompressorOK(spool),
           NEW proposal \in Fragment, NEW primary \in BOOLEAN, Apply(proposal, primary),
           primary \/ spool.compressor = <<>> \/ RollsBack(spool, proposal)
    PROVE  /\ CompressorOK(spool')
           /\ ~primary /\ spool.compressor = <<>> => spool'.compressor = <<>>
<1>1. PICK ioErr \in BOOLEAN : spool' = applyCommit(spool, proposal, primary, ioErr)
  BY DEF Apply
<1> QED
  BY <1>1, ApplyCommitOK

-----------------------------------------------------------------------------
(* The invariant.                                                          *)

\* A new Spool satisfies the invariant.
LEMMA InitInv == Init => Inv
<1> SUFFICES ASSUME Init PROVE Inv
  OBVIOUS
<1>1. /\ EmptyAt(0, NONE) \in Fragment
      /\ EmptyAt(0, NONE).begin = EmptyAt(0, NONE).end
      /\ EmptyAt(0, NONE).sum = ZeroSum
  BY CodecAssumption, EmptyAtProperties
<1>2. SpoolOK(spool)
  BY <1>1, EmptiedOK DEF Init, NewSpool
<1>3. spool.compressor = <<>>
  BY DEF Init, NewSpool, Emptied
<1>4. TypeOK
  BY <1>2, Zenon DEF Init, TypeOK, SpoolOK, Owners
<1>5. CompressorInv
  BY <1>3 DEF Init, CompressorInv, CompressorOK, PersistedMatchesSum
<1> QED
  BY <1>2, <1>4, <1>5 DEF Inv

\* Each operation on the Spool preserves the invariant.
LEMMA NextInv == Inv /\ [Next]_vars => Inv'
<1> SUFFICES ASSUME Inv, [Next]_vars PROVE Inv'
  OBVIOUS
<1>1. TypeOK /\ SpoolOK(spool)
  BY DEF Inv
<1>2. CASE AcquireByPipeline
  BY <1>1, <1>2 DEF Inv, AcquireByPipeline, TypeOK, Owners, CompressorInv, PersistedMatchesSum
<1>3. CASE AcquireByReplicate
  BY <1>1, <1>3 DEF Inv, AcquireByReplicate, TypeOK, Owners, CompressorInv, PersistedMatchesSum
<1>4. ASSUME NEW content \in Chunks, NEW contentDelta \in 0..MaxEnd,
             Content(content, contentDelta)
      PROVE  Inv'
  <2>1. content \in Seq(Byte)
    BY SpoolLifeAssumption
  <2>2. /\ SpoolOK(spool') /\ spool'.frag = spool.frag
        /\ spool'.compressor = spool.compressor
        /\ CommittedContent(spool') = CommittedContent(spool)
    BY <1>1, <1>4, <2>1, ApplyContentOK DEF Content
  <2>3. UNCHANGED <<owner, wasPrimary, completed>>
    BY <1>4 DEF Content
  <2>4. TypeOK'
    BY <1>1, <2>2, <2>3 DEF TypeOK, SpoolOK
  <2>5. CompressorInv => CompressorInv'
    BY <2>2, <2>3 DEF CompressorInv, CompressorOK, PersistedMatchesSum
  <2> QED
    BY <2>2, <2>4, <2>5 DEF Inv
<1>5. ASSUME NEW proposal \in PrimaryProposals, ProposeByPipeline(proposal)
      PROVE  Inv'
  <2>1. proposal \in Fragment
    BY <1>1, PrimaryProposalsType
  <2>2. /\ owner = "pipeline" /\ Apply(proposal, TRUE) /\ UNCHANGED <<owner, wasPrimary>>
    BY <1>5, Zenon DEF ProposeByPipeline
  <2>3. SpoolOK(spool') /\ TypeOK'
    BY <1>1, <2>1, <2>2, ApplyType, Zenon DEF TypeOK
  <2>4. CompressorInv => CompressorInv'
    <3> SUFFICES ASSUME CompressorInv PROVE CompressorInv'
      OBVIOUS
    <3>1. CompressorOK(spool') /\ PersistedMatchesSum'
      BY <1>1, <2>1, <2>2, ApplyCompresses, ApplyPersists, Zenon DEF CompressorInv
    <3> QED
      BY <2>2, <3>1 DEF CompressorInv
  <2> QED
    BY <2>3, <2>4 DEF Inv
<1>6. ASSUME NEW proposal \in Proposals, ProposeByPeer(proposal)
      PROVE  Inv'
  <2>1. proposal \in Fragment
    BY SpoolLifeAssumption
  <2>2. /\ owner = "Replicate" /\ Apply(proposal, FALSE) /\ UNCHANGED <<owner, wasPrimary>>
    BY <1>6, Zenon DEF ProposeByPeer
  <2>3. SpoolOK(spool') /\ TypeOK'
    BY <1>1, <2>1, <2>2, ApplyType, Zenon DEF TypeOK
  <2>4. CompressorInv => CompressorInv'
    <3> SUFFICES ASSUME CompressorInv PROVE CompressorInv'
      OBVIOUS
    <3>1. spool.compressor = <<>>
      BY <2>2 DEF CompressorInv
    <3>2. CompressorOK(spool') /\ spool'.compressor = <<>>
      BY <1>1, <2>1, <2>2, <3>1, ApplyCompresses, Zenon DEF CompressorInv
    <3>3. PersistedMatchesSum'
      BY <1>1, <2>2, ApplyPersists, Zenon DEF CompressorInv
    <3> QED
      BY <2>2, <3>2, <3>3 DEF CompressorInv
  <2> QED
    BY <2>3, <2>4 DEF Inv
<1>7. ASSUME NEW proposal \in Fragment, RollsBack(spool, proposal),
             Apply(proposal, FALSE), owner' \in {"spoolCh", "shutDown"},
             UNCHANGED wasPrimary
      PROVE  Inv'
  <2>1. SpoolOK(spool') /\ TypeOK'
    BY <1>1, <1>7, ApplyType, Zenon DEF TypeOK, Owners
  <2>2. CompressorInv => CompressorInv'
    <3> SUFFICES ASSUME CompressorInv PROVE CompressorInv'
      OBVIOUS
    <3>1. /\ CompressorOK(spool')
          /\ spool.compressor = <<>> => spool'.compressor = <<>>
      BY <1>1, <1>7, ApplyCompresses, Zenon DEF CompressorInv
    <3>2. PersistedMatchesSum'
      BY <1>1, <1>7, ApplyPersists, Zenon DEF CompressorInv
    <3> QED
      BY <1>7, <3>1, <3>2 DEF CompressorInv
  <2> QED
    BY <2>1, <2>2 DEF Inv
<1>8. CASE Release
  <2>1. spool.frag \in Fragment /\ RollsBack(spool, spool.frag)
    BY <1>1, SpoolFields, OwnFragmentRollsBack
  <2> QED
    BY <1>7, <1>8, <2>1, Zenon DEF Release
<1>9. CASE ShutDown
  <2>1. spool.frag.end \in Nat /\ spool.frag.codec \in Codec
    BY <1>1, SpoolFields
  <2>2. /\ EmptyAt(spool.frag.end, spool.frag.codec) \in Fragment
        /\ RollsBack(spool, EmptyAt(spool.frag.end, spool.frag.codec))
    BY <1>1, <2>1, EmptyAtProperties, RollApplies
  <2> QED
    BY <1>7, <1>9, <2>2, Zenon DEF ShutDown
<1>10. CASE UNCHANGED vars
  BY <1>10 DEF vars, Inv, TypeOK, CompressorInv, PersistedMatchesSum
<1> QED
  BY <1>2, <1>3, <1>4, <1>5, <1>6, <1>8, <1>9, <1>10 DEF Next

\* The invariant holds throughout the life of a Spool.
THEOREM SpoolInvariant == Spec => []Inv
BY InitInv, NextInv, PTL DEF Spec

-----------------------------------------------------------------------------
(* Safety.                                                                 *)

\* The Spool, its owner and what it has completed are always well formed.
THEOREM TypeCorrect == Spec => []TypeOK
<1>1. Inv => TypeOK
  BY DEF Inv
<1> QED
  BY <1>1, SpoolInvariant, PTL

\* "At all times, the Spool Fragment is a consistent, valid Fragment": no history
\* of Apply, from a primary or a peer, makes its Sum or its running digests
\* differ from the bytes of its File.
THEOREM SpoolConsistent == Spec => []FragmentConsistent
<1>1. Inv => FragmentConsistent
  <2> SUFFICES ASSUME SpoolOK(spool) PROVE FragmentConsistent
    BY DEF Inv
  <2>1. Len(Section(spool.file, 0, ContentLength(spool.frag) + spool.delta))
          = ContentLength(spool.frag) + spool.delta
    BY SpoolFields, SectionProperties
  <2> QED
    BY <2>1 DEF SpoolOK, SumOK, FragmentConsistent
<1> QED
  BY <1>1, SpoolInvariant, PTL

\* MustApply never panics in closeSend, Replicate and shutDownReplica, and scatter
\* is never refused a proposal by the primary's own Spool.
THEOREM OwnProposalsApply == Spec => []ProposalsOfSpoolApply
<1>1. Inv => ProposalsOfSpoolApply
  <2> SUFFICES ASSUME SpoolOK(spool) PROVE ProposalsOfSpoolApply
    BY DEF Inv
  <2>1. CommitOK(spool, spool.frag) /\ CommitOK(spool, NextFragment(spool))
    BY OwnFragmentRollsBack, NextFragmentApplies DEF CommitOK
  <2>2. ASSUME spool.delta = 0, NEW p \in PrimaryProposals PROVE CommitOK(spool, p)
    <3>1. spool.frag.end \in Nat /\ spool.frag.codec \in Codec
      BY SpoolFields
    <3>2. ASSUME NEW c \in Codec, p = EmptyAt(spool.frag.end, c)
          PROVE  CommitOK(spool, p)
      BY <3>1, <3>2, RollApplies DEF CommitOK
    <3>3. ASSUME NEW o \in spool.frag.end..MaxEnd, p = EmptyAt(o, spool.frag.codec)
          PROVE  CommitOK(spool, p)
      <4>1. o \in Nat /\ (o = spool.frag.end \/ o > spool.frag.end)
        BY <3>1, SpoolLifeAssumption
      <4> QED
        BY <2>2, <3>1, <3>3, <4>1, RollApplies DEF CommitOK
    <3> QED
      BY <2>1, <2>2, <3>2, <3>3 DEF PrimaryProposals
  <2> QED
    BY <2>1, <2>2 DEF ProposalsOfSpoolApply
<1> QED
  BY <1>1, SpoolInvariant, PTL

\* Unless a former primary serves Replicate RPCs with its Spool, what the
\* Persister stores of a completed Spool is the content its Sum names.
THEOREM PersistedCorrect ==
    ASSUME ~MayDemote
    PROVE  Spec => []PersistedMatchesSum
<1>1. Inv => PersistedMatchesSum
  BY DEF Inv, CompressorInv
<1> QED
  BY <1>1, SpoolInvariant, PTL

-----------------------------------------------------------------------------
(* Committed content.                                                      *)

\* What applying a proposal does to the committed content: it keeps it, extends
\* it with what was spooled, or completes it and starts again at or after its end.
LEMMA ApplyCases ==
    ASSUME SpoolOK(spool), NEW proposal \in Fragment, NEW primary \in BOOLEAN,
           Apply(proposal, primary)
    PROVE  \/ /\ ~MustRoll(spool, proposal) /\ completed' = completed
              /\ spool'.file = spool.file
              /\ spool'.frag \in {spool.frag, NextFragment(spool)}
           \/ /\ MustRoll(spool, proposal)
              /\ spool'.frag.begin = proposal.end /\ spool'.frag.end = proposal.end
              /\ proposal.end >= spool.frag.end
              /\ completed' = completed \cup
                    (IF ContentLength(spool.frag) = 0 THEN {} ELSE {Completion(spool)})
<1> DEFINE r == Rolled(spool, proposal)
<1>1. PICK ioErr \in BOOLEAN : spool' = applyCommit(spool, proposal, primary, ioErr)
  BY DEF Apply
<1>2. SpoolOK(r)
  BY RolledOK
<1>3. spool' \in {r, RolledBack(r), Committed(r, primary, ioErr)}
  BY <1>1 DEF applyCommit
<1>4. CASE ~MustRoll(spool, proposal)
  <2>1. r = spool
    BY <1>4, RolledOK
  <2>2. completed' = completed
    BY <1>4 DEF Apply, Completes
  <2>3. spool'.file = spool.file /\ spool'.frag \in {spool.frag, NextFragment(spool)}
    <3>1. RolledBack(spool).frag = spool.frag /\ RolledBack(spool).file = spool.file
      BY RolledBackOK
    <3>2. /\ Committed(spool, primary, ioErr).frag = NextFragment(spool)
          /\ Committed(spool, primary, ioErr).file = spool.file
      BY CommittedOK
    <3>3. spool' \in {spool, RolledBack(spool), Committed(spool, primary, ioErr)}
      BY <1>3, <2>1
    <3> QED
      BY ONLY <3>1, <3>2, <3>3
  <2> QED
    BY <1>4, <2>2, <2>3
<1>5. CASE MustRoll(spool, proposal)
  <2>1. proposal.end \in Nat /\ proposal.codec \in Codec
    BY DEF Fragment
  <2>2. r.frag = EmptyAt(proposal.end, proposal.codec) /\ r.delta = 0
    BY <1>5, RolledOK
  <2>3. r.frag.begin = proposal.end /\ r.frag.end = proposal.end
    BY <2>1, <2>2, EmptyAtProperties
  <2> HIDE DEF r
  <2>4. NextFragment(r).begin = proposal.end /\ NextFragment(r).end = proposal.end
    <3>1. NextFragment(r).begin = r.frag.begin /\ NextFragment(r).end = r.frag.end + r.delta
      BY <1>2, NextFragmentProperties
    <3> QED
      BY ONLY <2>1, <2>2, <2>3, <3>1
  <2>5. spool'.frag.begin = proposal.end /\ spool'.frag.end = proposal.end
    <3>1. RolledBack(r).frag = r.frag
      BY <1>2, RolledBackOK
    <3>2. Committed(r, primary, ioErr).frag = NextFragment(r)
      BY <1>2, CommittedOK
    <3> QED
      BY ONLY <1>3, <2>3, <2>4, <3>1, <3>2
  <2>6. proposal.end >= spool.frag.end
    BY <1>5, <2>1, SpoolFields DEF MustRoll
  <2>7. completed' = completed \cup
                    (IF ContentLength(spool.frag) = 0 THEN {} ELSE {Completion(spool)})
    BY <1>5 DEF Apply, Completes
  <2> QED
    BY <1>5, <2>5, <2>6, <2>7
<1> QED
  BY <1>4, <1>5

\* Each step applies a proposal, spools content, or leaves the Spool alone.
LEMMA StepCases ==
    ASSUME Inv, [Next]_vars
    PROVE  \/ \E proposal \in Fragment, primary \in BOOLEAN : Apply(proposal, primary)
           \/ /\ SpoolOK(spool') /\ spool'.frag = spool.frag
              /\ CommittedContent(spool') = CommittedContent(spool)
              /\ completed' = completed
<1>1. SpoolOK(spool)
  BY DEF Inv
<1>2. ASSUME NEW content \in Chunks, NEW contentDelta \in 0..MaxEnd,
             Content(content, contentDelta)
      PROVE  /\ SpoolOK(spool') /\ spool'.frag = spool.frag
             /\ CommittedContent(spool') = CommittedContent(spool)
             /\ completed' = completed
  <2>1. content \in Seq(Byte)
    BY SpoolLifeAssumption
  <2> QED
    BY <1>1, <1>2, <2>1, ApplyContentOK DEF Content
<1>3. ASSUME NEW proposal \in PrimaryProposals, ProposeByPipeline(proposal)
      PROVE  proposal \in Fragment /\ Apply(proposal, TRUE)
  BY <1>1, <1>3, PrimaryProposalsType, Zenon DEF ProposeByPipeline
<1>4. ASSUME NEW proposal \in Proposals, ProposeByPeer(proposal)
      PROVE  proposal \in Fragment /\ Apply(proposal, FALSE)
  BY <1>4, SpoolLifeAssumption, Zenon DEF ProposeByPeer
<1>5. Release => spool.frag \in Fragment /\ Apply(spool.frag, FALSE)
  BY <1>1, SpoolFields, Zenon DEF Release
<1>6. ShutDown => /\ EmptyAt(spool.frag.end, spool.frag.codec) \in Fragment
                  /\ Apply(EmptyAt(spool.frag.end, spool.frag.codec), FALSE)
  BY <1>1, SpoolFields, EmptyAtProperties, Zenon DEF ShutDown
<1>7. AcquireByPipeline \/ AcquireByReplicate \/ UNCHANGED vars
        => UNCHANGED <<spool, completed>>
  BY DEF AcquireByPipeline, AcquireByReplicate, vars
<1>8. TRUE \in BOOLEAN /\ FALSE \in BOOLEAN
  OBVIOUS
<1>9. CASE UNCHANGED <<spool, completed>>
  BY <1>1, <1>9
<1> QED
  BY <1>2, <1>3, <1>4, <1>5, <1>6, <1>7, <1>8, <1>9, Zenon DEF Next

\* Committed bytes are never lost nor changed by a later Apply, of content or of
\* any proposal, whoever holds the Spool.
THEOREM CommittedNeverLost == Spec => CommittedStable
<1> DEFINE Stable ==
      \/ /\ spool'.frag.begin = spool.frag.begin
         /\ ContentLength(spool'.frag) >= ContentLength(spool.frag)
         /\ Section(spool'.file, 0, ContentLength(spool.frag)) = CommittedContent(spool)
      \/ /\ spool'.frag.begin >= spool.frag.end
         /\ ContentLength(spool.frag) # 0 => \E c \in completed' : c.frag = spool.frag
<1>1. ASSUME Inv, [Next]_vars PROVE Stable
  <2>1. SpoolOK(spool)
    BY <1>1 DEF Inv
  <2>2. spool.delta \in Nat /\ ContentLength(spool.frag) \in Nat
    BY <2>1, SpoolFields
  <2>3. ASSUME NEW proposal \in Fragment, NEW primary \in BOOLEAN, Apply(proposal, primary)
        PROVE  Stable
    <3>1. CASE /\ ~MustRoll(spool, proposal) /\ spool'.file = spool.file
               /\ spool'.frag \in {spool.frag, NextFragment(spool)}
      <4>1. /\ spool'.frag.begin = spool.frag.begin
            /\ ContentLength(spool'.frag) >= ContentLength(spool.frag)
        BY <2>1, <2>2, <3>1, NextFragmentProperties
      <4> QED
        BY <3>1, <4>1 DEF CommittedContent
    <3>2. CASE /\ spool'.frag.begin = proposal.end /\ proposal.end >= spool.frag.end
               /\ completed' = completed \cup
                    (IF ContentLength(spool.frag) = 0 THEN {} ELSE {Completion(spool)})
      <4>1. Completion(spool).frag = spool.frag
        BY DEF Completion
      <4> QED
        BY <3>2, <4>1
    <3> QED
      BY <2>1, <2>3, <3>1, <3>2, ApplyCases
  <2>4. CASE /\ spool'.frag = spool.frag
             /\ CommittedContent(spool') = CommittedContent(spool)
    BY <2>2, <2>4 DEF CommittedContent
  <2> QED
    BY <1>1, <2>3, <2>4, StepCases
<1>2. Inv /\ [Next]_vars => [Stable]_vars
  BY <1>1
<1>3. CommittedStable <=> [][Stable]_vars
  BY DEF CommittedStable
<1> HIDE DEF Stable
<1> QED
  BY <1>2, <1>3, SpoolInvariant, PTL DEF Spec

-----------------------------------------------------------------------------
(* Refinement of AppendLog.                                                *)

\* The next Fragment addresses what is committed, and then what was spooled.
LEMMA AddressedExtends ==
    ASSUME NEW s, SpoolOK(s)
    PROVE  \E content \in [1..s.delta -> Byte] :
              Addressed(Section(s.file, 0, ContentLength(s.frag) + s.delta), s.frag.begin)
                = Addressed(CommittedContent(s), s.frag.begin)
                    \cup Addressed(content, s.frag.end)
<1> DEFINE file == s.file
           begin == s.frag.begin
           n == ContentLength(s.frag)
           delta == s.delta
           content == [i \in 1..delta |-> file[n + i]]
           all == Section(file, 0, n + delta)
           pre == Section(file, 0, n)
<1> HIDE DEF file, begin, n, delta
<1>0. /\ file \in Seq(Byte) /\ begin \in Nat /\ n \in Nat /\ delta \in Nat
      /\ begin + n = s.frag.end
  BY SpoolFields DEF file, begin, n, delta
<1>1. Len(file) \in Nat /\ n \in 0..Len(file) /\ n + delta \in 0..Len(file)
  BY SpoolFields DEF file, n, delta
<1>2. /\ Len(all) = n + delta /\ \A i \in 1..(n + delta) : all[i] = file[i]
      /\ Len(pre) = n /\ \A i \in 1..n : pre[i] = file[i]
  BY <1>0, <1>1, SectionProperties
<1>3. \A i \in 1..delta : n + i \in 1..Len(file)
  BY <1>0, <1>1
<1>4. content \in [1..delta -> Byte]
  BY <1>0, <1>3, ElementOfSeq, Zenon
<1>5. Len(content) = delta
  BY <1>0, <1>4
<1>6. \A i \in 1..delta : content[i] = file[n + i]
  OBVIOUS
<1> HIDE DEF content, all, pre
<1>7. ASSUME NEW x \in Addressed(all, begin)
      PROVE  x \in Addressed(pre, begin) \cup Addressed(content, begin + n)
  <2>1. PICK i \in 1..(n + delta) : x = <<begin + i - 1, file[i]>>
    BY <1>2, <1>7 DEF Addressed
  <2>2. CASE i <= n
    <3>1. i \in 1..n
      BY <1>0, <2>2
    <3> QED
      BY <1>2, <2>1, <3>1 DEF Addressed
  <2>3. CASE i > n
    <3>1. /\ i - n \in 1..delta /\ n + (i - n) = i
          /\ begin + n + (i - n) - 1 = begin + i - 1
      BY <1>0, <2>3
    <3>2. x = <<begin + n + (i - n) - 1, content[i - n]>>
      BY <1>6, <2>1, <3>1
    <3> QED
      BY <1>5, <3>1, <3>2 DEF Addressed
  <2> QED
    BY <1>0, <2>2, <2>3
<1>8. ASSUME NEW x \in Addressed(pre, begin) PROVE x \in Addressed(all, begin)
  <2>1. PICK i \in 1..n : x = <<begin + i - 1, file[i]>>
    BY <1>2, <1>8 DEF Addressed
  <2>2. i \in 1..(n + delta)
    BY <1>0
  <2> QED
    BY <1>2, <2>1, <2>2 DEF Addressed
<1>9. ASSUME NEW x \in Addressed(content, begin + n) PROVE x \in Addressed(all, begin)
  <2>1. PICK i \in 1..delta : x = <<begin + n + i - 1, file[n + i]>>
    BY <1>5, <1>6, <1>9 DEF Addressed
  <2>2. n + i \in 1..(n + delta) /\ begin + (n + i) - 1 = begin + n + i - 1
    BY <1>0
  <2> QED
    BY <1>2, <2>1, <2>2 DEF Addressed
<1>10. Addressed(all, begin) = Addressed(pre, begin) \cup Addressed(content, begin + n)
  BY <1>7, <1>8, <1>9
<1> QED
  BY <1>0, <1>4, <1>10 DEF all, pre, file, begin, n, delta, CommittedContent

\* The content of an empty Fragment addresses nothing.
LEMMA AddressedEmpty ==
    ASSUME NEW s, SpoolOK(s), ContentLength(s.frag) = 0, NEW offset
    PROVE  Addressed(CommittedContent(s), offset) = {}
<1>1. Len(CommittedContent(s)) = 0
  BY SpoolFields, SectionProperties DEF CommittedContent
<1> QED
  BY <1>1 DEF Addressed

\* A Spool which is completed moves its content from the Spool to the completions.
LEMMA RollKeepsLog ==
    ASSUME SpoolOK(spool), CompressorOK(spool), SpoolOK(spool'),
           ContentLength(spool'.frag) = 0,
           completed' = completed \cup
                (IF ContentLength(spool.frag) = 0 THEN {} ELSE {Completion(spool)})
    PROVE  replicaLog' = replicaLog
<1>1. /\ Completion(spool).content = CommittedContent(spool)
      /\ Completion(spool).frag = spool.frag
  BY PersistedIsCommitted DEF Completion
<1>2. Addressed(CommittedContent(spool'), spool'.frag.begin) = {}
  BY AddressedEmpty
<1>3. CASE ContentLength(spool.frag) = 0
  <2>1. Addressed(CommittedContent(spool), spool.frag.begin) = {}
    BY <1>3, AddressedEmpty
  <2> QED
    BY <1>2, <1>3, <2>1 DEF replicaLog
<1>4. CASE ContentLength(spool.frag) # 0
  <2>1. completed' = completed \cup {Completion(spool)}
    BY <1>4
  <2>2. UNION {Addressed(c.content, c.frag.begin) : c \in completed'}
          = (UNION {Addressed(c.content, c.frag.begin) : c \in completed})
                \cup Addressed(CommittedContent(spool), spool.frag.begin)
    BY <1>1, <2>1
  <2> QED
    BY <1>2, <2>2 DEF replicaLog
<1> QED
  BY <1>3, <1>4

\* Each step of the Spool is a step of the append-only log, or leaves it alone.
LEMMA StepRefines ==
    ASSUME ~MayDemote, Inv, Inv', [Next]_vars
    PROVE  [Log!LogNext]_<<replicaLog, spool.frag.end>>
<1>1. SpoolOK(spool) /\ CompressorOK(spool) /\ SpoolOK(spool')
  BY DEF Inv, CompressorInv
<1>2. spool.delta \in Nat /\ spool.frag.end \in Nat
  BY <1>1, SpoolFields
<1>3. CASE /\ spool'.frag = spool.frag
           /\ CommittedContent(spool') = CommittedContent(spool)
           /\ completed' = completed
  BY <1>3 DEF replicaLog
<1>4. CASE /\ spool'.frag = NextFragment(spool) /\ spool'.file = spool.file
           /\ completed' = completed
  <2>1. /\ spool'.frag.begin = spool.frag.begin
        /\ spool'.frag.end = spool.frag.end + spool.delta
        /\ ContentLength(spool'.frag) = ContentLength(spool.frag) + spool.delta
    BY <1>1, <1>4, NextFragmentProperties
  <2>2. PICK content \in [1..spool.delta -> Byte] :
          Addressed(Section(spool.file, 0, ContentLength(spool.frag) + spool.delta),
                    spool.frag.begin)
            = Addressed(CommittedContent(spool), spool.frag.begin)
                \cup Addressed(content, spool.frag.end)
    BY <1>1, AddressedExtends
  <2>3. Addressed(CommittedContent(spool'), spool'.frag.begin)
          = Addressed(CommittedContent(spool), spool.frag.begin)
                \cup Addressed(content, spool.frag.end)
    BY <1>4, <2>1, <2>2 DEF CommittedContent
  <2>4. replicaLog' = replicaLog \cup Addressed(content, spool.frag.end)
    BY <1>4, <2>3 DEF replicaLog
  <2>5. /\ spool'.frag.end \in Nat /\ spool'.frag.end >= spool.frag.end
        /\ spool'.frag.end - spool.frag.end = spool.delta
    BY <1>2, <2>1
  <2>6. Log!Extend
    BY <2>2, <2>4, <2>5, Zenon DEF Log!Extend, Log!Written, Addressed
  <2> QED
    BY <2>6 DEF Log!LogNext
<1>5. ASSUME NEW proposal \in Fragment,
             spool'.frag.begin = proposal.end, spool'.frag.end = proposal.end,
             proposal.end >= spool.frag.end,
             completed' = completed \cup
                (IF ContentLength(spool.frag) = 0 THEN {} ELSE {Completion(spool)})
      PROVE  [Log!LogNext]_<<replicaLog, spool.frag.end>>
  <2>1. spool'.frag.begin \in Nat /\ spool'.frag.end \in Nat
    BY <1>1, SpoolFields
  <2>2. ContentLength(spool'.frag) = 0
    BY <1>5, <2>1 DEF ContentLength
  <2>3. replicaLog' = replicaLog
    BY <1>1, <1>5, <2>2, RollKeepsLog
  <2>4. spool'.frag.end > spool.frag.end => Log!SkipForward
    BY <2>1, <2>3 DEF Log!SkipForward
  <2>5. spool'.frag.end > spool.frag.end \/ spool'.frag.end = spool.frag.end
    BY <1>2, <1>5, <2>1
  <2> QED
    BY <2>3, <2>4, <2>5 DEF Log!LogNext
<1>6. ASSUME NEW proposal \in Fragment, NEW primary \in BOOLEAN, Apply(proposal, primary)
      PROVE  [Log!LogNext]_<<replicaLog, spool.frag.end>>
  <2>1. CASE /\ spool'.file = spool.file /\ completed' = completed
             /\ spool'.frag = spool.frag
    BY <1>3, <2>1 DEF CommittedContent
  <2> QED
    BY <1>1, <1>4, <1>5, <1>6, <2>1, ApplyCases
<1> QED
  BY <1>3, <1>6, StepCases

\* Unless a former primary serves Replicate RPCs with its Spool, a Spool with its
\* completions implements an append-only log.
THEOREM SpoolRefinesAppendLog ==
    ASSUME ~MayDemote
    PROVE  Spec => ImplementsAppendLog
<1>1. Init => Log!LogInit
  <2> SUFFICES ASSUME Init PROVE Log!LogInit
    OBVIOUS
  <2>1. SpoolOK(spool) /\ completed = {}
    BY InitInv DEF Inv, Init
  <2>2. spool.frag.end = 0 /\ ContentLength(spool.frag) = 0
    BY CodecAssumption, EmptyAtProperties DEF Init, NewSpool, Emptied
  <2>3. Addressed(CommittedContent(spool), spool.frag.begin) = {}
    BY <2>1, <2>2, AddressedEmpty
  <2> QED
    BY <2>1, <2>2, <2>3 DEF Log!LogInit, replicaLog
<1>2. Inv /\ Inv' /\ [Next]_vars => [Log!LogNext]_<<replicaLog, spool.frag.end>>
  BY StepRefines
<1> QED
  BY <1>1, <1>2, SpoolInvariant, PTL DEF Spec, ImplementsAppendLog, Log!LogSpec
=============================================================================
