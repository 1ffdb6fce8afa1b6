------------------------------- MODULE Spool -------------------------------
(***************************************************************************)
(* A Spool (v2/pkg/fragment/spool.go): the fragment of a journal which is  *)
(* being created, backed by a local file.  This module holds the spool as  *)
(* a record and its operations as operators; SpoolLife runs them as a      *)
(* state machine, and Replication composes one spool per broker.           *)
(*                                                                         *)
(* A SHA1 digest is modelled by the content it digests: two digests are    *)
(* equal iff the contents are.  A compressed stream is modelled likewise,  *)
(* by the content fed to the compressor.                                   *)
(***************************************************************************)
EXTENDS Integers, Sequences

CONSTANTS
    Byte,    \* units of journal content
    Codec,   \* compression codecs
    NONE     \* the codec which does not compress

ASSUME CodecAssumption == NONE \in Codec

-----------------------------------------------------------------------------
(* Fragments: v2/pkg/protocol/protocol.proto, message Fragment.            *)

\* The zero-valued SHA1Sum.  It isn't the digest of any content, not even of
\* the empty one.
ZeroSum == <<>>
SHA1(content) == <<content>>

Optional(S) == {q \in Seq(S) : Len(q) <= 1}
Sum == Optional(Seq(Byte))
Fragment == [begin : Nat, end : Nat, sum : Sum, codec : Codec]

ContentLength(f) == f.end - f.begin

\* A zero-length proposal at `offset`: synchronize, nextProposal, serveAppend
\* and shutDownReplica all build one to roll spools forward.
EmptyAt(offset, codec) ==
    [begin |-> offset, end |-> offset, sum |-> ZeroSum, codec |-> codec]

-----------------------------------------------------------------------------
(* The Spool type.  `file` is the content of Fragment.File (<<>> before it *)
(* is created) and keeps bytes a roll-back has abandoned; `summer` and     *)
(* `sumState` are the running and the saved digest state, by the content   *)
(* digested; `compressor` is <<>> when nil, else <<content compressed>>.   *)

SpoolType == [frag : Fragment, file : Seq(Byte), delta : Nat,
              summer : Seq(Byte), sumState : Seq(Byte),
              compressor : Optional(Seq(Byte))]

Emptied(f) == [frag |-> f, file |-> <<>>, delta |-> 0,
               summer |-> <<>>, sumState |-> <<>>, compressor |-> <<>>]

NewSpool == Emptied(EmptyAt(0, NONE))

\* File.WriteAt and io.NewSectionReader, over zero-based offsets.
WriteAt(file, content, at) ==
    SubSeq(file, 1, at) \o content
        \o SubSeq(file, at + Len(content) + 1, Len(file))
Section(file, at, len) == SubSeq(file, at + 1, at + len)

\* The content of File which the Fragment covers.
CommittedContent(s) == Section(s.file, 0, ContentLength(s.frag))

\* The next Fragment which can be committed by the Spool.
NextFragment(s) ==
    LET end == s.frag.end + s.delta
    IN  [s.frag EXCEPT !.end = end,
                       !.sum = IF s.frag.begin = end THEN ZeroSum
                                                     ELSE SHA1(s.summer)]

-----------------------------------------------------------------------------
(* Compression.  `ioErr` is whether extending the open compressor fails,   *)
(* upon which the code rebuilds it over the whole of the content.          *)

\* Faulty variant of compressThrough: keeps a compressor which failed.
compressThroughNoRebuild(s, end, ioErr) ==
    IF s.compressor # <<>>
    THEN IF ioErr THEN s
         ELSE [s EXCEPT !.compressor =
                <<@[1] \o Section(s.file, ContentLength(s.frag), end - s.frag.end)>>]
    ELSE [s EXCEPT !.compressor = <<Section(s.file, 0, end - s.frag.begin)>>]

compressThrough(s, end, ioErr) ==
    IF s.compressor # <<>> /\ ~ioErr
    THEN [s EXCEPT !.compressor =
            <<@[1] \o Section(s.file, ContentLength(s.frag), end - s.frag.end)>>]
    ELSE [s EXCEPT !.compressor = <<Section(s.file, 0, end - s.frag.begin)>>]

\* The content a finished compressor leaves in compressedFile.
finishCompression(s) ==
    IF s.compressor # <<>> THEN s.compressor[1]
                           ELSE CommittedContent(s)

\* What the fragment store receives of a completed Spool.
PersistedContent(s) ==
    IF s.frag.codec = NONE THEN CommittedContent(s) ELSE finishCompression(s)

\* What is persisted of a completed Spool, under the name of its Fragment.
Completion(s) == [frag |-> s.frag, content |-> PersistedContent(s)]

-----------------------------------------------------------------------------
(* applyContent.                                                           *)

ContentOK(s, contentDelta) == contentDelta = s.delta

applyContent(s, content) ==
    [s EXCEPT !.file   = WriteAt(@, content, ContentLength(s.frag) + s.delta),
              !.summer = @ \o content,
              !.delta  = @ + Len(content)]

-----------------------------------------------------------------------------
(* applyCommit, in the order of its cases.                                 *)

MustRoll(s, proposal) ==
    \/ proposal.end > s.frag.end + s.delta
    \/ proposal.end = s.frag.end /\ ContentLength(proposal) = 0

\* Faulty variant of Completes: no observer callback.
CompletesNever(s, proposal) == FALSE

\* Whether the roll hands a completed Spool to the observer (SpoolComplete).
Completes(s, proposal) == MustRoll(s, proposal) /\ ContentLength(s.frag) # 0

\* Faulty variant of Rolled: ignores the proposed codec.
RolledKeepsCodec(s, proposal) ==
    IF MustRoll(s, proposal) THEN Emptied(EmptyAt(proposal.end, s.frag.codec))
                             ELSE s

Rolled(s, proposal) ==
    IF MustRoll(s, proposal) THEN Emptied(EmptyAt(proposal.end, proposal.codec))
                             ELSE s

\* Case 1 undoes partial content, case 2 commits it (SpoolCommit).
RollsBack(s, proposal) == Rolled(s, proposal).frag = proposal
Commits(s, proposal) ==
    ~RollsBack(s, proposal) /\ NextFragment(Rolled(s, proposal)) = proposal

CommitOK(s, proposal) == RollsBack(s, proposal) \/ Commits(s, proposal)

\* Faulty variant of RolledBack: the digest is not restored.
RolledBackKeepsSum(s) == [s EXCEPT !.delta = 0]

RolledBack(s) == [s EXCEPT !.delta = 0, !.summer = s.sumState]
Committed(s, primary, ioErr) ==
    LET c == IF primary /\ s.frag.codec # NONE
             THEN compressThrough(s, NextFragment(s).end, ioErr) ELSE s
    IN  [c EXCEPT !.frag = NextFragment(s), !.delta = 0, !.sumState = s.summer]

applyCommit(s, proposal, primary, ioErr) ==
    LET r == Rolled(s, proposal)
    IN  CASE RollsBack(s, proposal) -> RolledBack(r)
          [] Commits(s, proposal)   -> Committed(r, primary, ioErr)
          [] OTHER                  -> r
=============================================================================
