----------------------------- MODULE SpoolLife -----------------------------
(***************************************************************************)
(* The life of the one Spool of a journal replica.  It is handed through   *)
(* replica.spoolCh between the pipeline the broker runs as primary and the *)
(* Replicate RPCs it serves as a peer, each of which applies content and   *)
(* proposals to it, and it is completed for good by shutDownReplica.       *)
(***************************************************************************)
EXTENDS Spool

CONSTANTS
    Proposals,   \* proposals which a remote primary may send
    Chunks,      \* content chunks of Append RPCs
    MaxEnd,      \* bound: the greatest offset of the journal
    MayDemote    \* whether a broker which has been primary of the journal may
                 \* later serve Replicate RPCs with this same Spool

ASSUME SpoolLifeAssumption ==
    /\ Proposals \subseteq Fragment
    /\ Chunks \subseteq Seq(Byte) \ {<<>>}
    /\ MaxEnd \in Nat
    /\ MayDemote \in BOOLEAN

VARIABLES
    spool,
    owner,       \* who holds the Spool
    wasPrimary,  \* a pipeline has held the Spool
    completed    \* Spools handed to SpoolObserver.SpoolComplete: the Fragment of
                 \* each, and the content the Persister stores under its name

vars == <<spool, owner, wasPrimary, completed>>

Owners == {"spoolCh", "pipeline", "Replicate", "shutDown"}

TypeOK ==
    /\ spool \in SpoolType
    /\ owner \in Owners
    /\ wasPrimary \in BOOLEAN
    /\ completed \in SUBSET [frag : Fragment, content : Seq(Byte)]

Init ==
    /\ spool = NewSpool
    /\ owner = "spoolCh"
    /\ wasPrimary = FALSE
    /\ completed = {}

\* Spool.Apply of a proposal, and the SpoolComplete callback it makes.
Apply(proposal, primary) ==
    /\ \E ioErr \in BOOLEAN : spool' = applyCommit(spool, proposal, primary, ioErr)
    /\ completed' = IF Completes(spool, proposal) THEN completed \cup {Completion(spool)}
                                                  ELSE completed

\* acquireSpool, by acquirePipeline.
AcquireByPipeline ==
    /\ owner = "spoolCh"
    /\ owner' = "pipeline"
    /\ wasPrimary' = TRUE
    /\ UNCHANGED <<spool, completed>>

\* acquireSpool, by Replicate.
AcquireByReplicate ==
    /\ owner = "spoolCh"
    /\ wasPrimary => MayDemote
    /\ owner' = "Replicate"
    /\ UNCHANGED <<spool, wasPrimary, completed>>

\* Content chunks of an Append, through scatter or serveReplicate.  The latter
\* refuses a chunk of another ContentDelta, and Replicate ends (see Release).
Content(content, contentDelta) ==
    /\ \/ owner = "pipeline" /\ contentDelta = spool.delta
       \/ owner = "Replicate"
    /\ spool.frag.end + spool.delta + Len(content) <= MaxEnd
    /\ ContentOK(spool, contentDelta)
    /\ spool' = applyContent(spool, content)
    /\ UNCHANGED <<owner, wasPrimary, completed>>

\* The proposals a pipeline derives from its own Spool: the commit and the
\* roll-back of an Append, a roll of its Fragment by nextProposal, and a roll
\* to the greater offset of a peer (synchronize) or of the index (serveAppend).
PrimaryProposals ==
    {NextFragment(spool), spool.frag}
        \cup {EmptyAt(spool.frag.end, c) : c \in Codec}
        \cup {EmptyAt(o, spool.frag.codec) : o \in spool.frag.end..MaxEnd}

\* A roll is proposed only while no content of an Append is being spooled.
ProposeByPipeline(proposal) ==
    /\ owner = "pipeline"
    /\ spool.delta = 0 \/ proposal \in {NextFragment(spool), spool.frag}
    /\ Apply(proposal, TRUE)
    /\ UNCHANGED <<owner, wasPrimary>>

\* serveReplicate of a proposal; a mismatch is reported and the RPC goes on.
ProposeByPeer(proposal) ==
    /\ owner = "Replicate"
    /\ Apply(proposal, FALSE)
    /\ UNCHANGED <<owner, wasPrimary>>

\* closeSend, and the end of Replicate (on EOF, a broken stream, or a request
\* it refuses): MustApply rolls back partial content.
Release ==
    /\ owner \in {"pipeline", "Replicate"}
    /\ Apply(spool.frag, FALSE)
    /\ owner' = "spoolCh"
    /\ UNCHANGED wasPrimary

\* shutDownReplica: MustApply completes the current Fragment.
ShutDown ==
    /\ owner = "spoolCh"
    /\ Apply(EmptyAt(spool.frag.end, spool.frag.codec), FALSE)
    /\ owner' = "shutDown"
    /\ UNCHANGED wasPrimary

Next ==
    \/ AcquireByPipeline
    \/ AcquireByReplicate
    \/ \E content \in Chunks, contentDelta \in 0..MaxEnd : Content(content, contentDelta)
    \/ \E proposal \in PrimaryProposals : ProposeByPipeline(proposal)
    \/ \E proposal \in Proposals : ProposeByPeer(proposal)
    \/ Release
    \/ ShutDown

Spec == Init /\ [][Next]_vars

-----------------------------------------------------------------------------
(* Safety.                                                                 *)

\* "At all times, the Spool Fragment is a consistent, valid Fragment": its Sum
\* is the digest of exactly the bytes its File holds for [Begin, End), and the
\* saved and running digests are those of the file through End and End+delta,
\* whatever was spooled, rolled back and overwritten before.
FragmentConsistent ==
    /\ spool.frag.sum = IF ContentLength(spool.frag) = 0 THEN ZeroSum
                                                         ELSE SHA1(CommittedContent(spool))
    /\ spool.sumState = CommittedContent(spool)
    /\ spool.summer = Section(spool.file, 0, ContentLength(spool.frag) + spool.delta)
    /\ Len(spool.summer) = ContentLength(spool.frag) + spool.delta

\* The proposals which the code applies with MustApply (roll-back on release,
\* roll on shut-down), or in scatter, are never refused: neither panics.
ProposalsOfSpoolApply ==
    /\ CommitOK(spool, spool.frag)
    /\ CommitOK(spool, NextFragment(spool))
    /\ spool.delta = 0 => \A p \in PrimaryProposals : CommitOK(spool, p)

\* What is persisted for a completed Spool is the content its Sum names,
\* compressed incrementally, all at once, or not at all.
PersistedMatchesSum ==
    \A c \in completed : c.frag.sum = SHA1(c.content)

\* Committed bytes of a Fragment are never lost nor changed by a later step:
\* the Fragment is extended, or it is completed and then starts at its end.
CommittedStable ==
    [][\/ /\ spool'.frag.begin = spool.frag.begin
          /\ ContentLength(spool'.frag) >= ContentLength(spool.frag)
          /\ Section(spool'.file, 0, ContentLength(spool.frag)) = CommittedContent(spool)
       \/ /\ spool'.frag.begin >= spool.frag.end
          /\ ContentLength(spool.frag) # 0 => \E c \in completed' : c.frag = spool.frag]_vars

Addressed(content, offset) ==
    {<<offset + i - 1, content[i]>> : i \in 1..Len(content)}

\* The replica's log: what was completed, and what the Spool has committed.
replicaLog ==
    (UNION {Addressed(c.content, c.frag.begin) : c \in completed})
        \cup Addressed(CommittedContent(spool), spool.frag.begin)

Log == INSTANCE AppendLog WITH log <- replicaLog, end <- spool.frag.end

\* The Spool implements an append-only log: no sequence of content, commits,
\* roll-backs, rolls and hand-offs rewrites, drops or reorders a written byte.
ImplementsAppendLog == Log!LogSpec
=============================================================================
