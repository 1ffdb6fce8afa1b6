--------------------------- MODULE MCRecoveryLog ---------------------------
(***************************************************************************)
(* Two small instances of RecoveryLog, of which the initial state chooses  *)
(* one (`part`): "handover" has three replicas which contend for the log,  *)
(* with retried appends and pruning, and "files" has two with every kind   *)
(* of file operation on two paths.                                         *)
(***************************************************************************)
EXTENDS TLC, Integers

CONSTANTS A, B, C, D, path1, path2, path3, Nobody

VARIABLES part, log, pruned, hints, primary, replicas, count

H == INSTANCE RecoveryLog WITH
    Replica <- {A, B, C}, Founder <- A, Path <- {path1}, Kinds <- {"create"},
    HintBackups <- 1, MaxRecorded <- 3, MaxRetries <- 1,
    MaxHints <- 1, MaxInjecting <- 1, MaxPrunes <- 1

F == INSTANCE RecoveryLog WITH
    Replica <- {A, D}, Founder <- A, Path <- {path2, path3},
    Kinds <- {"create", "remove", "link", "rename", "write"},
    HintBackups <- 1, MaxRecorded <- 3, MaxRetries <- 0,
    MaxHints <- 1, MaxInjecting <- 1, MaxPrunes <- 0

Files == part = "files"

MCInit == part \in {"handover", "files"} /\ IF Files THEN F!Init ELSE H!Init

MCNext ==
    /\ UNCHANGED part
    /\ \/ Files /\ F!Next
       \/ ~Files /\ H!Next

MCSpec == MCInit /\ [][MCNext]_<<part, log, pruned, hints, primary, replicas, count>>

Symmetric == Permutations({B, C}) \cup Permutations({path2, path3})

-----------------------------------------------------------------------------
\* A replica recovers the files of the log's history as of its hand-off, while the log isn't pruned
\* by hints which are more recent than its own.
RecoversHistory == IF Files THEN F!RecoversHistory ELSE H!RecoversHistory

\* Once a hand-off is sequenced, ops of earlier owners no longer apply, and those of the last do.
HandoffsFence == IF Files THEN F!HandoffsFence ELSE H!HandoffsFence

\* What is pruned isn't needed by a replica, whichever hints it began with.
PruningIsSafe == ~Files => H!PruningIsSafe

\* Playback reads its own no-op only where it awaits it.
NeverPanics == ~Files => H!NeverPanics
=============================================================================
