---------------------------- MODULE ConsumerTxn ----------------------------
(***************************************************************************)
(* Transactions of a consumer shard (v2/pkg/consumer/lifecycle.go) over    *)
(* its Store (store_json_file.go, store_rocksdb.go), and the Stat API.     *)
(*                                                                         *)
(* Replicas of the shard become primary one after another.  Each recovers  *)
(* the Store from the recovery log, reads messages from the source         *)
(* journals on from the Store's offsets, and appends to other journals.    *)
(* A replica which was superseded may not know, and goes on.               *)
(*                                                                         *)
(* What the modules AppendService and RecoveryLog show is taken from them: *)
(* the appends of a replica to its log commit in order and each after its  *)
(* dependencies, and only those of the last replica which handed the log   *)
(* off to itself are ever played back.                                     *)
(***************************************************************************)
EXTENDS Sequences, Integers

CONSTANTS
    Primaries,  \* bound: replicas which become primary
    Source,     \* journals which the shard reads
    MinOffset,  \* offset of each source at which the shard begins
    EndOffset,  \* bound: messages of each source; every message has length one
    Apps,       \* applications: the kind of Store, "json" or "rocks", and whether outputs
                \* are appended on FinalizeTxn, or as messages are consumed
    FlushFails, \* kinds of Store whose Flush may fail
    Fallible,   \* replicas which may fail
    Statted,    \* replicas which serve a Stat RPC
    None        \* no content of a file

\* Replicas are numbered in the order in which they become primary; each does once.
Replica == 1..Primaries

Kind == {"json", "rocks"}
Offsets == [Source -> Nat]
Message == Source \X (0..EndOffset - 1)

\* What the Store holds: how often each message was applied, and through where
\* the sources were read.
Content == [applied : [Message -> Nat], offsets : Offsets]

ASSUME TxnAssumption ==
    /\ Primaries \in Nat /\ EndOffset \in Nat
    /\ MinOffset \in [Source -> 0..EndOffset]
    /\ Apps \subseteq Kind \X BOOLEAN /\ FlushFails \subseteq Kind /\ Fallible \subseteq Replica
    /\ Statted \subseteq Replica /\ None \notin Content

VARIABLES
    kind,       \* of Store which the application uses
    holds,      \* whether it appends its outputs on FinalizeTxn, or as it consumes
    owner,      \* the last replica which handed the log off to itself, or 0
    files,      \* of the Store, as the recovery log plays back
    published,  \* messages whose outputs have committed
    replicas

vars == <<kind, holds, owner, files, published, replicas>>

Blank == [applied |-> [m \in Message |-> 0], offsets |-> [s \in Source |-> 0]]

\* An append to the log.  Those of Stat and of txnStep's last barrier write nothing.
Op(k, deps, c) == [kind |-> k, deps |-> deps, content |-> c]
WeakBarrier(k) == Op(k, {}, None)

\* Faulty variant of NewTxn: msgCh remains nil, where the prior transaction set it so.
NewTxnKeepsChannel(prior) ==
    [offsets |-> [s \in Source |-> -1], held |-> {}, begun |-> FALSE, min |-> FALSE,
     max |-> prior, prior |-> prior]

\* `offsets` are those which the transaction read through, or -1.  `held` are messages
\* whose output the application appends on FinalizeTxn.  `min` and `max` are whether
\* the durations have elapsed, and `prior` whether doneCh is awaited.
NewTxn(prior) ==
    [offsets |-> [s \in Source |-> -1], held |-> {}, begun |-> FALSE, min |-> FALSE, max |-> FALSE,
     prior |-> prior]

\* `visible` is what FetchJournalOffsets returns; `next` are the offsets which pumps
\* read from; `pending` are messages whose outputs have not committed; `queue` are
\* appends to the log.  `stat` is a Stat RPC underway, of which there is one.
NewReplica ==
    [pc |-> "standby", store |-> Blank, visible |-> Blank.offsets,
     next |-> Blank.offsets, txn |-> NewTxn(FALSE), pending |-> {}, queue |-> <<>>,
     stat |-> [pc |-> "idle", offsets |-> Blank.offsets]]

Init ==
    /\ \E app \in Apps : kind = app[1] /\ holds = app[2]
    /\ owner = 0
    /\ files = [next |-> None, state |-> None]
    /\ published = {}
    /\ replicas = [r \in Replica |-> NewReplica]

\* Offsets which Flush gives the Store.
Merged(offsets, flushed) ==
    [s \in Source |-> IF flushed[s] >= 0 THEN flushed[s] ELSE offsets[s]]

\* What Flush records of the content.  A JSON file is written and renamed; RocksDB writes
\* one batch to its write-ahead log.
FlushOps(c) ==
    IF kind = "json" THEN <<Op("next", {}, c), Op("rename", {}, None)>>
    ELSE <<Op("wal", {}, c)>>

\* What the Store is once recovered.
Recovered == IF files.state = None THEN Blank ELSE files.state

\* Faulty variant of OpenOps: the file is flushed before it's decoded.
OpenOpsBlank == IF kind = "json" /\ files.state # None THEN FlushOps(Blank) ELSE <<>>

\* Opening an existing JSON file flushes it again.
OpenOps == IF kind = "json" /\ files.state # None THEN FlushOps(files.state) ELSE <<>>

\* Faulty variant of LowerBounded: an upper bound.
UpperBounded(offsets) ==
    [s \in Source |-> IF offsets[s] > MinOffset[s] THEN MinOffset[s] ELSE offsets[s]]

\* Where each source is read from.
LowerBounded(offsets) ==
    [s \in Source |-> IF offsets[s] < MinOffset[s] THEN MinOffset[s] ELSE offsets[s]]

\* completePlayback: the log is handed off to r and played back, the Store is opened, and
\* messages are pumped from its offsets.
completePlayback(r) ==
    /\ r = owner + 1
    /\ owner' = r
    /\ replicas' = [replicas EXCEPT ![r] =
           [@ EXCEPT !.pc = "primary",
                     !.store = Recovered,
                     !.visible = Recovered.offsets,
                     !.next = LowerBounded(Recovered.offsets),
                     !.queue = OpenOps]]
    /\ UNCHANGED <<kind, holds, files, published>>

\* The message which a replica reads next of a source.
NextMessage(rep, s) == <<s, rep.next[s]>>

\* The application applies a message to the Store, and appends its output to some journal,
\* now or at the end of the transaction.
ConsumeMessage(rep, s, msg) ==
    [rep EXCEPT
        !.store = [rep.store EXCEPT !.applied[msg] = @ + 1],
        !.next = [rep.next EXCEPT ![s] = @ + 1],
        !.pending = IF holds THEN rep.pending ELSE rep.pending \cup {msg},
        !.txn = [rep.txn EXCEPT !.held = IF holds THEN @ \cup {msg} ELSE @,
                                !.begun = TRUE, !.offsets[s] = rep.next[s] + 1]]

\* txnStep receives a message.
Receive(r, s) ==
    /\ replicas[r].pc = "primary"
    /\ ~replicas[r].txn.max
    /\ NextMessage(replicas[r], s) \in Message
    /\ replicas' = [replicas EXCEPT ![r] = ConsumeMessage(@, s, NextMessage(@, s))]
    /\ UNCHANGED <<kind, holds, owner, files, published>>

\* txnStep receives a tick of its timer: the minimum duration has elapsed, and the maximum
\* has as well or the timer was reset for it.
Tick(r) ==
    LET txn == replicas[r].txn
    IN  /\ replicas[r].pc = "primary" /\ txn.begun /\ ~txn.max
        /\ \E max \in (IF txn.min THEN {TRUE} ELSE BOOLEAN) :
               replicas' = [replicas EXCEPT ![r].txn = [@ EXCEPT !.min = TRUE, !.max = max]]
        /\ UNCHANGED <<kind, holds, owner, files, published>>

\* The barrier of the prior transaction has committed.
PriorDone(r) ==
    /\ replicas[r].pc = "primary" /\ replicas[r].txn.prior
    /\ \A i \in DOMAIN replicas[r].queue : replicas[r].queue[i].kind # "end"
    /\ replicas' = [replicas EXCEPT ![r].txn.prior = FALSE]
    /\ UNCHANGED <<kind, holds, owner, files, published>>

\* Faulty variant of StrongBarrier: one which doesn't wait for appends of FinalizeTxn.
StrongBarrierBefore(rep) == Op("barrier", rep.pending \ rep.txn.held, None)

\* StrongBarrier: an append which depends on all which are pending in other journals.
StrongBarrier(rep) == Op("barrier", rep.pending, None)

\* FinalizeTxn appends what the application held back.
FinalizeTxn(rep) == [rep EXCEPT !.pending = @ \cup rep.txn.held]

\* store.Flush of the transaction's offsets, behind the barrier.
Flush(rep) ==
    LET offsets == Merged(rep.store.offsets, rep.txn.offsets)
        c == [rep.store EXCEPT !.offsets = offsets]
    IN  [rep EXCEPT !.store = c, !.visible = offsets,
                    !.queue = Append(@, StrongBarrier(rep)) \o FlushOps(c)]

\* A Flush which fails: the JSON Store has taken the offsets and may have written the next
\* file; RocksDB wrote nothing.
FailedFlushes(rep) ==
    LET flushed == Flush(rep)
        written == Len(flushed.queue)
    IN  IF kind = "json"
        THEN {[flushed EXCEPT !.queue = SubSeq(@, 1, n)] : n \in written - 2..written - 1}
        ELSE {[rep EXCEPT !.queue = Append(@, StrongBarrier(rep))]}

\* The transaction has messages, its minimum duration and the prior one are over, and no
\* message is at hand or the maximum duration is over as well.
MayCommit(r) ==
    LET txn == replicas[r].txn
    IN  replicas[r].pc = "primary" /\ txn.begun /\ txn.min /\ ~txn.prior

\* The replica as txnStep completes the transaction, and consumeMessages begins the next.
Committed(rep) ==
    [Flush(FinalizeTxn(rep)) EXCEPT !.queue = Append(@, WeakBarrier("end")),
                                    !.txn = NewTxn(TRUE)]

Commit(r) ==
    /\ MayCommit(r)
    /\ replicas' = [replicas EXCEPT ![r] = Committed(@)]
    /\ UNCHANGED <<kind, holds, owner, files, published>>

\* The application's Flush fails; the replica is FAILED and processes nothing more.
CommitFails(r) ==
    /\ MayCommit(r)
    /\ r \in Fallible /\ kind \in FlushFails
    /\ \E failed \in FailedFlushes(FinalizeTxn(replicas[r])) :
           replicas' = [replicas EXCEPT ![r] = [failed EXCEPT !.pc = "failed"]]
    /\ UNCHANGED <<kind, holds, owner, files, published>>

\* ConsumeMessage or FinalizeTxn return an error.  (One of BeginTxn is as if the message
\* were never received.)
Fail(r) ==
    /\ replicas[r].pc = "primary" /\ r \in Fallible /\ replicas[r].txn.begun
    /\ replicas' = [replicas EXCEPT ![r].pc = "failed"]
    /\ UNCHANGED <<kind, holds, owner, files, published>>

\* An append of an output commits.
CommitOutput(r, msg) ==
    /\ msg \in replicas[r].pending
    /\ published' = published \cup {msg}
    /\ replicas' = [replicas EXCEPT ![r].pending = @ \ {msg}]
    /\ UNCHANGED <<kind, holds, owner, files>>

\* The files once an append to the log is played back.
Played(op) ==
    CASE op.kind = "next"   -> [files EXCEPT !.next = op.content]
      [] op.kind = "rename" -> [files EXCEPT !.next = None, !.state = files.next]
      [] op.kind = "wal"    -> [files EXCEPT !.state = op.content]
      [] OTHER              -> files

\* The first append to the log commits, once its dependencies have.  It's ignored when
\* played back, if the log was handed off since.
CommitLog(r) ==
    LET queue == replicas[r].queue
    IN  /\ queue # <<>>
        /\ queue[1].deps \cap replicas[r].pending = {}
        /\ files' = IF owner = r THEN Played(queue[1]) ELSE files
        /\ replicas' = [replicas EXCEPT ![r].queue = Tail(@)]
        /\ UNCHANGED <<kind, holds, owner, published>>

\* Stat fetches the Store's offsets...
Fetched(rep) == [rep EXCEPT !.stat = [pc |-> "fetched", offsets |-> rep.visible]]

StatFetch(r) ==
    /\ r \in Statted
    /\ replicas[r].pc \in {"primary", "failed"} /\ replicas[r].stat.pc = "idle"
    /\ replicas' = [replicas EXCEPT ![r] = Fetched(@)]
    /\ UNCHANGED <<kind, holds, owner, files, published>>

\* ... and then appends a barrier to the log.
Statting(rep) ==
    [rep EXCEPT !.stat = [@ EXCEPT !.pc = "wait"], !.queue = Append(@, WeakBarrier("stat"))]

StatBarrier(r) ==
    /\ replicas[r].stat.pc = "fetched"
    /\ replicas' = [replicas EXCEPT ![r] = Statting(@)]
    /\ UNCHANGED <<kind, holds, owner, files, published>>

\* Faulty variant of Returned: offsets which are fetched once the barrier committed.
ReturnedLatest(rep) == [rep.stat EXCEPT !.pc = "done", !.offsets = rep.visible]

\* Stat returns the offsets.
Returned(rep) == [rep.stat EXCEPT !.pc = "done"]

\* It does once the barrier has committed.
StatReturn(r) ==
    /\ replicas[r].stat.pc = "wait"
    /\ \A i \in DOMAIN replicas[r].queue : replicas[r].queue[i].kind # "stat"
    /\ replicas' = [replicas EXCEPT ![r].stat = Returned(replicas[r])]
    /\ UNCHANGED <<kind, holds, owner, files, published>>

Stat(r) == StatFetch(r) \/ StatBarrier(r) \/ StatReturn(r)

txnStep(r) ==
    \/ \E s \in Source : Receive(r, s)
    \/ Tick(r) \/ PriorDone(r) \/ Commit(r) \/ CommitFails(r) \/ Fail(r)

Appends(r) == CommitLog(r) \/ \E msg \in Message : CommitOutput(r, msg)

Next == \E r \in Replica : completePlayback(r) \/ txnStep(r) \/ Appends(r) \/ Stat(r)

Spec == Init /\ [][Next]_vars
-----------------------------------------------------------------------------
OpType ==
    [kind : {"barrier", "next", "rename", "wal", "end", "stat"},
     deps : SUBSET Message, content : Content \cup {None}]

ReplicaType ==
    [pc : {"standby", "primary", "failed"}, store : Content, visible : Offsets,
     next : Offsets, pending : SUBSET Message, queue : Seq(OpType),
     txn : [offsets : [Source -> Nat \cup {-1}], held : SUBSET Message,
            begun : BOOLEAN, min : BOOLEAN, max : BOOLEAN, prior : BOOLEAN],
     stat : [pc : {"idle", "fetched", "wait", "done"}, offsets : Offsets]]

\* Every variable has its type.
TypeOK ==
    /\ <<kind, holds>> \in Apps
    /\ owner \in 0..Primaries
    /\ files \in [next : Content \cup {None}, state : Content \cup {None}]
    /\ published \in SUBSET Message
    /\ replicas \in [Replica -> ReplicaType]

\* The messages which lie before the offsets.
Through(offsets) == {m \in Message : MinOffset[m[1]] <= m[2] /\ m[2] < offsets[m[1]]}

\* A Store which is recovered has stepped past no message whose outputs have not committed:
\* whoever crashes or is superseded, each output is written at least once (StrongBarrier,
\* before store.Flush).
OutputsBeforeOffsets == Through(Recovered.offsets) \subseteq published

\* A Store which is recovered reflects each message before its offsets exactly once, and
\* none after, though replicas repeat what others did (Flush, completePlayback).
AppliedOnce ==
    \A m \in Message :
        Recovered.applied[m] = IF m \in Through(Recovered.offsets) THEN 1 ELSE 0

\* When Stat returns offsets, what was appended in processing through them has committed, to
\* other journals and to the recovery log (shard_api.go, Stat).
StatIsDurable ==
    \A r \in Replica : replicas[r].stat.pc = "done" =>
        /\ Through(replicas[r].stat.offsets) \subseteq published
        /\ owner = r => \A s \in Source :
                             replicas[r].stat.offsets[s] <= Recovered.offsets[s]

\* Offsets which were recovered, or could be, are not later found to have gone back: no
\* message is committed and then forgotten.
NeverRewinds == [][\A s \in Source : Recovered.offsets[s] <= Recovered'.offsets[s]]_vars
-----------------------------------------------------------------------------
\* The goroutine which runs transactions goes on, with whichever step it can take; appends
\* commit; and replicas are made primary.
Consumes(r) ==
    (\E s \in Source : Receive(r, s)) \/ Tick(r) \/ PriorDone(r) \/ Commit(r)
Fairness ==
    \A r \in Replica :
        /\ WF_vars(completePlayback(r)) /\ WF_vars(Consumes(r))
        /\ WF_vars(CommitLog(r)) /\ WF_vars(\E msg \in Message : CommitOutput(r, msg))

FairSpec == Spec /\ Fairness

\* If the last primary doesn't fail, every message is committed.
AllCommitted == Through(Recovered.offsets) = Through([s \in Source |-> EndOffset])
Progresses ==
    Primaries \notin Fallible => <>AllCommitted
=============================================================================
