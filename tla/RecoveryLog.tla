---------------------------- MODULE RecoveryLog ----------------------------
(***************************************************************************)
(* Replicas of a consumer shard which share one recovery log               *)
(* (v2/pkg/recoverylog/recorder.go and playback.go, and the lifecycle of a *)
(* replica in v2/pkg/consumer/lifecycle.go).                               *)
(*                                                                         *)
(* A replica plays the log from hints, tails it, and when it is assigned as*)
(* primary hands the log off to itself by sequencing a no-op of its own    *)
(* Author.  It then records file operations of its database, and stores    *)
(* hints to Etcd.  A replica which lost its assignment may not know, and   *)
(* still record.  A replica plays a log once and has one Author: one which *)
(* crashes takes no more steps, and what follows it is another replica.    *)
(*                                                                         *)
(* The log is a journal: a sequence of ops, whose offsets are numbers of   *)
(* ops.  AppendService appends to it in order and, where the response to an*)
(* append is lost, again.  `gazctl shards prune` removes fragments of it,  *)
(* here of one op each, which no live file of the oldest hints overlaps.   *)
(***************************************************************************)
EXTENDS FSM

CONSTANTS
    Replica,        \* and its Author
    Founder,        \* the replica which began the log
    Path,           \* of files, other than the property file
    Nobody,
    Kinds,          \* of file operations which databases make
    HintBackups,    \* ShardSpec.HintBackups
    MaxRecorded,    \* bound on recorded ops
    MaxRetries,     \* bound on appends whose response is lost
    MaxHints,       \* bound on hints stored by primaries
    MaxInjecting,   \* bound on Players which inject a hand-off at once
    MaxPrunes

VARIABLES
    log,            \* ops of the journal
    pruned,         \* offsets of the log which were removed
    hints,          \* hints in Etcd: of the primary, and the backups
    primary,        \* the replica which has the assignment of slot zero
    replicas,
    count           \* of what is bounded; and how recent the hints are which were pruned by

vars == <<log, pruned, hints, primary, replicas, count>>

Playing == {"inject", "barrier"}
Ended == {"failed", "panicked"}

\* `at` is where a transaction of the recorder is: in the `open` AsyncAppend,
\* in the one which is `sealed` and retried, or done, with its Commit.End.
Txn(at, end) == [at |-> at, end |-> end]

Blank(state) ==
    [state |-> state, fsm |-> NewFSM(NoHints), offset |-> 0, through |-> 0, files |-> <<>>,
     open |-> <<>>, sealed |-> <<>>, retry |-> FALSE, head |-> 0, recent |-> Txn("done", 0),
     hints |-> NoHints, barrier |-> Txn("none", 0)]

\* A Player which plays the hints, and one whose playback of them failed.
Player(h) == [Blank("standby") EXCEPT !.hints = h]
Failed(p) == [Blank("failed") EXCEPT !.hints = p.hints]

\* The op which hands the log off to r.
NoOp(p, r) ==
    [author |-> r, seq |-> p.fsm.next, sum |-> p.fsm.sum,
     kind |-> "noop", fnode |-> 0, path |-> Nobody]

\* storeRecoveredHints rotates backups, if the replica is still assigned.
Rotated(backups, h) == SubSeq(<<h>> \o backups, 1, IF Len(backups) < HintBackups
                                                   THEN Len(backups) + 1 ELSE HintBackups)

\* NewRecorder, whose write head a barrier determined.
Recording(m, end) == [Blank("recording") EXCEPT !.fsm = m, !.recent = Txn("done", end)]

\* The Founder handed the empty log off to itself, and recovered no files.
Init ==
    LET noop == NoOp(Blank("inject"), Founder)
        m    == Apply(NewFSM(NoHints), noop).fsm
    IN  /\ log = <<noop>>
        /\ pruned = {}
        /\ hints = [primary |-> <<>>, backups |-> Rotated(<<>>, BuildHints(m))]
        /\ primary = Founder
        /\ replicas = [r \in Replica |-> IF r = Founder THEN Recording(m, 1) ELSE Blank("idle")]
        /\ count = [recorded |-> 0, retries |-> 0, hints |-> 0, prunes |-> 0,
                    newest |-> 0]

-----------------------------------------------------------------------------
(* The Player.                                                             *)

\* fetchHints and pickFirstHints: of the primary if there are any, and else
\* those of the newest backup.
pickFirstHints ==
    IF hints.primary # <<>> THEN hints.primary[1]
    ELSE IF hints.backups # <<>> THEN hints.backups[1]
    ELSE NoHints

\* Hinted segments must lie within the log.
BeyondHead(m) == \E i \in DOMAIN m.hintedSegments :
    m.hintedSegments[i].begin >= Len(log) \/ m.hintedSegments[i].end > Len(log)

\* serveStandby and the start of playLog: a write barrier determines the head.
StartPlayback(r) ==
    LET m == NewFSM(pickFirstHints)
        p == Player(pickFirstHints)
    IN  /\ replicas[r].state = "idle"
        /\ replicas' = [replicas EXCEPT ![r] =
                IF m.hintedSegments = "error" THEN Failed(p)
                ELSE IF BeyondHead(m) THEN Failed(p)
                ELSE [p EXCEPT !.fsm = m, !.through = Len(log)]]
        /\ UNCHANGED <<log, pruned, hints, primary, count>>

\* The hinted segment which is to be read next, if any, and the offset to read:
\* it skips through chunks of the log which the hints don't ask for.
NextSegment(p) == p.fsm.hintedSegments
Seek(p) ==
    IF NextSegment(p) # <<>> /\ p.offset < NextSegment(p)[1].begin
    THEN NextSegment(p)[1].begin ELSE p.offset

\* Read through the head of the log, and hints remain.
UnusedHints(p) ==
    NextSegment(p) # <<>> /\ p.offset >= NextSegment(p)[1].begin /\ p.offset >= p.through

\* The content at the offset is gone: continue from the next which is there,
\* unless that jumps over a hinted segment.
JumpsSegment(p, jumpTo) ==
    NextSegment(p) # <<>> /\ NextSegment(p)[1].end # 0 /\ NextSegment(p)[1].end < jumpTo
OffsetJump(p, offset) ==
    LET jumpTo == Min({o \in offset..Len(log) : o \notin pruned})
    IN  IF JumpsSegment(p, jumpTo) THEN Failed(p) ELSE [p EXCEPT !.offset = jumpTo]

\* reenactOperation: files are of live Fnodes, and hold the writes made.
Reenact(files, m, op) ==
    CASE op.kind = "create" -> (op.seq :> {}) @@ files
      [] op.kind = "write"  -> [files EXCEPT ![op.fnode] = @ \cup {op.seq}]
      [] op.kind = "unlink" -> IF op.fnode \in Live(m) THEN files
                               ELSE Restrict(files, DOMAIN files \ {op.fnode})
      [] OTHER              -> files

\* Faulty variant of Sequenced: takes the no-op as sequenced if it didn't apply.
SequencedWhenRead(p, r, op, applied) ==
    IF op.author # r THEN p.state ELSE "recovered"

\* The state after an op was played.  It completes if the op is the no-op which
\* this replica injected and it applied, and otherwise must try again.
Sequenced(p, r, op, applied) ==
    IF op.author # r             THEN p.state
    ELSE IF p.state # "barrier"  THEN "panicked"
    ELSE IF applied              THEN "recovered"
    ELSE "inject"

\* playOperation: read and apply the op at the offset.
PlayOperation(p, r, l, offset) ==
    LET op      == [begin |-> offset, end |-> offset + 1] @@ l[offset + 1]
        result  == Apply(p.fsm, op)
        applied == result.err = "nil"
        state   == Sequenced(p, r, op, applied)
    IN  IF state = "panicked" THEN Blank(state)
        ELSE [p EXCEPT !.state  = state,
                       !.fsm    = result.fsm,
                       !.files  = IF applied THEN Reenact(@, result.fsm, op) ELSE @,
                       !.offset = offset + 1]

\* One turn of playLog's loop, if it is the offset's.
Turn(p, r, l, offset) ==
    IF p.state \notin Playing \/ offset # Seek(p) THEN p
    ELSE IF UnusedHints(p) THEN Failed(p)
    ELSE IF offset \in pruned THEN OffsetJump(p, offset)
    ELSE PlayOperation(p, r, l, offset)

\* The turn at which a read reaches the head of the log.  It blocks there if the
\* Player has its no-op yet to read.
AtHead(p, r) ==
    IF p.state \notin Playing \/ p.offset < p.through THEN p
    ELSE IF UnusedHints(p) THEN Failed(p)
    ELSE IF p.state = "inject" THEN [p EXCEPT !.state = "injecting", !.open = <<NoOp(p, r)>>]
    ELSE p

\* playLog reads to the head of log l, and at the head takes its next turn.
Played(p, r, l) ==
    AtHead(FoldLeft(LAMBDA q, n : Turn(q, r, l, n - 1), p, [n \in DOMAIN l |-> n]), r)

\* The allocator removes the assignment of the primary, if there is one, and
\* promotes another replica: servePrimary asks its Player to inject a hand-off.
\* What the Player read before, and how soon, has no effect on others: here it
\* reads once it was promoted.
Promote(r) ==
    /\ replicas[r].state = "standby"
    /\ Cardinality({q \in Replica : replicas[q].state = "injecting"}) < MaxInjecting
    /\ primary' = r
    /\ replicas' = [replicas EXCEPT ![r] = Played([@ EXCEPT !.state = "inject"], r, log)]
    /\ UNCHANGED <<log, pruned, hints, count>>

\* The no-op is appended, and the Player reads through it.  If the response is
\* lost, the no-op is appended again.
Inject(r) ==
    LET p == replicas[r]
    IN  /\ p.state = "injecting"
        /\ log' = log \o p.open
        /\ \/ /\ replicas' = [replicas EXCEPT ![r] =
                    Played([p EXCEPT !.state = "barrier", !.open = <<>>, !.through = Len(log')],
                           r, log')]
              /\ UNCHANGED count
           \/ /\ count.retries < MaxRetries
              /\ count' = [count EXCEPT !.retries = @ + 1]
              /\ UNCHANGED replicas
        /\ UNCHANGED <<pruned, hints, primary>>

\* The rest of completePlayback: makeLive, storeRecoveredHints and NewRecorder,
\* which issues a barrier to determine its write head.
CompletePlayback(r) ==
    LET p == replicas[r]
    IN  /\ p.state = "recovered"
        /\ hints' = IF primary # r THEN hints
                    ELSE [hints EXCEPT !.backups = Rotated(@, BuildHints(p.fsm))]
        /\ replicas' = [replicas EXCEPT ![r] = Recording(p.fsm, Len(log))]
        /\ UNCHANGED <<log, pruned, primary, count>>

-----------------------------------------------------------------------------
(* The Recorder.                                                           *)

\* lockAndBeginTxn: if the recent transaction is done it gives a new write head,
\* and this transaction, of the open append, takes its place.
Begun(p) ==
    IF p.recent.at # "done" THEN p
    ELSE [p EXCEPT !.head = p.recent.end, !.recent = Txn("open", 0)]

Op(kind, fnode, path) == [kind |-> kind, fnode |-> fnode, path |-> path]

\* process: the op is framed into the open append, and applied to the FSM with
\* the write head as a lower bound of its offset.
process(p, r, op) ==
    LET framed == [author |-> r, seq |-> p.fsm.next, sum |-> p.fsm.sum] @@ op
        result == Apply(p.fsm, [begin |-> p.head, end |-> 0] @@ framed)
    IN  IF result.err = "nil" THEN [p EXCEPT !.fsm = result.fsm, !.open = Append(@, framed)]
        ELSE Blank("panicked")

\* What a file operation of the database records.
UnlinkOf(m, path) == IF Linked(m, path) THEN <<Op("unlink", FnodeAt(m, path), path)>> ELSE <<>>

RecordCreate(m, path) == UnlinkOf(m, path) \o <<Op("create", 0, path)>>
RecordRemove(m, path) == UnlinkOf(m, path)
RecordLink(m, src, target) == <<Op("link", FnodeAt(m, src), target)>>
RecordRename(m, src, target) ==
    UnlinkOf(m, target)
        \o <<Op(IF target = IDENTITY THEN "property" ELSE "link", FnodeAt(m, src), target)>>
        \o <<Op("unlink", FnodeAt(m, src), src)>>
RecordWrite(m, path) == <<Op("write", FnodeAt(m, path), Nobody)>>

\* File operations which a database may make: of files which exist, and which
\* rename to the property file once.
FileOperations(m) ==
    LET files == {path \in Path : Linked(m, path)}
    IN  [create |-> {RecordCreate(m, path) : path \in Path},
         remove |-> {RecordRemove(m, path) : path \in files},
         link   |-> {RecordLink(m, src, target) : src \in files, target \in Path \ files},
         rename |-> UNION {{RecordRename(m, src, target) :
                                target \in (Path \cup ({IDENTITY} \ DOMAIN m.props)) \ {src}}
                           : src \in files},
         write  |-> {RecordWrite(m, path) : path \in files}]

Record(r) == \E kind \in Kinds : \E ops \in FileOperations(replicas[r].fsm)[kind] :
    /\ replicas[r].state = "recording"
    /\ count.recorded + Len(ops) <= MaxRecorded
    /\ count' = [count EXCEPT !.recorded = @ + Len(ops)]
    /\ replicas' = [replicas EXCEPT ![r] =
            FoldLeft(LAMBDA p, op : process(p, r, op), Begun(replicas[r]), ops)]
    /\ UNCHANGED <<log, pruned, hints, primary>>

\* BuildHints, of a Recorder: within a transaction, whose completion it awaits.
RecorderBuildHints(r) ==
    /\ replicas[r].state = "recording"
    /\ replicas[r].barrier.at = "none"
    /\ count.hints < MaxHints
    /\ count' = [count EXCEPT !.hints = @ + 1]
    /\ replicas' = [replicas EXCEPT ![r] =
            [Begun(replicas[r]) EXCEPT !.hints = BuildHints(replicas[r].fsm), !.barrier = Txn("open", 0)]]
    /\ UNCHANGED <<log, pruned, hints, primary>>

\* storeRecordedHints: to the primary's key, if the assignment is in effect.
StoreRecordedHints(r) ==
    /\ replicas[r].state = "recording"
    /\ replicas[r].barrier.at = "done"
    /\ hints' = IF primary = r THEN [hints EXCEPT !.primary = <<replicas[r].hints>>] ELSE hints
    /\ replicas' = [replicas EXCEPT ![r].hints = NoHints, ![r].barrier = Txn("none", 0)]
    /\ UNCHANGED <<log, pruned, primary, count>>

\* AppendService appends the open batch or, once a response was lost, that same
\* batch again.
Commit(r) ==
    LET p     == replicas[r]
        batch == IF p.retry THEN p.sealed ELSE p.open
        from  == IF p.retry THEN "sealed" ELSE "open"
        Moved(txn, to) == IF txn.at = from THEN to ELSE txn
    IN  /\ p.state = "recording"
        /\ p.retry \/ p.open # <<>> \/ p.barrier.at = "open"
        /\ log' = log \o batch
        /\ \/ /\ replicas' = [replicas EXCEPT ![r] =
                    [p EXCEPT !.open    = IF p.retry THEN @ ELSE <<>>,
                              !.sealed  = <<>>,
                              !.retry   = FALSE,
                              !.recent  = Moved(@, Txn("done", Len(log'))),
                              !.barrier = Moved(@, Txn("done", 0))]]
              /\ UNCHANGED count
           \/ /\ count.retries < MaxRetries /\ batch # <<>>
              /\ count' = [count EXCEPT !.retries = @ + 1]
              /\ replicas' = [replicas EXCEPT ![r] =
                    [p EXCEPT !.open    = IF p.retry THEN @ ELSE <<>>,
                              !.sealed  = batch,
                              !.retry   = TRUE,
                              !.recent  = Moved(@, Txn("sealed", 0)),
                              !.barrier = Moved(@, Txn("sealed", 0))]]
        /\ UNCHANGED <<pruned, hints, primary>>

-----------------------------------------------------------------------------
(* Pruning.                                                                *)

\* How recent hints are: the last sequence number which they ask for.
Newest(h) == Max({0} \cup {Last(h.nodes[i].segments).last : i \in DOMAIN h.nodes})

\* shards prune: keep the fragments which the oldest backup hints' segments
\* overlap, and all from where the last of those segments begins.  Players may be
\* underway.
Prune ==
    LET set  == LiveLogSegments(Last(hints.backups)).set
        kept == [set EXCEPT ![Len(set)].end = 0]
    IN  /\ count.prunes < MaxPrunes
        /\ hints.backups # <<>> /\ set # <<>>
        /\ pruned' = pruned \cup {o \in 0..(Len(log) - 1) : Intersect(kept, o, o + 1) = <<>>}
        /\ count' = [count EXCEPT !.prunes = @ + 1, !.newest = Max({@, Newest(Last(hints.backups))})]
        /\ UNCHANGED <<log, hints, primary, replicas>>

Next ==
    \/ \E r \in Replica :
        \/ StartPlayback(r) \/ Promote(r) \/ Inject(r) \/ CompletePlayback(r)
        \/ Record(r) \/ RecorderBuildHints(r) \/ StoreRecordedHints(r) \/ Commit(r)
    \/ Prune

Spec == Init /\ [][Next]_vars
-----------------------------------------------------------------------------
(* Properties.                                                             *)

\* The types of the variables, and the bound of HintBackups.
TypeOK ==
    /\ pruned \subseteq 0..Len(log)
    /\ primary \in Replica \cup {Nobody}
    /\ \A r \in Replica :
        /\ replicas[r].state \in Playing \cup Ended \cup {"idle", "standby", "injecting", "recovered", "recording"}
        /\ replicas[r].offset <= Len(log)
    /\ Len(hints.primary) <= 1 /\ Len(hints.backups) <= HintBackups

\* The history of the log: of the ops which follow one another, those which came
\* first.
History(l) == FoldLeft(LAMBDA h, op :
        IF op.sum = [i \in DOMAIN h |-> h[i].author] THEN Append(h, op) ELSE h, <<>>, l)

\* The file system which a history results in: at each path a file, which is
\* its Fnode and the writes made to it.
FileSystem(h) ==
    LET Writes(f) == {h[i].seq : i \in {j \in DOMAIN h : h[j].kind = "write" /\ h[j].fnode = f}}
        links == FoldLeft(LAMBDA fs, op :
            CASE op.kind = "create" -> (op.path :> op.seq) @@ fs
              [] op.kind = "link"   -> (op.path :> op.fnode) @@ fs
              [] op.kind = "unlink" -> Restrict(fs, DOMAIN fs \ {op.path})
              [] OTHER              -> fs, <<>>, h)
    IN  [path \in DOMAIN links |-> <<links[path], Writes(links[path])>>]

Recovered(p) ==
    [path \in {q \in Path : Linked(p.fsm, q)} |->
        <<FnodeAt(p.fsm, path), p.files[FnodeAt(p.fsm, path)]>>]

\* Playback of stored hints doesn't fail.  A replica which completed it has recovered
\* the files of the log's whole history up to its hand-off.
PlaybackRecovers(r) ==
    /\ replicas[r].state # "failed"
    /\ replicas[r].state = "recovered" =>
        LET p == replicas[r]
            h == History(SubSeq(log, 1, p.offset))
        IN  /\ ~hasRemainingHints(p.fsm)
            /\ DOMAIN p.files = Live(p.fsm)
            /\ Recovered(p) = FileSystem(h)
            /\ \A i \in DOMAIN h : h[i].kind = "property" =>
                IDENTITY \in DOMAIN p.fsm.props /\ p.fsm.props[IDENTITY] = h[i].fnode

\* A replica recovers the log's history from whatever hints it began with, while the log
\* isn't pruned by hints which are more recent.  It panics only if the response to the
\* append of its no-op was lost, so that the log has that no-op twice.
RecoversHistory == \A r \in Replica :
    /\ Newest(replicas[r].hints) >= count.newest => PlaybackRecovers(r)
    /\ replicas[r].state = "panicked" => \E i, j \in DOMAIN log :
        i # j /\ log[i] = log[j] /\ log[i].author = r /\ log[i].kind = "noop"

\* What `gazctl shards prune` removes isn't needed to recover the history (shards_prune.go:26).
PruningIsSafe == \A r \in Replica : PlaybackRecovers(r)

\* A Player reads its no-op only in the state in which it awaits it (playback.go:400).
NeverPanics == \A r \in Replica : replicas[r].state # "panicked"

\* No op of a recorder, other than the hand-off to it, follows an op of another.
\* Until another replica handed the log off to itself, what a recorder appends
\* becomes the log's history.
HandoffsFence ==
    LET h == History(log)
    IN  /\ \A i \in 2..Len(h) : h[i].author # h[i - 1].author =>
            /\ h[i].kind = "noop"
            /\ \A j \in 1..(i - 1) : h[j].author # h[i].author
        /\ \A i \in DOMAIN log :
            log[i].kind # "noop" /\ log[i].author = Last(h).author => log[i] \in Range(h)
=============================================================================
