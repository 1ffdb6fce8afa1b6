# Verification of Gazette

TLA+ models of Gazette version 2 (`src/v2`): its brokers, the allocator, the append and
read clients, recovery logs and consumers. They are model-checked with TLC on small
instances, and what matters most is proved with TLAPS for every value of the constants.
`PROJECT.json` maps each definition to the lines it models, and lists runs, findings,
hazards and theorems.

    tlc -config MCFailover.cfg MCFailover       # one model-checking run
    tlapm SpoolLifeProofs.tla                   # the proofs of a module

## The system

Gazette stores *journals*: append-only logs, made of *fragments* which are named by their
offset range and SHA1 sum, and which end up in a cloud store. Brokers are assigned
journals through Etcd; one assigned broker of each journal is its primary (slot 0).
Consumers process journals as *shards*, and record the operations of their local databases
into journals of their own, the recovery logs.

| Part | Operations | What makes it correct |
|---|---|---|
| Spool (`fragment/spool.go`) | apply content, commit, roll back, roll, complete | Sum and file agree; committed bytes are never lost; what is persisted is what Sum names |
| Replica, pipeline, Append and Replicate RPCs, resolver (`broker/`) | acquire and release of the Spool and pipeline, synchronize, scatter, gather, health check, shut-down | one owner at a time; acknowledged only if all peers committed; no offset acknowledged twice, none lost; every operation returns |
| Index, cover set, Read RPC (`fragment/index.go`, `cover_set.go`, `broker/read_api.go`) | commit, replace, query, read | no offset forgotten; no wake-up lost |
| Persister (`fragment/persister.go`) | queue, rotate, persist, finish | every completed Spool is stored or retried |
| KeySpace (`keyspace/`) | load, watch, apply, wait | equals Etcd at its revision |
| Allocator and its solver (`allocator/`) | solve, constrain, converge | replicas remain; limits hold; converges |
| Append client (`client/append_service.go`) | start, write, release, serve, roll back | at-least-once, in order, after dependencies; appends finish |
| Readers (`client/reader.go`, `retry_reader.go`, `message/`) | read, retry, jump, seek, unpack | no byte skipped or delivered twice |
| Recovery log (`recoverylog/`) | record, hint, play, hand off, prune | replaying hints rebuilds the recorded files; one author wins |
| Consumer (`consumer/`) | consume, commit, recover, Stat; serve and tear down replicas | exactly-once state; outputs before offsets; statuses are true |

An Append resolves the journal, takes the replica's pipeline (building it from the replica's
Spool if need be), streams to the Replicate RPCs of peers, releases the pipeline to the next
Append, and waits its turn to receive. Spools call back into the index and the persister. The
KeySpace calls the resolver, which creates and shuts down replicas; the allocator relies on
what health checks and shards write to assignments to know when replicas may be removed.
A consumer's transaction appends outputs and recovery-log operations through the append
client, whose dependencies order them.

## Modules

| Module | Models |
|---|---|
| `Spool` | the Spool as a record, its operations as operators |
| `AppendLog` | what a replica promises: an append-only log, which may skip offsets |
| `SpoolLife` | one Spool handed between pipeline, Replicate RPCs and shut-down |
| `Replication` | brokers, replicas, pipelines, streams, Append, Replicate, health checks, the resolver, the allocator for one journal, Etcd, and failures |
| `CoverSet`, `FragmentIndex` | the ordered set of Fragments; the index of a replica with commits, listings of stores, blocking queries and Read RPCs |
| `Persister` | the three queues, Serve, its goroutines and Finish |
| `KeySpace` | the mirror of a prefix of Etcd |
| `MaxAssignment`, `FlowNetwork`, `PushRelabel` | what the solver promises; the flow network; FindMaxFlow |
| `Allocator` | members, leases, leaders and their rounds of checked transactions |
| `AppendBuffer`, `AppendService` | the buffer over a file; chains of AsyncAppends and their loops |
| `RetryReader` | Reader, RetryReader, bufio.Reader and framing |
| `Segments`, `FSM`, `RecoveryLog` | segments and hints; the state machine; recorders, players, hand-off and pruning |
| `ConsumerTxn` | transactions of both kinds of Store, recovery, Stat |
| `ShardReplica` | goroutines, status and tear-down of a shard's replicas in a process |
| `MC*` | instances for TLC; `MCFragments`, `MCBrokers`, `MCAllocation`, `MCGoroutines` and `MCRecoveryLog` check several modules, or instances, in one run, of which the initial state chooses one |
| `*Proofs` | theorems and their lemmas |

### Spool and SpoolLife

`spool` is the Go struct: Fragment, bytes of the file (those a roll-back abandoned
included), `delta`, running and saved digest, compressor. A digest is modelled by the
content digested and a compressed stream by the content fed to it; the file is overwritten in
place at the offset the code computes, so that a wrong offset or a digest not restored shows.
`owner` is where the Spool is. A peer may be sent any proposal and chunk of a small set.
`MayDemote` lets a broker which was primary serve Replicate later with the same Spool.

### Replication

One journal. `etcd` is the sequence of revisions of its assignments and `view` the revision
each broker has applied, several at once if it lags. `rep` are the replicas of each broker,
several if the journal is removed and re-added, and `local` the one `resolver.replicas` names. A
replica's channels are `spoolCh` and `plnCh`. A pipeline has, for each peer, requests and
responses in flight and the state of the peer's RPC. An operation is an Append or health
check; its `pc` is how far it is through `acquirePipeline` (`acquire`, `spool`),
`synchronize` (`sync`, `failSync`, `readThrough`), serving (`serve`), the read barrier and
receives (`gather`) and `updateAssignments` (`update`). Steps are cut where a goroutine may
block or others see its effect. The sends of one Append are one step: the goroutine owns the
pipeline while it makes them, and peers read them one at a time.

Abstractions: an append is one byte, its own identity, in one chunk (SpoolLife has several
and longer ones). A health check runs once. A refresh of the index applies a listing which
may be old; `commitEnd` and `remoteEnd` are the extents of local and remote fragments. Slots
other than 0 aren't told apart. The max-flow solution is any set of R leased brokers.
Persisting is one step. Proxying is left out. A restarted process is a new member: any
unassigned broker. `InitRefreshed` are replicas which start after their first refresh.

### FragmentIndex, Persister

`set` and `local` are the cover sets of `Index`; `spool` the range of the replica's Spool;
`stores` what each store holds, which any broker adds to. `walk` is a listing underway, one
Fragment a step, which may or may not see what was persisted since it began. `ReplaceRemote`
is one step under the lock. Stores only grow. A read's `pc` is `query`, `wait`, `send` or `end`.
In `Persister`, `attemptPersist` looks up the JournalSpec and uploads in separate steps, by
Serve and by the goroutines of Spools completed as primary; uploads fail and specs change.

### KeySpace, allocator

Watch responses of Etcd's events are batched and merged in any way; values may not decode;
progress notifications come between. `Allocator` keeps Etcd's history, as leaders act on
views which are behind, and transactions check what they read. A `round` is the transactions
of an iteration which are yet to be issued. One whose checks fail ends it. One which fails with an
error ends it too, and is in `late` while it may yet take effect. Only the response of the last
one of a round is awaited, so that the next iteration may be over a state from before a
transaction of the leader's own; `overtaken` is set once such a round changes Etcd. The solver is taken by what
`MaxAssignment` says; `PushRelabel`, a step per push or relabel, is checked against the same.

### AppendService

`aas` are all AsyncAppends, named by index; a chain is named by its first one, and has a
`mutex` and a loop. A client's `pc` is `start`, `lock` (waiting for the mutex) or `hold`.
`calls` are calls of StartAppend which returned, with `before`, the calls to other journals
which had been made when the caller took PendingExcept. A unit of content names its call.
`late` are RPCs which failed and may still be committed. Files are overwritten in place after
a roll-back, buffers drain as they fill, and drains and flushes fail part-way.

### RetryReader, recovery log

The byte at an offset is that offset. A stream or fetch may break anywhere; Fragments are
removed ahead of the reader, whose RPC then jumps; the client seeks. In `RecoveryLog` a replica
records, plays or injects hand-offs; checksums are histories, taken to be injective. Appends
are retried, hints stored and pruned by. Pruning may happen at any time, as `gazctl` looks neither at
players nor at the primary's hints; `count.newest` is how recent the hints were. `RecoversHistory` is
checked against the one history that the log determines, of players whose hints are at least as
recent as those which were pruned by.

### Consumer

`ConsumerTxn` has replicas in turn, each of which may fail anywhere; `queue` are appends
which await commit, with what they depend on; recovered content is that of the last commit of
the owner. Stores are `json` (file written and renamed) and `rocks` (written batch).
`ShardReplica` has the goroutines of a process: Etcd's revisions (`log`) are observed late,
statuses put in checked transactions, and RPCs hold stores while replicas are torn down. A log
which fails before it is played (`unplayed`) leaves the player's `Done` unresolved, so that completePlayback waits
to be cancelled. `Stat` fetches offsets and appends its barrier in two steps, between which a transaction may flush.

## Runs

| Run | States | Instance and what it shows |
|---|---|---|
| `fragments` | 443,398 | two bytes, two codecs, offsets to 3: the Spool stays a valid Fragment, its proposals apply, completions hold what they name; it refines `AppendLog`. Two stores, two stored Fragments, a read: no offset forgotten, reads in order, no wake-up lost, no panic |
| `brokers` | 508,591 | R=1, brokers A and B. Two appends, a health check: A's journal is given to B, caught up, and taken from A. Or an explicit offset, a crash or lost lease and a broken stream. Nothing acknowledged is lost or advertised early; ownership, pairing of responses |
| `failover` | 550,876 | R=2, A, B, C; A crashes or loses its lease, and B takes over with C new to the journal. Or an explicit offset, with a health check and a cancellation, or with a broken stream |
| `appends` | 469,470 | two clients, two journals, three calls, a fault: order, at-least-once, barriers, and every append which StartAppend returned finishes |
| `recovery` | 451,121 | three replicas contending with retries and pruning; two with all file operations |
| `transactions` | 532,117 | two replicas, two sources, both stores, failures; fair: exactly once, outputs first, offsets don't rewind, Stat is durable, messages get processed |
| `allocation` | 224,272 | three items, three members, sets of changes, an error; 324 problems for the solver; two keys and three revisions for the mirror |
| `goroutines` | 155,223 | two replicas of a shard; three Spools and a store; a journal of four messages; two brokers with a cancellation and a break, each operation of which returns |
| `reassigned`, `panics`, `pruned`, `overtaken` | violations | see findings 1 to 4 |

Bounds are constants (or given in the MC module), each used in a guard. Replication's are
enough for a complete hand-off (add, advertise, remove, promote: 4 revisions), a pipeline of
each of two Routes and one rebuilt after an error, an operation pipelined behind another and a
failure at each point of an append. Two or three Fragments and a Spool are what it takes for one to
cover several, to overlap two and to be passed by a listing. Three calls of two clients make a chain
which is extended while served, one which ends meanwhile, and a dependency on another
journal. Three replicas make a hand-off which is itself superseded. Three items make a round of three
transactions, of which the first commits and a later one fails. `MCReassigned` limits when
operations begin, to keep the search for a long counterexample short. Appends, clients,
journals, paths and contending replicas are symmetric where they have the same part; runs
with liveness use no symmetry. Deadlock is not checked where all has been done that the
bounded environment asks for.

Fairness: a goroutine which can run is run by the Go scheduler, gRPC delivers or fails, and
Etcd watches deliver. So in `Replication` and `ShardReplica` it's weakly fair that some step is taken which isn't
the environment's: less than what the scheduler gives to each goroutine, and enough as each has finitely many steps. Likewise fair are in `FragmentIndex` only the evaluation of queries; in
`Allocator` each member's Allocate and the replicas' reports; in `ConsumerTxn`
each goroutine; in `Persister` attempts, Serve and Finish, and
strongly the select on `doneCh`, as Go's select picks among ready cases at random; in `RetryReader` reads.
RPCs which hold a shard's store end. Nothing else is assumed of clients, of changes of specs and
assignments, nor of failures. `AppendsFinish` is stated without fairness: in no state have the
goroutines come to rest with an append unfinished which StartAppend returned.

## Findings

The first four are runs. Each of the others was reproduced with TLC by the change to a run which is
named, and is no part of the runs.

1. `reassigned` (`replica.go:102`): a peer is removed and re-added, so that its replica is
   new, but the Route is equivalent and the primary keeps its pipeline to the old one. The health
   check then advertises the new replica as consistent, the allocator may remove the primary, and the
   empty replica acknowledges offset 0 again. The passing runs of Replication set `MayReassign` to FALSE.
2. `panics` (`playback.go:401`): the append of an injected no-op is retried after its response was lost, so that
   the no-op is in the log twice, behind an op of the current recorder. The player reads the first, which doesn't apply,
   goes back to injecting, and panics with "unexpected state" as it reads the second. `RecoversHistory` says
   that it panics in no other case.
3. `pruned` (`shards_prune.go:62`): a player which began with older hints than those pruned by, or with none, silently recovers
   other files once offsets it has yet to read are gone, or fails. Primary hints older than the last backup's are picked first
   by the next player, which fails, as does each one after it.
4. `overtaken` (`allocator.go:127`): a lease expires as the leader is about to issue a round of three transactions. The first commits
   and the second fails its checks, so that no response is awaited. The next iteration is over the revision of the expiry, from before the first
   transaction, and assigns an item to a member whose only slot that transaction took. `AssignmentsFit` and `KeepsReplication` are of
   what happens before a leader's transaction from such a view commits.
5. `fragments` with `MayDemote` TRUE (`spool.go:119`, `PersistedMatchesSum` fails): a compressor opened as primary stays
   open as the Spool goes on to serve Replicate. Commits as a peer don't feed it, and a truncated stream is
   persisted under the Sum of the whole Fragment.
6. `brokers` with `StoredIsAcked` of `Replication` and `ResetAppends` empty (`replica.go:189`): a primary without lease fails an append
   whose bytes it has committed locally, and persists them as it shuts down, at an offset which the next
   primary has acknowledged to another append. No run checks `StoredIsAcked`.
7. `goroutines` with `MayReassign` TRUE (`resolver.go:187`, `OpsFinish` fails): a primary is removed and re-added as a peer between two
   applied revisions. Its replica and pipeline stay, and the next append to the new primary
   hangs. With a crash in its budget instead, an operation of a live primary which lost its lease hangs in `synchronize`
   (`resolver.go:226`). The run has neither.
8. `fragments` with `FindsCovered` of `FragmentIndex`, any Fragments to offset 4, one store and no read (`cover_set.go:54`): a Fragment
   which ends after all others and covers several replaces only the last, and an offset which only it covers may be reported as not
   found. No run checks `FindsCovered`: with offsets to 3, as in the run, it doesn't happen.
9. `append_service.go:111`: StartAppend which finds the tombstone starts over with the old
   chain's mutex locked. Another client which waits for that mutex never returns from StartAppend: `appends` with
   `StartsReturn` (of `MCAppendService`) fails, with two clients and three calls. `AppendsFinish`, which the run checks, is of appends
   which StartAppend returned, so it holds nonetheless.
10. `transactions` with `"json"` in `FlushFails` (`StatIsDurable` fails): offsets which Stat returned may be gone after a failed Flush of the JSON store.
11. `goroutines` with `RemovesRead` TRUE (`MessagesInOrder` fails): a Fragment is removed while it's being read, and the
    reader jumps within a message (`reader.go:93`).
12. `ShardReplica`: an RPC may join a replica's WaitGroup after tear-down began waiting on it
    (`consumer/resolver.go:155`), and use a store which was destroyed: `goroutines` without `~rpc.late` in `HeldStoreLives`, which is
    of those which joined before.
13. `allocation` without `~Stalled` in `AllocationConverges` (`allocator.go:108`): "converge iteration failed (will retry)" is logged, but the leader then awaits a
    revision after the one it observed. If the transaction had no effect and nothing else changes, it doesn't retry.

## Proofs

Each theorem holds for every value of the constants under the named ASSUMEs of its module:
the types of the constants, that names differ. Each rests on an inductive invariant:
it holds initially, each action preserves it, and it implies the property.

- **`SpoolLifeProofs`** (with `SpoolProofs`, a lemma for each operator of `Spool`):
  `SpoolConsistent`, `OwnProposalsApply`, `CommittedNeverLost`, and under `~MayDemote` (finding 5)
  `PersistedCorrect` and `SpoolRefinesAppendLog`. `SpoolOK` says that the digests are of the file's bytes
  through `End` and `End + delta`; the property alone isn't inductive, as a commit's Sum comes from the
  running digest and a roll-back relies on the saved one. `CompressorInv` says that an open compressor
  was fed exactly the committed content, and that only a Spool which never serves Replicate has one.
- **`PersisterProofs`**: `FinishPersistsAll`, `WaitsForTicks`, `NeverAttemptedTwice`. Each Spool is in one place; one in none was stored or dropped.
  `FinishPersistsAll` excepts, as the code does, Spools which goroutines of a primary were attempting as Serve ended.
- **`ConsumerTxnProofs`**: `OutputsPrecedeOffsets`, `ExactlyOnce`. What is recovered was written long before, so the invariant follows
  content from the Store through the queue to the log. **`ConsumerStatProofs`**: `OffsetsNeverRewind`, and `StatsAreDurable`
  unless a JSON Flush may fail (finding 10): the queue is ordered by offsets, and what Stat may return is kept by a commit of it.
- **`ShardReplicaProofs`**: `HeldStoresLive`, `StatusTrue`, `DestroyedUnused`. The invariant speaks of every revision from
  the process's view to the last, as a status is about the last and tear-down about the view.

Only model-checked, for the stated instances:

- liveness (`OpsFinish`, `ReadsAnswered`, `Progresses`, `AllocationConverges`, `Solves`, `Settles`, `Persists`, `ReadsAll`) and
  `AppendsFinish`, which uses ENABLED: beyond the provers used;
- properties of what folds or recursive functions compute, which need induction over data: `OrderPreserved`,
  `ReplacesCleanly`, `NeverForgets`, `ReadsForward`, `FollowsEtcd`, `RecoversHistory`, `HandoffsFence`, `MessagesInOrder`,
  `AssignmentsFit`, `KeepsReplication`;
- `OwnedOnce`, `DoneIsCommitted` and `BarriersHold`, for which no proof is kept;
- `AckedSafely`, `ConsistentMeansCaughtUp` and `ResponsesInOrder`: each is about the whole hand-off, from a broker's
  stale view to streams in flight, and the first two hold only of instances without finding 1, so that their
  inductive invariant would have to state when the allocator acts. `FinishPersists` in `goroutines` is what `FinishPersistsAll` proves of `Persister`.

## Not modelled

The store drivers, HTTP gateway, command-line tools, process wiring, metrics and wire
formats, list and apply APIs (one transaction each), the route cache (a hint), and proxying: I/O
or stateless. The version 1 system in `src/pkg`, which version 2 replaces.
`PROJECT.json` has a note for each part which is modelled in part.
