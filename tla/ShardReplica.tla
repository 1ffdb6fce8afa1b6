---------------------------- MODULE ShardReplica ----------------------------
(***************************************************************************)
(* Replicas of a shard in one consumer process (v2/pkg/consumer replica.go *)
(* and resolver.go).  The resolver starts, promotes and cancels replicas   *)
(* as batches of Etcd revisions are applied; goroutines of a replica play  *)
(* its recovery log, serve it as primary, and advertise its status under   *)
(* its assignment; and RPCs resolve to it.                                 *)
(***************************************************************************)
EXTENDS Sequences, Integers, FiniteSets

CONSTANTS
    MaxReplicas,    \* bound: replicas which the process starts
    Budgets         \* bounds on changes of the assignment, failures, RPCs and on
                    \* whether the process ends

ASSUME ReplicaAssumption ==
    /\ MaxReplicas \in Nat
    /\ Budgets \subseteq [{"changes", "failures", "rpcs", "ends"} -> Nat]

VARIABLES
    log,        \* the assignment, at each revision from the process' view through the last
    watching,   \* whether the process watches Etcd
    replicas,   \* every replica which it started
    current,    \* index of the one in Resolver.replicas, or zero
    go,         \* goroutines of each replica
    rpc,        \* an RPC which resolves to a replica
    budget      \* what may yet be, of these

vars == <<log, watching, replicas, current, go, rpc, budget>>

None == [slot |-> 0, code |-> -1]

\* Codes of ReplicaStatus.
IDLE == 0
BACKFILL == 1
TAILING == 2
PRIMARY == 3
FAILED == 4

\* Goroutines of serveStandby (which has another for its status), servePrimary and pumpMessages.
Goroutine == {"standby", "status", "primary", "pump"}

\* A goroutine.  `code` is the status it updates to, and `at` how far the view is behind that
\* update.
At(pc, code) == [pc |-> pc, code |-> code, at |-> 0]
Off == At("off", IDLE)

NewReplica ==
    [slot |-> 1, kept |-> FALSE, tailing |-> FALSE, played |-> "no", store |-> "none",
     cancelled |-> FALSE, waited |-> FALSE, torn |-> FALSE]

view == Head(log)
asn == log[Len(log)]

Init ==
    /\ log = <<None>> /\ watching = TRUE
    /\ replicas = <<>> /\ current = 0 /\ go = <<>>
    /\ rpc = [pc |-> "idle", r |-> 0, late |-> FALSE]
    /\ budget \in Budgets

Spends(what) == budget[what] > 0 /\ budget' = [budget EXCEPT ![what] = @ - 1]
-----------------------------------------------------------------------------
\* The allocator assigns the shard to this process, moves it to slot zero, or removes it.
Change(a) ==
    /\ watching /\ Spends("changes")
    /\ log' = Append(log, a)
    /\ UNCHANGED <<watching, replicas, current, go, rpc>>

Assign(slot) == asn = None /\ Change([slot |-> slot, code |-> IDLE])
Promote == asn # None /\ asn.slot # 0 /\ Change([asn EXCEPT !.slot = 0])
Unassign == asn # None /\ Change(None)
-----------------------------------------------------------------------------
\* Faulty variant of Started: only a new replica is served as primary.
StartedOnce(gs, isNew, isSlot0, wasSlot0) ==
    [g \in Goroutine |->
        CASE g = "standby" /\ isNew -> At("play", IDLE)
          [] g = "status" /\ isNew -> At("update", BACKFILL)
          [] g = "primary" /\ isSlot0 /\ isNew -> At("complete", IDLE)
          [] OTHER -> gs[g]]

\* transition: goroutines which a replica starts, as it's assigned or moved to slot zero.
Started(gs, isNew, isSlot0, wasSlot0) ==
    [g \in Goroutine |->
        CASE g = "standby" /\ isNew -> At("play", IDLE)
          [] g = "status" /\ isNew -> At("update", BACKFILL)
          [] g = "primary" /\ isSlot0 /\ ~wasSlot0 -> At("complete", IDLE)
          [] OTHER -> gs[g]]

\* Goroutines which await a revision are nearer to it, by those of a batch.
Nearer(gs, n) ==
    [i \in DOMAIN gs |-> [g \in Goroutine |-> [gs[i][g] EXCEPT !.at = IF @ > n THEN @ - n ELSE 0]]]

Cancelled(rs) == [i \in DOMAIN rs |-> [rs[i] EXCEPT !.cancelled = @ \/ i = current]]

\* updateResolutions, over the last of a batch of n - 1 revisions, starts a replica of a shard
\* which is assigned...
StartReplica(n) ==
    /\ log[n] # None /\ current = 0 /\ Len(replicas) < MaxReplicas
    /\ replicas' = Append(replicas, [NewReplica EXCEPT !.slot = log[n].slot])
    /\ go' = Append(Nearer(go, n - 1),
                    Started([g \in Goroutine |-> Off], TRUE, log[n].slot = 0, FALSE))
    /\ current' = Len(replicas) + 1

\* ... or moves the one it has, though it was removed and assigned again within the batch...
KeepReplica(n) ==
    /\ log[n] # None /\ current # 0
    /\ replicas' = [replicas EXCEPT ![current].slot = log[n].slot,
                        ![current].kept = @ \/ \E k \in 1..n : log[k] = None]
    /\ go' = [Nearer(go, n - 1) EXCEPT ![current] =
                Started(@, FALSE, log[n].slot = 0, replicas[current].slot = 0)]
    /\ UNCHANGED current

\* ... or cancels one which isn't assigned any more.
CancelReplica(n) ==
    /\ log[n] = None
    /\ replicas' = Cancelled(replicas) /\ go' = Nearer(go, n - 1) /\ current' = 0

\* A batch of revisions is applied to the KeySpace.
Observe ==
    \E n \in 2..Len(log) :
        /\ watching
        /\ log' = SubSeq(log, n, Len(log))
        /\ StartReplica(n) \/ KeepReplica(n) \/ CancelReplica(n)
        /\ UNCHANGED <<watching, rpc, budget>>

\* watch returns, and replicas are cancelled.
EndWatch ==
    /\ Spends("ends")
    /\ watching' = FALSE
    /\ replicas' = Cancelled(replicas)
    /\ UNCHANGED <<log, current, go, rpc>>
-----------------------------------------------------------------------------
\* Where a goroutine goes on once it has updated the status.  The primary starts a pump.
Updated(gs, g) ==
    LET goes(h, pc) == [gs EXCEPT ![h] = At(pc, IDLE)]
    IN  CASE gs[g].code = BACKFILL -> goes(g, "watch")
          [] gs[g].code = PRIMARY -> [goes(g, "consume") EXCEPT !["pump"] = At("pump", IDLE)]
          [] OTHER -> goes(g, "done")
Goes(i, g, pc) == go' = [go EXCEPT ![i][g] = At(pc, IDLE)]
Updates(i, g, code) == go' = [go EXCEPT ![i][g] = At("update", code)]

Reduced(code, seen) == IF seen > code THEN seen ELSE code

\* Faulty variant of Unmodified: that the key exists will do.
UnmodifiedOrOther(i) == asn # None

\* The assignment is still as the replica was last transitioned to.
Unmodified(i) == i = current /\ Len(log) = 1 /\ asn # None

\* tryUpdateStatus puts the status by a checked transaction.  An attempt which fails changes
\* nothing, and is made again.
PutStatus(i, g) ==
    /\ go[i][g].pc = "update"
    /\ Unmodified(i)
    /\ log' = Append(log, [asn EXCEPT !.code = Reduced(go[i][g].code, view.code)])
    /\ go' = [go EXCEPT ![i][g].pc = "await", ![i][g].at = Len(log)]
    /\ UNCHANGED <<watching, replicas, current, rpc, budget>>

\* It's done once it observed its revision, or is cancelled.
EndStatus(i, g) ==
    /\ \/ go[i][g].pc = "await" /\ go[i][g].at = 0
       \/ go[i][g].pc \in {"update", "await"} /\ replicas[i].cancelled
    /\ go' = [go EXCEPT ![i] = Updated(@, g)]
    /\ UNCHANGED <<log, watching, replicas, current, rpc, budget>>
-----------------------------------------------------------------------------
\* The player reaches the head of the log...
Tails(i) ==
    /\ go[i]["standby"].pc = "play" /\ ~replicas[i].tailing
    /\ replicas' = [replicas EXCEPT ![i].tailing = TRUE]
    /\ UNCHANGED <<log, watching, current, go, rpc, budget>>

\* ... of which its status is told.
WatchTailing(i) ==
    /\ go[i]["status"].pc = "watch"
    /\ \/ replicas[i].cancelled /\ Goes(i, "status", "done")
       \/ replicas[i].tailing /\ Updates(i, "status", TAILING)
    /\ UNCHANGED <<log, watching, replicas, current, rpc, budget>>

Fails == Spends("failures")

\* playLog returns: once a hand-off is injected by completePlayback, or as it fails.  If it does
\* so before it plays, the player is never done.
EndPlay(i) ==
    /\ go[i]["standby"].pc = "play"
    /\ \/ /\ replicas[i].tailing /\ go[i]["primary"].pc = "complete"
          /\ replicas' = [replicas EXCEPT ![i].played = "ok"]
          /\ Goes(i, "standby", "done")
          /\ UNCHANGED budget
       \/ /\ (replicas[i].cancelled /\ UNCHANGED budget) \/ Fails
          /\ \/ replicas' = [replicas EXCEPT ![i].played = "failed"]
             \/ /\ ~replicas[i].tailing
                /\ replicas' = [replicas EXCEPT ![i].played = "unplayed"]
          /\ Updates(i, "standby", FAILED)
    /\ UNCHANGED <<log, watching, current, rpc>>

\* completePlayback: the player is done and the store is ready, or it fails.  It waits to be
\* cancelled if the player is never done.
CompletePlayback(i) ==
    /\ go[i]["primary"].pc = "complete"
    /\ \/ /\ replicas[i].played = "ok"
          /\ replicas' = [replicas EXCEPT ![i].store = "ready"]
          /\ Updates(i, "primary", PRIMARY)
          /\ UNCHANGED budget
       \/ /\ \/ (replicas[i].cancelled \/ replicas[i].played = "failed") /\ UNCHANGED budget
             \/ replicas[i].played = "ok" /\ Fails
          /\ Updates(i, "primary", FAILED)
          /\ UNCHANGED replicas
    /\ UNCHANGED <<log, watching, current, rpc>>

\* Messages are pumped and consumed until the replica is cancelled or an error occurs.
EndServe(i, g) ==
    /\ go[i][g].pc \in {"consume", "pump"}
    /\ (replicas[i].cancelled /\ UNCHANGED budget) \/ Fails
    /\ Updates(i, g, FAILED)
    /\ UNCHANGED <<log, watching, replicas, current, rpc>>
-----------------------------------------------------------------------------
\* Resolve, of a local primary.  The KeySpace lock is dropped as it waits for the store.
Resolve ==
    /\ rpc.pc = "idle" /\ view # None /\ view.slot = 0
    /\ Spends("rpcs")
    /\ rpc' = [rpc EXCEPT !.pc = "wait", !.r = current]
    /\ UNCHANGED <<log, watching, replicas, current, go>>

\* It's added to the replica's WaitGroup, and uses its store until it's done; or it's cancelled.
Attach ==
    /\ rpc.pc = "wait" /\ replicas[rpc.r].store # "none"
    /\ rpc' = [rpc EXCEPT !.pc = "use", !.late = replicas[rpc.r].waited]
    /\ UNCHANGED <<log, watching, replicas, current, go, budget>>
EndRPC ==
    /\ rpc.pc \in {"wait", "use"}
    /\ rpc' = [pc |-> "idle", r |-> 0, late |-> FALSE]
    /\ UNCHANGED <<log, watching, replicas, current, go, budget>>

\* Faulty variant of WaitGroup: RPCs aren't waited for.
WaitGroupOfServing(i) == {g \in Goroutine \ {"status"} : go[i][g].pc \notin {"off", "done"}}

WaitGroup(i) ==
    {g \in Goroutine \ {"status"} : go[i][g].pc \notin {"off", "done"}}
        \union (IF rpc.pc = "use" /\ rpc.r = i THEN {"rpc"} ELSE {})

\* waitAndTearDown: waits for goroutines which use the replica, and for its appends, and destroys
\* the store.
Wait(i) ==
    /\ replicas[i].cancelled /\ ~replicas[i].waited
    /\ WaitGroup(i) = {}
    /\ replicas' = [replicas EXCEPT ![i].waited = TRUE]
    /\ UNCHANGED <<log, watching, current, go, rpc, budget>>
TearDown(i) ==
    /\ replicas[i].waited /\ ~replicas[i].torn
    /\ replicas' = [replicas EXCEPT ![i].torn = TRUE,
                                    ![i].store = IF @ = "none" THEN @ ELSE "destroyed"]
    /\ UNCHANGED <<log, watching, current, go, rpc, budget>>
-----------------------------------------------------------------------------
Allocates == (\E slot \in {0, 1} : Assign(slot)) \/ Promote \/ Unassign

Serves(i) ==
    \/ Tails(i) \/ WatchTailing(i) \/ EndPlay(i) \/ CompletePlayback(i)
    \/ \E g \in Goroutine : EndServe(i, g)

Next ==
    \/ Allocates \/ Observe \/ EndWatch
    \/ Resolve \/ Attach \/ EndRPC
    \/ \E i \in DOMAIN replicas :
         \/ Serves(i) \/ Wait(i) \/ TearDown(i)
         \/ \E g \in Goroutine : PutStatus(i, g) \/ EndStatus(i, g)

Spec == Init /\ [][Next]_vars

\* Steps of the process' goroutines.  RPCs end; what's served needn't, until it's cancelled.
Runs ==
    \/ Observe \/ EndRPC
    \/ \E i \in DOMAIN replicas :
         \/ Wait(i) \/ TearDown(i)
         \/ Tails(i) \/ WatchTailing(i) \/ EndPlay(i) \/ CompletePlayback(i)
         \/ \E g \in Goroutine :
              \/ replicas[i].cancelled /\ EndServe(i, g)
              \/ PutStatus(i, g) \/ EndStatus(i, g)

\* The scheduler runs a goroutine which isn't blocked.
FairSpec == Spec /\ WF_vars(Runs)
-----------------------------------------------------------------------------
Assignment == {None} \cup [slot : {0, 1}, code : IDLE..FAILED]
ReplicaType ==
    [slot : {0, 1}, kept : BOOLEAN, tailing : BOOLEAN, played : {"no", "ok", "failed", "unplayed"},
     store : {"none", "ready", "destroyed"}, cancelled : BOOLEAN, waited : BOOLEAN,
     torn : BOOLEAN]
GoType ==
    [pc : {"off", "play", "update", "await", "watch", "complete", "consume", "pump", "done"},
     code : IDLE..FAILED, at : Nat]
Routines == [Goroutine -> GoType]

\* The types of the variables.
TypeOK ==
    /\ log \in Seq(Assignment) /\ log # <<>>
    /\ watching \in BOOLEAN
    /\ replicas \in Seq(ReplicaType) /\ Len(replicas) <= MaxReplicas
    /\ current \in 0..Len(replicas)
    /\ go \in Seq(Routines) /\ Len(go) = Len(replicas)
    /\ rpc \in [pc : {"idle", "wait", "use"}, r : 0..Len(replicas), late : BOOLEAN]
    /\ budget \in [{"changes", "failures", "rpcs", "ends"} -> Nat]

\* An advertised status doesn't regress while the assignment is there, though goroutines of the
\* replica race to update it and the allocator moves it.
NeverRegresses ==
    [][asn # None /\ asn' # None => asn'.code >= asn.code]_vars

\* An assignment which is advertised as tailing or primary is of a replica which is.  It's never
\* the word of an earlier replica.
AdvertisedIsServed ==
    watching =>
        /\ asn.code = TAILING => current # 0 /\ replicas[current].tailing
        /\ asn.code = PRIMARY => current # 0 /\ replicas[current].store = "ready"

\* A status which is advertised is true, and stays so.
StatusIsTrue == []AdvertisedIsServed /\ NeverRegresses

\* An RPC which joined the WaitGroup before it was waited for has a store.
HeldStoreLives == rpc.pc = "use" /\ ~rpc.late => replicas[rpc.r].store = "ready"

\* Every replica which is cancelled is torn down.
TornDown == \A i \in DOMAIN replicas : replicas[i].cancelled => replicas[i].torn

\* An assignment for which a replica was started is reported as primary, or failed.
Reported ==
    (/\ watching /\ asn # None /\ asn.slot = 0
     /\ current # 0 /\ ~replicas[current].kept) => asn.code \in {PRIMARY, FAILED}

\* What the allocator asks of replicas is done in the end, and stays so, though their goroutines
\* fail, race and wait for one another.
Settles == <>[](TornDown /\ Reported)
=============================================================================
