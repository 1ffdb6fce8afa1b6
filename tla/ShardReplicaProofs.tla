------------------------- MODULE ShardReplicaProofs -------------------------
(***************************************************************************)
(* Proofs about the replicas of a shard in one consumer process, for any   *)
(* number of replicas, of changes of the assignment, of failures and RPCs: *)
(* an RPC which joined a replica's WaitGroup in time has a store, and a    *)
(* status which is advertised is that of the replica which is served, and  *)
(* never regresses while the assignment is there.                          *)
(*                                                                         *)
(* The second is about the last revision of the assignment, which this     *)
(* process may have yet to observe.  The inductive invariant thus speaks   *)
(* of every revision from its view to the last: one with a status of some  *)
(* replica has no removal before it (Unbroken), as a status is put only    *)
(* when the view is at the last revision; and so the replica it's true of  *)
(* is the current one, which Observe keeps (AllServed).  What a goroutine  *)
(* puts is true by the time that it does (Truthful), and a current replica *)
(* isn't torn down (TornInOrder, ReplicasOK).                              *)
(***************************************************************************)
EXTENDS ShardReplica, TLAPS

\* There is a current replica if the view has an assignment (updateResolutions).
Follows == view = None <=> current = 0

\* A revision whose status was put by a replica follows no removal of the assignment.
Unbroken ==
    \A n \in DOMAIN log : log[n].code > IDLE => \A k \in 1..n : log[k] # None

\* What an assignment's status says is so of the current replica.
Served(a) ==
    /\ a.code = TAILING => current # 0 /\ replicas[current].tailing
    /\ a.code = PRIMARY => current # 0 /\ replicas[current].store = "ready"
\* It's so of each revision which is yet to be observed.
AllServed == watching => \A n \in DOMAIN log : Served(log[n])

\* What the goroutines of a replica put as their status, or wait to see, is so.
Truthful(r, gs) ==
    \A g \in Goroutine : gs[g].pc \in {"update", "await"} =>
        /\ gs[g].code = TAILING => r.tailing
        /\ gs[g].code = PRIMARY => r.store # "none" /\ g = "primary"

\* Goroutines which a replica's WaitGroup counts.
Using == Goroutine \ {"status"}
\* They have ended, or were never started.
Ended(gs) == \A g \in Using : gs[g].pc \in {"off", "done"}

\* A store is destroyed by tear-down, which follows Wait, which follows cancellation and the end
\* of all goroutines.
TornInOrder(r, gs) ==
    /\ r.store = "destroyed" => r.torn
    /\ r.torn => r.waited
    /\ r.waited => r.cancelled /\ Ended(gs)

\* Every replica is so, and the current one isn't cancelled until the watch ends.
ReplicasOK == \A i \in DOMAIN replicas :
    /\ Truthful(replicas[i], go[i])
    /\ TornInOrder(replicas[i], go[i])
    /\ watching /\ i = current => ~replicas[i].cancelled

\* An RPC is of some replica; if it joined the WaitGroup in time it isn't waited for yet.
Attached ==
    /\ rpc.pc # "idle" => rpc.r # 0
    /\ rpc.pc = "use" /\ ~rpc.late =>
            ~replicas[rpc.r].waited /\ replicas[rpc.r].store = "ready"

\* The inductive invariant.
Inv == TypeOK /\ Follows /\ Unbroken /\ AllServed /\ ReplicasOK /\ Attached

-----------------------------------------------------------------------------
USE DEF IDLE, BACKFILL, TAILING, PRIMARY, FAILED

\* It holds before the shard is assigned.
LEMMA InitInv == Init => Inv
<1> SUFFICES ASSUME Init PROVE Inv
  OBVIOUS
<1> USE DEF Init
<1>1. log \in Seq(Assignment) /\ log # <<>> /\ Len(log) = 1 /\ log[1] = None
  BY DEF Assignment
<1>2. TypeOK
  BY <1>1, ReplicaAssumption DEF TypeOK
<1>3. Follows /\ Unbroken /\ AllServed
  BY <1>1 DEF Follows, view, Unbroken, AllServed, Served, None
<1>4. ReplicasOK /\ Attached
  BY DEF ReplicasOK, Attached
<1>5. QED
  BY <1>2, <1>3, <1>4 DEF Inv

\* None is told from an assignment by its code.
LEMMA NoneIs ==
    /\ None \in Assignment /\ None.code = -1
    /\ \A a \in Assignment : a.code \in -1..4 /\ (a = None <=> a.code = -1)
BY DEF None, Assignment

\* A revision which is appended is the last one, and the view stays.
LEMMA LogAppend ==
    ASSUME TypeOK, NEW a \in Assignment, log' = Append(log, a)
    PROVE  /\ log' \in Seq(Assignment) /\ log' # <<>>
           /\ Len(log') = Len(log) + 1 /\ DOMAIN log' = 1..(Len(log) + 1)
           /\ Len(log) \in Nat \ {0} /\ DOMAIN log = 1..Len(log)
           /\ \A n \in DOMAIN log : log'[n] = log[n] /\ log[n] \in Assignment
           /\ log'[Len(log) + 1] = a
           /\ view' = view /\ view = log[1] /\ asn' = a /\ asn = log[Len(log)]
<1>1. log \in Seq(Assignment) /\ log # <<>>
  BY DEF TypeOK
<1>2. Len(log) \in Nat \ {0} /\ DOMAIN log = 1..Len(log)
  BY <1>1
<1>3. /\ log' \in Seq(Assignment) /\ log' # <<>>
      /\ Len(log') = Len(log) + 1 /\ DOMAIN log' = 1..(Len(log) + 1)
      /\ \A n \in DOMAIN log : log'[n] = log[n] /\ log[n] \in Assignment
      /\ log'[Len(log) + 1] = a
  BY <1>1, <1>2
<1>4. view' = view /\ view = log[1]
  BY <1>1, <1>2, <1>3 DEF view
<1>5. asn' = a /\ asn = log[Len(log)]
  BY <1>1, <1>2, <1>3 DEF asn
<1>6. QED
  BY <1>1, <1>2, <1>3, <1>4, <1>5

\* The view is the first revision of the log, and the assignment the last.
LEMMA LogSame ==
    ASSUME TypeOK
    PROVE  /\ log \in Seq(Assignment) /\ Len(log) \in Nat \ {0} /\ DOMAIN log = 1..Len(log)
           /\ view = log[1] /\ asn = log[Len(log)]
           /\ \A n \in DOMAIN log : log[n] \in Assignment
<1>1. log \in Seq(Assignment) /\ log # <<>>
  BY DEF TypeOK
<1>2. QED
  BY <1>1 DEF view, asn

\* Changes by the allocator: none of them takes a status back, or makes one.
LEMMA ChangeStep ==
    ASSUME Inv, Allocates
    PROVE  Inv' /\ (asn # None /\ asn' # None => asn'.code >= asn.code)
<1> USE DEF Inv
<1>1. PICK a : Change(a) /\ a \in Assignment
              /\ (a.code > IDLE => asn.code = a.code)
              /\ (asn # None /\ a # None => asn.code = a.code)
  <2>1. asn \in Assignment
    BY LogSame
  <2>2. CASE \E slot \in {0, 1} : Assign(slot)
    BY <2>2, <2>1, NoneIs DEF Assign, Assignment, None
  <2>3. CASE Promote
    <3>1. [asn EXCEPT !.slot = 0] \in Assignment /\ [asn EXCEPT !.slot = 0].code = asn.code
      BY <2>3, <2>1 DEF Promote, Assignment
    <3>2. QED
      BY <2>3, <3>1 DEF Promote
  <2>4. CASE Unassign
    BY <2>4, NoneIs DEF Unassign
  <2>5. QED
    BY <2>2, <2>3, <2>4 DEF Allocates
<1>2. log' = Append(log, a) /\ UNCHANGED <<watching, replicas, current, go, rpc>> /\ Spends("changes")
  BY <1>1 DEF Change
<1>3. budget' \in [{"changes", "failures", "rpcs", "ends"} -> Nat]
  BY <1>2 DEF Spends, TypeOK
<1>4. TypeOK'
  BY <1>1, <1>2, <1>3, LogAppend DEF TypeOK
<1>5. Follows'
  BY <1>1, <1>2, LogAppend DEF Follows
<1>6. Unbroken'
  BY <1>1, <1>2, LogAppend, NoneIs DEF Unbroken
<1>7. AllServed'
  BY <1>1, <1>2, LogAppend DEF AllServed, Served
<1>8. ReplicasOK' /\ Attached'
  BY <1>2 DEF ReplicasOK, Attached, Truthful, TornInOrder, Ended, Using
<1>9. asn # None /\ asn' # None => asn'.code >= asn.code
  BY <1>1, <1>2, LogAppend, NoneIs
<1>10. QED
  BY <1>4, <1>5, <1>6, <1>7, <1>8, <1>9

\* What is left of the log once revisions through the n'th were observed.
LEMMA LogTail ==
    ASSUME TypeOK, NEW n \in 2..Len(log), log' = SubSeq(log, n, Len(log))
    PROVE  /\ log' \in Seq(Assignment) /\ log' # <<>>
           /\ DOMAIN log' = 1..(Len(log) - n + 1)
           /\ \A k \in DOMAIN log' : k + n - 1 \in DOMAIN log /\ log'[k] = log[k + n - 1]
           /\ view' = log[n] /\ asn' = asn
<1>1. log \in Seq(Assignment) /\ Len(log) \in Nat \ {0} /\ DOMAIN log = 1..Len(log)
  BY LogSame
<1>2. /\ log' \in Seq(Assignment) /\ log' # <<>> /\ Len(log') = Len(log) - n + 1
      /\ DOMAIN log' = 1..(Len(log) - n + 1)
      /\ \A k \in DOMAIN log' : k + n - 1 \in DOMAIN log /\ log'[k] = log[k + n - 1]
  <2>1. Len(log') = Len(log) - n + 1 /\ Len(log') \in Nat \ {0}
    BY <1>1
  <2>2. log' \in Seq(Assignment) /\ log' # <<>>
    <3>1. ASSUME NEW q \in Seq(Assignment), NEW m \in 1..Len(q) PROVE SubSeq(q, m, Len(q)) \in Seq(Assignment)
      OBVIOUS
    <3>2. log' \in Seq(Assignment)
      BY <1>1, <3>1
    <3>3. log' # <<>>
      BY <2>1
    <3>4. QED
      BY <3>2, <3>3
  <2>3. DOMAIN log' = 1..(Len(log) - n + 1)
    BY <2>1, <2>2
  <2>4. ASSUME NEW k \in DOMAIN log'
        PROVE  k + n - 1 \in DOMAIN log /\ log'[k] = log[k + n - 1]
    BY <1>1, <2>3
  <2>5. QED
    BY <2>1, <2>2, <2>3, <2>4
<1>3. view' = log[n]
  BY <1>1, <1>2 DEF view
<1>4. asn' = asn
  BY <1>1, <1>2 DEF asn
<1>5. QED
  BY <1>2, <1>3, <1>4

\* Goroutines which are nearer to a revision are otherwise as they were.
LEMMA NearerSame ==
    ASSUME TypeOK, NEW n \in Nat
    PROVE  /\ Nearer(go, n) \in Seq(Routines) /\ Len(Nearer(go, n)) = Len(go)
           /\ DOMAIN Nearer(go, n) = DOMAIN go
           /\ \A i \in DOMAIN go, g \in Goroutine :
                 Nearer(go, n)[i][g].pc = go[i][g].pc /\ Nearer(go, n)[i][g].code = go[i][g].code
<1> USE DEF Routines
<1>1. /\ go \in Seq(Routines) /\ DOMAIN go = 1..Len(go) /\ Len(go) \in Nat
      /\ \A i \in DOMAIN go : go[i] \in Routines
  BY DEF TypeOK
<1>2. ASSUME NEW x \in GoType
      PROVE  /\ [x EXCEPT !.at = IF @ > n THEN @ - n ELSE 0] \in GoType
             /\ [x EXCEPT !.at = IF @ > n THEN @ - n ELSE 0].pc = x.pc
             /\ [x EXCEPT !.at = IF @ > n THEN @ - n ELSE 0].code = x.code
  BY DEF GoType
<1>3. \A i \in DOMAIN go, g \in Goroutine : go[i][g] \in GoType
  BY <1>1
<1>4. ASSUME NEW i \in DOMAIN go
      PROVE  [g \in Goroutine |-> [go[i][g] EXCEPT !.at = IF @ > n THEN @ - n ELSE 0]]
                \in Routines
  BY <1>2, <1>3
<1>5. Nearer(go, n) \in [1..Len(go) -> Routines]
  BY <1>1, <1>4 DEF Nearer
<1>6. Nearer(go, n) \in Seq(Routines) /\ Len(Nearer(go, n)) = Len(go)
  BY <1>1, <1>5
<1>7. ASSUME NEW i \in DOMAIN go, NEW g \in Goroutine
      PROVE  Nearer(go, n)[i][g].pc = go[i][g].pc /\ Nearer(go, n)[i][g].code = go[i][g].code
  BY <1>2, <1>3 DEF Nearer
<1>8. DOMAIN Nearer(go, n) = DOMAIN go
  BY DEF Nearer
<1>9. QED
  BY <1>6, <1>7, <1>8

\* The initial states of goroutines and replicas have their types.
LEMMA OffType == Off \in GoType /\ NewReplica \in ReplicaType
BY DEF Off, At, GoType, NewReplica, ReplicaType

\* A goroutine which was just started.
Fresh(x) == x.pc \in {"play", "complete"} \/ (x.pc = "update" /\ x.code = BACKFILL)
\* z is gs but for goroutines which were started.
IsStarted(gs, z) == z \in Routines /\ \A g \in Goroutine : z[g] = gs[g] \/ Fresh(z[g])

\* transition only starts goroutines.
LEMMA StartedOK ==
    ASSUME NEW gs \in Routines, NEW isNew, NEW x, NEW y, NEW z, z = Started(gs, isNew, x, y)
    PROVE  IsStarted(gs, z)
<1> USE DEF Routines
<1>1. ASSUME NEW pc \in {"play", "complete", "update"}, NEW code \in 0..4
      PROVE  At(pc, code) \in GoType /\ At(pc, code).pc = pc /\ At(pc, code).code = code
  BY DEF At, GoType
<1>2. At("play", IDLE) \in GoType /\ At("complete", IDLE) \in GoType /\ At("update", BACKFILL) \in GoType
      /\ Fresh(At("play", IDLE)) /\ Fresh(At("complete", IDLE)) /\ Fresh(At("update", BACKFILL))
  BY <1>1 DEF Fresh
<1>3. ASSUME NEW g \in Goroutine
      PROVE  z[g] \in GoType /\ (z[g] = gs[g] \/ Fresh(z[g]))
  <2>1. z[g] \in {gs[g], At("play", IDLE), At("complete", IDLE), At("update", BACKFILL)}
    BY DEF Started
  <2>2. QED
    BY <1>2, <2>1
<1>4. z = [g \in Goroutine |-> z[g]]
  BY DEF Started
<1>5. QED
  BY <1>3, <1>4 DEF IsStarted

\* cancelReplicas changes nothing else.
LEMMA CancelledOK ==
    ASSUME TypeOK
    PROVE  /\ Cancelled(replicas) \in Seq(ReplicaType) /\ Len(Cancelled(replicas)) = Len(replicas)
           /\ DOMAIN Cancelled(replicas) = DOMAIN replicas
           /\ \A i \in DOMAIN replicas : LET r == Cancelled(replicas)[i] IN
                /\ r.cancelled = (replicas[i].cancelled \/ i = current)
                /\ r.tailing = replicas[i].tailing /\ r.store = replicas[i].store
                /\ r.waited = replicas[i].waited /\ r.torn = replicas[i].torn
<1>1. /\ replicas \in Seq(ReplicaType) /\ DOMAIN replicas = 1..Len(replicas) /\ Len(replicas) \in Nat
      /\ \A i \in DOMAIN replicas : replicas[i] \in ReplicaType
  BY DEF TypeOK
<1>2. ASSUME NEW x \in ReplicaType, NEW c \in BOOLEAN
      PROVE  LET r == [x EXCEPT !.cancelled = @ \/ c] IN
             /\ r \in ReplicaType
             /\ r.cancelled = (x.cancelled \/ c)
             /\ r.tailing = x.tailing /\ r.store = x.store
             /\ r.waited = x.waited /\ r.torn = x.torn
  BY DEF ReplicaType
<1>3. ASSUME NEW i \in DOMAIN replicas PROVE [replicas[i] EXCEPT !.cancelled = @ \/ i = current] \in ReplicaType
  BY <1>1, <1>2
<1>4. Cancelled(replicas) \in [1..Len(replicas) -> ReplicaType]
  BY <1>1, <1>3 DEF Cancelled
<1>5. Cancelled(replicas) \in Seq(ReplicaType) /\ Len(Cancelled(replicas)) = Len(replicas)
      /\ DOMAIN Cancelled(replicas) = DOMAIN replicas
  BY <1>1, <1>4
<1>6. ASSUME NEW i \in DOMAIN replicas
      PROVE  LET r == Cancelled(replicas)[i] IN
                /\ r.cancelled = (replicas[i].cancelled \/ i = current)
                /\ r.tailing = replicas[i].tailing /\ r.store = replicas[i].store
                /\ r.waited = replicas[i].waited /\ r.torn = replicas[i].torn
  <2>1. Cancelled(replicas)[i] = [replicas[i] EXCEPT !.cancelled = @ \/ i = current]
    BY DEF Cancelled
  <2>2. QED
    BY <1>1, <1>2, <2>1
<1>7. QED
  BY <1>5, <1>6

\* p is q with x appended.
IsAppended(S, q, x, p) ==
    /\ p \in Seq(S) /\ Len(p) = Len(q) + 1 /\ DOMAIN p = 1..(Len(q) + 1)
    /\ \A i \in 1..Len(q) : p[i] = q[i]
    /\ p[Len(q) + 1] = x

\* What Append does.
LEMMA AppendFacts ==
    ASSUME NEW S, NEW q \in Seq(S), NEW x \in S, NEW p, p = Append(q, x)
    PROVE  IsAppended(S, q, x, p)
BY DEF IsAppended

\* p is q with its i'th element replaced by x.
IsReplaced(S, q, i, x, p) ==
    /\ p \in Seq(S) /\ Len(p) = Len(q) /\ DOMAIN p = DOMAIN q
    /\ \A k \in DOMAIN q : k # i => p[k] = q[k]
    /\ p[i] = x

\* What EXCEPT does to a sequence.
LEMMA ExceptFacts ==
    ASSUME NEW S, NEW q \in Seq(S), NEW x \in S, NEW i \in DOMAIN q, NEW p,
           p = [q EXCEPT ![i] = x]
    PROVE  IsReplaced(S, q, i, x, p)
BY DEF IsReplaced

\* An RPC's replica is still one as others are started.
LEMMA RpcType ==
    ASSUME TypeOK, UNCHANGED rpc, Len(replicas') \in Nat, Len(replicas') >= Len(replicas)
    PROVE  rpc' \in [pc : {"idle", "wait", "use"}, r : 0..Len(replicas'), late : BOOLEAN]
<1>1. Len(replicas) \in Nat
  BY DEF TypeOK
<1>2. QED
  BY <1>1 DEF TypeOK

\* updateResolutions starts a replica, of which nothing is advertised yet.
LEMMA StartsReplica ==
    ASSUME Inv, watching, NEW n \in 2..Len(log), log' = SubSeq(log, n, Len(log)),
           StartReplica(n), UNCHANGED <<watching, rpc, budget>>
    PROVE  Inv'
<1> USE DEF Inv
<1> DEFINE gs == Nearer(go, n - 1)
<1>0. log[n] # None /\ current = 0 /\ Len(replicas) < MaxReplicas /\ current' = Len(replicas) + 1
  BY DEF StartReplica
<1> DEFINE next == [NewReplica EXCEPT !.slot = log[n].slot]
           off == [g \in Goroutine |-> Off]
           started == Started(off, TRUE, log[n].slot = 0, FALSE)
<1>b. replicas' = Append(replicas, next) /\ go' = Append(gs, started)
  BY DEF StartReplica
<1>c. next \in ReplicaType /\ next.store = "none" /\ ~next.torn /\ ~next.waited /\ ~next.cancelled
  <2>1. log[n] \in Assignment
    BY LogSame
  <2>2. log[n].slot \in {0, 1}
    BY <1>0, <2>1 DEF Assignment
  <2>3. QED
    BY <2>2 DEF NewReplica, ReplicaType
<1>d. started \in Routines /\ \A g \in Goroutine : started[g].pc = "off" \/ Fresh(started[g])
  <2>1. off \in Routines /\ \A g \in Goroutine : off[g].pc = "off"
    BY OffType DEF Routines, Off, At
  <2> HIDE DEF off
  <2>2. IsStarted(off, started)
    BY <2>1, StartedOK
  <2> HIDE DEF started
  <2>3. QED
    BY <2>1, <2>2 DEF IsStarted
<1> HIDE DEF off, next, started
<1>1. /\ replicas \in Seq(ReplicaType) /\ Len(replicas) \in Nat /\ DOMAIN replicas = 1..Len(replicas)
      /\ go \in Seq(Routines) /\ Len(go) = Len(replicas) /\ DOMAIN go = 1..Len(go)
      /\ MaxReplicas \in Nat
  BY ReplicaAssumption DEF TypeOK
<1>2. /\ gs \in Seq(Routines) /\ Len(gs) = Len(go) /\ DOMAIN gs = DOMAIN go
      /\ \A i \in DOMAIN go, g \in Goroutine :
            gs[i][g].pc = go[i][g].pc /\ gs[i][g].code = go[i][g].code
  <2>1. n - 1 \in Nat
    BY LogSame
  <2>2. QED
    BY <2>1, NearerSame
<1> HIDE DEF gs
<1>3. /\ replicas' \in Seq(ReplicaType) /\ Len(replicas') = Len(replicas) + 1
      /\ DOMAIN replicas' = 1..(Len(replicas) + 1)
      /\ \A i \in DOMAIN replicas : replicas'[i] = replicas[i]
      /\ replicas'[Len(replicas) + 1] = next
  BY <1>1, <1>b, <1>c
<1>4. /\ go' \in Seq(Routines) /\ Len(go') = Len(replicas) + 1
      /\ \A i \in DOMAIN replicas : go'[i] = gs[i]
      /\ go'[Len(replicas) + 1] = started
  <2>1. go' = Append(gs, started)
    BY <1>b
  <2>2. /\ go' \in Seq(Routines) /\ Len(go') = Len(gs) + 1
        /\ \A i \in 1..Len(gs) : go'[i] = gs[i]
        /\ go'[Len(gs) + 1] = started
    <3>1. IsAppended(Routines, gs, started, go')
      BY <1>2, <1>d, <2>1, AppendFacts
    <3>2. QED
      BY <3>1 DEF IsAppended
  <2>3. QED
    BY <1>1, <1>2, <2>2
<1>5. TypeOK'
  <2>1. rpc' \in [pc : {"idle", "wait", "use"}, r : 0..Len(replicas'), late : BOOLEAN]
    BY <1>1, <1>3, RpcType
  <2>2. Len(replicas') <= MaxReplicas /\ current' \in 0..Len(replicas') /\ Len(go') = Len(replicas')
    BY <1>0, <1>1, <1>3, <1>4
  <2>3. log' \in Seq(Assignment) /\ log' # <<>>
    BY LogTail
  <2>4. QED
    BY <1>3, <1>4, <2>1, <2>2, <2>3 DEF TypeOK
<1>6. Follows'
  BY <1>0, <1>1, LogTail DEF Follows
<1>7. ASSUME NEW k \in DOMAIN log
      PROVE  ~(log[k].code > 0) /\ log[k].code # 2 /\ log[k].code # 3
  <2>1. log[1] = None /\ 1 \in 1..k /\ log[k].code \in -1..4
    BY <1>0, LogSame, NoneIs DEF Follows
  <2>2. ~(log[k].code > 0)
    BY <2>1 DEF Unbroken
  <2>3. QED
    BY <2>1, <2>2
<1>8. Unbroken' /\ AllServed'
  <2>1. ASSUME NEW k \in DOMAIN log'
        PROVE  ~(log'[k].code > 0) /\ log'[k].code # 2 /\ log'[k].code # 3
    BY <1>7, LogTail
  <2>2. Unbroken'
    BY <2>1 DEF Unbroken
  <2>3. ASSUME NEW k \in DOMAIN log' PROVE Served(log[k])'
    BY <2>1 DEF Served
  <2>4. QED
    BY <2>2, <2>3 DEF AllServed
<1>9. ReplicasOK'
  <2>1. ASSUME NEW i \in DOMAIN replicas
        PROVE  Truthful(replicas'[i], go'[i]) /\ TornInOrder(replicas'[i], go'[i])
    <3>1. replicas'[i] = replicas[i] /\ go'[i] = gs[i] /\ i \in DOMAIN go
      BY <1>1, <1>3, <1>4
    <3>2. \A g \in Goroutine : gs[i][g].pc = go[i][g].pc /\ gs[i][g].code = go[i][g].code
      BY <1>2, <3>1
    <3>3. Truthful(replicas[i], go[i]) /\ TornInOrder(replicas[i], go[i])
      BY DEF ReplicasOK
    <3>4. Truthful(replicas[i], gs[i])
      BY <3>2, <3>3 DEF Truthful
    <3>a. TornInOrder(replicas[i], gs[i])
      BY <3>2, <3>3 DEF TornInOrder, Ended, Using
    <3>5. QED
      BY <3>1, <3>4, <3>a
  <2>2. Truthful(next, started) /\ TornInOrder(next, started)
    BY <1>c, <1>d DEF Truthful, TornInOrder, Fresh
  <2>3. QED
    BY <1>0, <1>1, <1>3, <1>4, <1>c, <2>1, <2>2 DEF ReplicasOK
<1>10. Attached'
  <2>1. rpc.pc # "idle" => rpc.r \in DOMAIN replicas
    BY <1>1 DEF Attached, TypeOK
  <2>2. QED
    BY <1>3, <2>1 DEF Attached
<1>11. QED
  BY <1>5, <1>6, <1>8, <1>9, <1>10

\* updateResolutions keeps the replica, and what is advertised stays true of it.
LEMMA KeepsReplica ==
    ASSUME Inv, watching, NEW n \in 2..Len(log), log' = SubSeq(log, n, Len(log)),
           KeepReplica(n), UNCHANGED <<watching, rpc, budget>>
    PROVE  Inv'
<1> USE DEF Inv
<1> DEFINE gs == Nearer(go, n - 1)
<1>0. log[n] # None /\ current # 0 /\ UNCHANGED current
  BY DEF KeepReplica
<1>1. /\ replicas \in Seq(ReplicaType) /\ Len(replicas) \in Nat /\ DOMAIN replicas = 1..Len(replicas)
      /\ go \in Seq(Routines) /\ Len(go) = Len(replicas) /\ DOMAIN go = 1..Len(go)
      /\ MaxReplicas \in Nat /\ current \in DOMAIN replicas
  BY <1>0, ReplicaAssumption DEF TypeOK
<1>2. /\ gs \in Seq(Routines) /\ Len(gs) = Len(go) /\ DOMAIN gs = DOMAIN go
      /\ \A i \in DOMAIN go, g \in Goroutine :
            gs[i][g].pc = go[i][g].pc /\ gs[i][g].code = go[i][g].code
  <2>1. n - 1 \in Nat
    BY LogSame
  <2>2. QED
    BY <2>1, NearerSame
<1> DEFINE r == replicas[current]
           kept == r.kept \/ \E k \in 1..n : log[k] = None
           next == [r EXCEPT !.slot = log[n].slot, !.kept = kept]
           started == Started(gs[current], FALSE, log[n].slot = 0, r.slot = 0)
<1>b. replicas' = [replicas EXCEPT ![current] = next] /\ go' = [gs EXCEPT ![current] = started]
  <2>1. replicas' = [replicas EXCEPT ![current] = next]
    BY <1>0, <1>1 DEF KeepReplica
  <2>2. go' = [gs EXCEPT ![current] = started]
    BY DEF KeepReplica
  <2>3. QED
    BY <2>1, <2>2
<1>c. /\ next \in ReplicaType /\ next.store = r.store /\ next.tailing = r.tailing
      /\ next.torn = r.torn /\ next.waited = r.waited /\ next.cancelled = r.cancelled
  <2>1. r \in ReplicaType /\ log[n] \in Assignment
    BY <1>1, LogSame
  <2>2. kept \in BOOLEAN /\ log[n].slot \in {0, 1}
    BY <1>0, <2>1 DEF Assignment, ReplicaType
  <2> HIDE DEF kept, r
  <2>3. QED
    BY <2>1, <2>2 DEF ReplicaType
<1>a. started \in Routines /\ \A g \in Goroutine : started[g] = gs[current][g] \/ Fresh(started[g])
  <2>1. gs[current] \in Routines
    BY <1>1, <1>2
  <2>2. IsStarted(gs[current], started)
    <3> HIDE DEF gs, r
    <3>1. QED
      BY <2>1, StartedOK
  <2> HIDE DEF started
  <2>3. QED
    BY <2>2 DEF IsStarted
<1> HIDE DEF gs, kept, next, started
<1>3. /\ replicas' \in Seq(ReplicaType) /\ Len(replicas') = Len(replicas)
      /\ DOMAIN replicas' = DOMAIN replicas
      /\ \A i \in DOMAIN replicas : i # current => replicas'[i] = replicas[i]
      /\ replicas'[current] = next
  BY <1>1, <1>b, <1>c
<1>4. /\ go' \in Seq(Routines) /\ Len(go') = Len(replicas)
      /\ \A i \in DOMAIN replicas : i # current => go'[i] = gs[i]
      /\ go'[current] = started
  <2>1. current \in DOMAIN gs
    BY <1>1, <1>2
  <2>2. /\ go' \in Seq(Routines) /\ Len(go') = Len(gs)
        /\ \A i \in DOMAIN gs : i # current => go'[i] = gs[i]
        /\ go'[current] = started
    <3>1. IsReplaced(Routines, gs, current, started, go')
      BY <1>2, <1>a, <1>b, <2>1, ExceptFacts
    <3>2. QED
      BY <3>1 DEF IsReplaced
  <2>3. QED
    BY <1>1, <1>2, <2>2
<1>5. TypeOK'
  BY <1>0, <1>1, <1>3, <1>4, LogTail DEF TypeOK
<1>6. Follows'
  BY <1>0, LogTail DEF Follows
<1>7. Unbroken'
  <2>1. ASSUME NEW k \in DOMAIN log', log'[k].code > IDLE, NEW j \in 1..k
        PROVE  log'[j] # None
    <3>1. k \in 1..(Len(log) - n + 1) /\ j \in DOMAIN log' /\ j + n - 1 \in 1..(k + n - 1) /\ k + n - 1 \in DOMAIN log
      BY LogTail, LogSame
    <3>2. log'[k] = log[k + n - 1] /\ log'[j] = log[j + n - 1]
      BY <3>1, LogTail
    <3>3. QED
      BY <2>1, <3>1, <3>2 DEF Unbroken
  <2>2. QED
    BY <2>1 DEF Unbroken
<1>8. AllServed'
  <2>1. ASSUME NEW k \in DOMAIN log' PROVE Served(log[k])'
    <3>1. k + n - 1 \in DOMAIN log /\ log'[k] = log[k + n - 1]
      BY LogTail
    <3>2. Served(log[k + n - 1])
      BY <3>1 DEF AllServed
    <3>3. QED
      BY <1>0, <1>3, <1>c, <3>1, <3>2 DEF Served
  <2>2. QED
    BY <2>1 DEF AllServed
<1>9. ReplicasOK'
  <2>1. ASSUME NEW i \in DOMAIN replicas, i # current
        PROVE  Truthful(replicas'[i], go'[i]) /\ TornInOrder(replicas'[i], go'[i])
    <3>1. replicas'[i] = replicas[i] /\ go'[i] = gs[i] /\ i \in DOMAIN go
      BY <1>1, <1>3, <1>4, <2>1
    <3>2. \A g \in Goroutine : gs[i][g].pc = go[i][g].pc /\ gs[i][g].code = go[i][g].code
      BY <1>2, <3>1
    <3>3. Truthful(replicas[i], go[i]) /\ TornInOrder(replicas[i], go[i])
      BY DEF ReplicasOK
    <3>4. Truthful(replicas[i], gs[i])
      BY <3>2, <3>3 DEF Truthful
    <3>a. TornInOrder(replicas[i], gs[i])
      BY <3>2, <3>3 DEF TornInOrder, Ended, Using
    <3>5. QED
      BY <3>1, <3>4, <3>a
  <2>2. current \in DOMAIN go /\ ~replicas[current].cancelled /\ ~next.waited
    BY <1>1, <1>c DEF ReplicasOK, TornInOrder
  <2>3. TornInOrder(next, started)
    BY <1>1, <1>c, <2>2 DEF ReplicasOK, TornInOrder
  <2>4. Truthful(next, started)
    <3>1. Truthful(next, go[current])
      BY <1>1, <1>c DEF ReplicasOK, Truthful
    <3>2. \A g \in Goroutine : gs[current][g].pc = go[current][g].pc
                                 /\ gs[current][g].code = go[current][g].code
      BY <1>2, <2>2
    <3>3. Truthful(next, gs[current])
      BY <3>1, <3>2 DEF Truthful
    <3>4. QED
      BY <1>a, <3>3 DEF Truthful, Fresh
  <2>5. QED
    BY <1>0, <1>1, <1>3, <1>4, <1>c, <2>1, <2>2, <2>3, <2>4 DEF ReplicasOK
<1>10. Attached'
  <2>1. rpc.pc # "idle" => rpc.r \in DOMAIN replicas
    BY <1>1 DEF Attached, TypeOK
  <2>2. QED
    BY <1>3, <1>c, <2>1 DEF Attached
<1>11. QED
  BY <1>5, <1>6, <1>7, <1>8, <1>9, <1>10

\* updateResolutions cancels the replica, after which no revision has a status.
LEMMA LosesReplica ==
    ASSUME Inv, watching, NEW n \in 2..Len(log), log' = SubSeq(log, n, Len(log)),
           CancelReplica(n), UNCHANGED <<watching, rpc, budget>>
    PROVE  Inv'
<1> USE DEF CancelReplica
<1> USE DEF Inv
<1>1. /\ replicas \in Seq(ReplicaType) /\ Len(replicas) \in Nat /\ DOMAIN replicas = 1..Len(replicas)
      /\ go \in Seq(Routines) /\ Len(go) = Len(replicas) /\ DOMAIN go = 1..Len(go)
      /\ MaxReplicas \in Nat
  BY ReplicaAssumption DEF TypeOK
<1>2. /\ go' \in Seq(Routines) /\ Len(go') = Len(go) /\ DOMAIN go' = DOMAIN go
      /\ \A i \in DOMAIN go, g \in Goroutine :
            go'[i][g].pc = go[i][g].pc /\ go'[i][g].code = go[i][g].code
  <2>1. n - 1 \in Nat
    BY LogSame
  <2>2. QED
    BY <2>1, NearerSame
<1>3. /\ replicas' \in Seq(ReplicaType) /\ Len(replicas') = Len(replicas)
      /\ DOMAIN replicas' = DOMAIN replicas
      /\ \A i \in DOMAIN replicas :
            /\ replicas'[i].cancelled = (replicas[i].cancelled \/ i = current)
            /\ replicas'[i].tailing = replicas[i].tailing /\ replicas'[i].store = replicas[i].store
            /\ replicas'[i].waited = replicas[i].waited /\ replicas'[i].torn = replicas[i].torn
  BY CancelledOK
<1>4. TypeOK'
  <2>1. rpc' \in [pc : {"idle", "wait", "use"}, r : 0..Len(replicas'), late : BOOLEAN]
    BY <1>1, <1>3, RpcType
  <2>2. Len(replicas') <= MaxReplicas /\ current' \in 0..Len(replicas') /\ Len(go') = Len(replicas')
    BY <1>1, <1>2, <1>3 DEF TypeOK
  <2>3. log' \in Seq(Assignment) /\ log' # <<>>
    BY LogTail
  <2>4. QED
    BY <1>2, <1>3, <2>1, <2>2, <2>3 DEF TypeOK
<1>5. Follows'
  BY LogTail DEF Follows
<1>6. ASSUME NEW k \in DOMAIN log'
      PROVE  ~(log'[k].code > 0) /\ log'[k].code # 2 /\ log'[k].code # 3
  <2>1. k + n - 1 \in DOMAIN log /\ log'[k] = log[k + n - 1] /\ log[k + n - 1].code \in -1..4
    BY LogTail, LogSame, NoneIs
  <2>2. n \in 1..(k + n - 1)
    BY LogTail, LogSame
  <2>3. ~(log[k + n - 1].code > 0)
    BY <2>1, <2>2 DEF Unbroken
  <2>4. QED
    BY <2>1, <2>3
<1>7. Unbroken' /\ AllServed'
  <2>2. Unbroken'
    BY <1>6 DEF Unbroken
  <2>3. ASSUME NEW k \in DOMAIN log' PROVE Served(log[k])'
    BY <1>6 DEF Served
  <2>4. QED
    BY <2>2, <2>3 DEF AllServed
<1>8. ReplicasOK'
  <2>1. ASSUME NEW i \in DOMAIN replicas
        PROVE  Truthful(replicas'[i], go'[i]) /\ TornInOrder(replicas'[i], go'[i])
    <3>1. \A g \in Goroutine : go'[i][g].pc = go[i][g].pc /\ go'[i][g].code = go[i][g].code
      BY <1>1, <1>2
    <3>2. Truthful(replicas[i], go[i]) /\ TornInOrder(replicas[i], go[i])
      BY DEF ReplicasOK
    <3>3. Truthful(replicas'[i], go'[i])
      BY <1>3, <3>1, <3>2 DEF Truthful
    <3>4. TornInOrder(replicas'[i], go'[i])
      BY <1>3, <3>1, <3>2 DEF TornInOrder, Ended, Using
    <3>5. QED
      BY <3>3, <3>4
  <2>2. QED
    BY <1>1, <1>3, <2>1 DEF ReplicasOK
<1>9. Attached'
  <2>1. rpc.pc # "idle" => rpc.r \in DOMAIN replicas
    BY <1>1 DEF Attached, TypeOK
  <2>2. QED
    BY <1>3, <2>1 DEF Attached
<1>10. QED
  BY <1>4, <1>5, <1>7, <1>8, <1>9

\* A batch of revisions preserves the invariant.
LEMMA ObserveStep ==
    ASSUME Inv, Observe
    PROVE  Inv' /\ asn' = asn
<1>1. PICK n \in 2..Len(log) :
        /\ watching
        /\ log' = SubSeq(log, n, Len(log))
        /\ StartReplica(n) \/ KeepReplica(n) \/ CancelReplica(n)
        /\ UNCHANGED <<watching, rpc, budget>>
  BY DEF Observe
<1>2. asn' = asn
  BY <1>1, LogTail DEF Inv
<1>3. Inv'
  BY <1>1, StartsReplica, KeepsReplica, LosesReplica
<1>4. QED
  BY <1>2, <1>3

\* The end of the watch preserves the invariant.
LEMMA EndWatchStep ==
    ASSUME Inv, EndWatch
    PROVE  Inv' /\ asn' = asn
<1> USE DEF Inv, EndWatch
<1>1. /\ replicas' \in Seq(ReplicaType) /\ Len(replicas') = Len(replicas)
      /\ DOMAIN replicas' = DOMAIN replicas
      /\ \A i \in DOMAIN replicas :
            /\ replicas'[i].cancelled = (replicas[i].cancelled \/ i = current)
            /\ replicas'[i].tailing = replicas[i].tailing /\ replicas'[i].store = replicas[i].store
            /\ replicas'[i].waited = replicas[i].waited /\ replicas'[i].torn = replicas[i].torn
  BY CancelledOK
<1>2. budget' \in [{"changes", "failures", "rpcs", "ends"} -> Nat]
  BY DEF Spends, TypeOK
<1>3. TypeOK'
  BY <1>1, <1>2 DEF TypeOK
<1>4. Follows' /\ Unbroken' /\ AllServed' /\ asn' = asn
  BY DEF Follows, Unbroken, AllServed, asn, view
<1>5. ReplicasOK'
  <2>1. ASSUME NEW i \in DOMAIN replicas
        PROVE  Truthful(replicas'[i], go[i]) /\ TornInOrder(replicas'[i], go[i])
    <3>1. Truthful(replicas[i], go[i]) /\ TornInOrder(replicas[i], go[i])
      BY DEF ReplicasOK
    <3>2. Truthful(replicas'[i], go[i])
      BY <1>1, <3>1 DEF Truthful
    <3>3. TornInOrder(replicas'[i], go[i])
      BY <1>1, <3>1 DEF TornInOrder
    <3>4. QED
      BY <3>2, <3>3
  <2>2. QED
    BY <1>1, <2>1 DEF ReplicasOK
<1>6. Attached'
  <2>1. rpc.pc # "idle" => rpc.r \in DOMAIN replicas
    BY DEF Attached, TypeOK
  <2>2. QED
    BY <1>1, <2>1 DEF Attached
<1>7. QED
  BY <1>3, <1>4, <1>5, <1>6

\* Steps of an RPC preserve the invariant; one which joins before Wait has a store.
LEMMA RpcStep ==
    ASSUME Inv, Resolve \/ Attach \/ EndRPC
    PROVE  Inv' /\ asn' = asn
<1> USE DEF Inv
<1>1. UNCHANGED <<log, watching, replicas, current, go>>
  BY DEF Resolve, Attach, EndRPC
<1>2. Follows' /\ Unbroken' /\ AllServed' /\ asn' = asn /\ ReplicasOK'
  BY <1>1 DEF Follows, Unbroken, AllServed, Served, ReplicasOK, asn, view
<1>3. budget' \in [{"changes", "failures", "rpcs", "ends"} -> Nat]
  <2>1. CASE Resolve
    BY <2>1 DEF Resolve, Spends, TypeOK
  <2>2. CASE Attach \/ EndRPC
    BY <2>2 DEF Attach, EndRPC, TypeOK
  <2>3. QED
    BY <2>1, <2>2
<1>4. /\ rpc' \in [pc : {"idle", "wait", "use"}, r : 0..Len(replicas), late : BOOLEAN]
      /\ rpc'.pc # "idle" => rpc'.r # 0
      /\ rpc'.pc = "use" /\ ~rpc'.late =>
            ~replicas[rpc'.r].waited /\ replicas[rpc'.r].store = "ready"
  <2>1. /\ rpc \in [pc : {"idle", "wait", "use"}, r : 0..Len(replicas), late : BOOLEAN]
        /\ Len(replicas) \in Nat /\ current \in 0..Len(replicas)
    BY DEF TypeOK
  <2>2. CASE Resolve
    BY <2>1, <2>2 DEF Resolve, Follows
  <2>3. CASE Attach
    <3>1. rpc.r \in DOMAIN replicas /\ replicas[rpc.r] \in ReplicaType
      BY <2>1, <2>3 DEF Attach, Attached, TypeOK
    <3>2. replicas[rpc.r].store \in {"none", "ready", "destroyed"} /\ replicas[rpc.r].waited \in BOOLEAN
      BY <3>1 DEF ReplicaType
    <3>3. ~replicas[rpc.r].waited => replicas[rpc.r].store # "destroyed"
      BY <3>1 DEF ReplicasOK, TornInOrder
    <3>4. rpc' = [rpc EXCEPT !.pc = "use", !.late = replicas[rpc.r].waited] /\ replicas[rpc.r].store # "none"
          /\ rpc.r # 0
      BY <2>3 DEF Attach, Attached
    <3>5. rpc'.r = rpc.r /\ rpc'.late = replicas[rpc.r].waited
      BY <2>1, <3>4
    <3>6. rpc' \in [pc : {"idle", "wait", "use"}, r : 0..Len(replicas), late : BOOLEAN]
      BY <2>1, <3>2, <3>4
    <3>7. QED
      BY <3>2, <3>3, <3>4, <3>5, <3>6
  <2>4. CASE EndRPC
    BY <2>1, <2>4 DEF EndRPC
  <2>5. QED
    BY <2>2, <2>3, <2>4
<1>5. TypeOK' /\ Attached'
  BY <1>1, <1>3, <1>4 DEF TypeOK, Attached
<1>6. QED
  BY <1>2, <1>5

\* A sequence is itself with any element replaced by what it is.
LEMMA SameReplaced ==
    ASSUME NEW S, NEW q \in Seq(S), NEW i \in DOMAIN q
    PROVE  IsReplaced(S, q, i, q[i], q) /\ q[i] \in S
BY DEF IsReplaced

\* A step of one replica, and of its goroutines, which takes back nothing that may be
\* advertised, nor the store of an RPC which isn't waited for, preserves the invariant.
LEMMA OneReplica ==
    ASSUME Inv, NEW i \in DOMAIN replicas, NEW r \in ReplicaType, NEW gs \in Routines,
           IsReplaced(ReplicaType, replicas, i, r, replicas'),
           IsReplaced(Routines, go, i, gs, go'),
           Truthful(r, gs), TornInOrder(r, gs), r.cancelled = replicas[i].cancelled,
           replicas[i].tailing => r.tailing,
           replicas[i].store = "ready" /\ ~replicas[i].waited => r.store = "ready",
           ~replicas[i].waited => ~r.waited \/ rpc.pc # "use" \/ rpc.r # i,
           UNCHANGED <<log, watching, current, rpc>>,
           budget' \in [{"changes", "failures", "rpcs", "ends"} -> Nat]
    PROVE  Inv' /\ asn' = asn
<1> USE DEF Inv
<1>1. /\ replicas' \in Seq(ReplicaType) /\ Len(replicas') = Len(replicas)
      /\ DOMAIN replicas' = DOMAIN replicas
      /\ \A k \in DOMAIN replicas : k # i => replicas'[k] = replicas[k]
      /\ replicas'[i] = r
  BY DEF IsReplaced
<1>2. /\ go' \in Seq(Routines) /\ Len(go') = Len(go) /\ DOMAIN go = DOMAIN replicas
      /\ \A k \in DOMAIN go : k # i => go'[k] = go[k]
      /\ go'[i] = gs
  BY DEF IsReplaced, TypeOK
<1>3. TypeOK'
  BY <1>1, <1>2 DEF TypeOK
<1>4. Follows' /\ Unbroken' /\ asn' = asn
  BY DEF Follows, Unbroken, asn, view
<1>5. watching /\ i = current => ~replicas[i].cancelled /\ ~replicas[i].waited
  BY DEF ReplicasOK, TornInOrder
<1>6. AllServed'
  <2>1. ASSUME watching, NEW n \in DOMAIN log PROVE Served(log[n])'
    <3>1. current # 0 => current \in DOMAIN replicas
      BY DEF TypeOK
    <3>2. Served(log[n])
      BY <2>1 DEF AllServed
    <3>3. CASE current = i
      BY <1>1, <1>5, <2>1, <3>2, <3>3 DEF Served
    <3>4. CASE current # i
      BY <1>1, <3>1, <3>2, <3>4 DEF Served
    <3>5. QED
      BY <3>3, <3>4
  <2>2. QED
    BY <2>1 DEF AllServed
<1>7. ReplicasOK'
  <2>1. ASSUME NEW k \in DOMAIN replicas
        PROVE  Truthful(replicas'[k], go'[k]) /\ TornInOrder(replicas'[k], go'[k])
               /\ (watching /\ k = current => ~replicas'[k].cancelled)
    BY <1>1, <1>2, <1>5 DEF ReplicasOK
  <2>2. QED
    BY <1>1, <2>1 DEF ReplicasOK
<1>8. Attached'
  <2>1. rpc.pc # "idle" => rpc.r \in DOMAIN replicas
    BY DEF Attached, TypeOK
  <2>2. QED
    BY <1>1, <2>1 DEF Attached
<1>9. QED
  BY <1>3, <1>4, <1>6, <1>7, <1>8

\* Goroutines have their types.
LEMMA AtType ==
    ASSUME NEW pc \in {"off", "play", "update", "await", "watch", "complete", "consume", "pump", "done"},
           NEW code \in 0..4
    PROVE  At(pc, code) \in GoType /\ At(pc, code).pc = pc /\ At(pc, code).code = code
BY DEF At, GoType

\* A replica is set, and the others aren't.
LEMMA SetsReplica ==
    ASSUME TypeOK, NEW i \in DOMAIN replicas, NEW r \in ReplicaType,
           replicas' = [replicas EXCEPT ![i] = r]
    PROVE  IsReplaced(ReplicaType, replicas, i, r, replicas')
<1>1. replicas \in Seq(ReplicaType)
  BY DEF TypeOK
<1>2. QED
  BY <1>1, ExceptFacts

\* A replica and its goroutines have their types, and may be left as they are.
LEMMA KeepsOthers ==
    ASSUME TypeOK, NEW i \in DOMAIN replicas
    PROVE  /\ replicas[i] \in ReplicaType /\ go[i] \in Routines /\ i \in DOMAIN go
           /\ IsReplaced(ReplicaType, replicas, i, replicas[i], replicas)
           /\ IsReplaced(Routines, go, i, go[i], go)
<1>1. replicas \in Seq(ReplicaType) /\ go \in Seq(Routines) /\ i \in DOMAIN go
  BY DEF TypeOK
<1>2. QED
  BY <1>1, SameReplaced

\* Reaching the log's head preserves the invariant.
LEMMA TailsStep ==
    ASSUME Inv, NEW i \in DOMAIN replicas, Tails(i)
    PROVE  Inv' /\ asn' = asn
<1> DEFINE r == [replicas[i] EXCEPT !.tailing = TRUE]
<1>1. replicas[i] \in ReplicaType /\ go[i] \in Routines /\ IsReplaced(Routines, go, i, go[i], go)
  BY KeepsOthers DEF Inv
<1>2. /\ r \in ReplicaType /\ r.tailing /\ r.store = replicas[i].store /\ r.waited = replicas[i].waited
      /\ r.cancelled = replicas[i].cancelled /\ r.torn = replicas[i].torn
  BY <1>1 DEF ReplicaType
<1>3. replicas' = [replicas EXCEPT ![i] = r] /\ UNCHANGED <<log, watching, current, go, rpc, budget>>
  BY DEF Tails
<1> HIDE DEF r
<1>4. IsReplaced(ReplicaType, replicas, i, r, replicas')
  BY <1>2, <1>3, SetsReplica DEF Inv
<1>5. Truthful(r, go[i]) /\ TornInOrder(r, go[i])
  BY <1>2 DEF Inv, ReplicasOK, Truthful, TornInOrder
<1>6. IsReplaced(Routines, go, i, go[i], go')
  BY <1>1, <1>3
<1>7. budget' \in [{"changes", "failures", "rpcs", "ends"} -> Nat]
  BY <1>3 DEF Inv, TypeOK
<1>8. QED
  BY <1>1, <1>2, <1>3, <1>4, <1>5, <1>6, <1>7, OneReplica

\* Where goroutines may be.
PCs == {"off", "play", "update", "await", "watch", "complete", "consume", "pump", "done"}

\* Goroutine g of replica i moves to `pc`, to update the status to `code`, and the replica
\* becomes r: with a store only if g is one that the WaitGroup counts.
MovesGo(i, g, pc, code, r) ==
    /\ g \in Goroutine /\ pc \in PCs /\ code \in 0..4
    /\ r \in ReplicaType /\ r.tailing = replicas[i].tailing /\ r.cancelled = replicas[i].cancelled
    /\ r.waited = replicas[i].waited /\ r.torn = replicas[i].torn
    /\ r.store = replicas[i].store \/ (r.store = "ready" /\ g # "status")
    /\ g = "status" \/ go[i][g].pc \notin {"off", "done"}
    /\ pc \in {"update", "await"} =>
            /\ code = TAILING => r.tailing
            /\ code = PRIMARY => r.store # "none" /\ g = "primary"
    /\ replicas' = [replicas EXCEPT ![i] = r]
    /\ go' = [go EXCEPT ![i][g] = At(pc, code)]
    /\ UNCHANGED <<log, watching, current, rpc>>
    /\ budget' \in [{"changes", "failures", "rpcs", "ends"} -> Nat]

\* A goroutine goes on, which the WaitGroup awaits.
LEMMA GoStep ==
    ASSUME Inv, NEW i \in DOMAIN replicas, NEW g, NEW pc, NEW code, NEW r, MovesGo(i, g, pc, code, r)
    PROVE  Inv' /\ asn' = asn
<1> USE DEF MovesGo
<1> DEFINE x == At(pc, code)
           gs == [go[i] EXCEPT ![g] = x]
<1>1. /\ replicas[i] \in ReplicaType /\ go[i] \in Routines /\ i \in DOMAIN go
      /\ Truthful(replicas[i], go[i]) /\ TornInOrder(replicas[i], go[i])
  BY KeepsOthers DEF Inv, ReplicasOK
<1>2. x \in GoType /\ x.pc = pc /\ x.code = code
  BY AtType DEF PCs
<1>3. go' = [go EXCEPT ![i][g] = x]
  OBVIOUS
<1> HIDE DEF x
<1>4. gs \in Routines /\ IsReplaced(Routines, go, i, gs, go') /\ Truthful(r, gs)
  <2>1. gs \in Routines /\ \A h \in Goroutine : gs[h] = IF h = g THEN x ELSE go[i][h]
    BY <1>1, <1>2 DEF Routines
  <2>2. go' = [go EXCEPT ![i] = gs] /\ go \in Seq(Routines)
    BY <1>1, <1>3 DEF Inv, TypeOK
  <2> HIDE DEF gs
  <2>3. IsReplaced(Routines, go, i, gs, go')
    BY <1>1, <2>1, <2>2, ExceptFacts
  <2>4. Truthful(r, gs)
    BY <1>1, <1>2, <2>1 DEF Truthful
  <2>5. QED
    BY <2>1, <2>3, <2>4
<1>5. IsReplaced(ReplicaType, replicas, i, r, replicas')
  BY SetsReplica DEF Inv
<1>6. g # "status" => ~replicas[i].waited /\ ~replicas[i].torn
  BY <1>1 DEF TornInOrder, Ended, Using
<1>7. TornInOrder(r, gs)
  <2>1. CASE g # "status"
    BY <1>1, <1>6, <2>1 DEF TornInOrder
  <2>2. CASE g = "status"
    <3>1. \A h \in Using : gs[h] = go[i][h]
      BY <1>1, <2>2 DEF Using, Routines
    <3>2. QED
      BY <1>1, <2>2, <3>1 DEF TornInOrder, Ended
  <2>3. QED
    BY <2>1, <2>2
<1> HIDE DEF gs
<1>8. QED
  BY <1>1, <1>4, <1>5, <1>7, OneReplica

\* Each step of playback and of serving preserves the invariant.
LEMMA ServeStep ==
    ASSUME Inv, NEW i \in DOMAIN replicas, Serves(i)
    PROVE  Inv' /\ asn' = asn
<1>0. /\ replicas[i] \in ReplicaType /\ go[i] \in Routines /\ i \in DOMAIN go
      /\ Truthful(replicas[i], go[i]) /\ TornInOrder(replicas[i], go[i])
      /\ replicas \in Seq(ReplicaType)
  BY KeepsOthers DEF Inv, ReplicasOK, TypeOK
<1>b. budget \in [{"changes", "failures", "rpcs", "ends"} -> Nat]
  BY DEF Inv, TypeOK
<1>r. replicas = [replicas EXCEPT ![i] = replicas[i]]
  BY <1>0
<1>f. Fails => budget' \in [{"changes", "failures", "rpcs", "ends"} -> Nat]
  BY <1>b DEF Fails, Spends
<1>g. {"standby", "status", "primary", "pump"} = Goroutine
  BY DEF Goroutine
<1>1. CASE Tails(i)
  BY <1>1, TailsStep
<1>2. CASE WatchTailing(i)
  <2>1. UNCHANGED <<replicas, log, watching, current, rpc, budget>>
    BY <1>2 DEF WatchTailing
  <2>2. CASE go' = [go EXCEPT ![i]["status"] = At("done", IDLE)]
    <3>1. MovesGo(i, "status", "done", IDLE, replicas[i])
      BY <1>0, <1>b, <1>g, <1>r, <2>1, <2>2 DEF MovesGo, PCs
    <3>2. QED
      BY <3>1, GoStep
  <2>3. CASE replicas[i].tailing /\ go' = [go EXCEPT ![i]["status"] = At("update", TAILING)]
    <3>1. MovesGo(i, "status", "update", TAILING, replicas[i])
      BY <1>0, <1>b, <1>g, <1>r, <2>1, <2>3 DEF MovesGo, PCs
    <3>2. QED
      BY <3>1, GoStep
  <2>4. QED
    BY <1>2, <2>2, <2>3 DEF WatchTailing, Goes, Updates
<1>3. CASE EndPlay(i)
  <2>1. UNCHANGED <<log, watching, current, rpc>> /\ go[i]["standby"].pc = "play"
        /\ budget' \in [{"changes", "failures", "rpcs", "ends"} -> Nat]
    BY <1>3, <1>b, <1>f DEF EndPlay
  <2>2. PICK p \in {"ok", "failed", "unplayed"}, pc \in {"done", "update"}, code \in {IDLE, FAILED} :
            /\ replicas' = [replicas EXCEPT ![i].played = p]
            /\ go' = [go EXCEPT ![i]["standby"] = At(pc, code)]
    BY <1>3 DEF EndPlay, Goes, Updates
  <2> DEFINE r == [replicas[i] EXCEPT !.played = p]
  <2>3. /\ r \in ReplicaType /\ r.tailing = replicas[i].tailing /\ r.cancelled = replicas[i].cancelled
        /\ r.waited = replicas[i].waited /\ r.torn = replicas[i].torn /\ r.store = replicas[i].store
    BY <1>0 DEF ReplicaType
  <2>4. replicas' = [replicas EXCEPT ![i] = r]
    BY <2>2
  <2> HIDE DEF r
  <2>5. go' = [go EXCEPT ![i]["standby"] = At(pc, code)] /\ pc \in PCs /\ code \in 0..4
        /\ code # TAILING /\ code # PRIMARY /\ "standby" \in Goroutine
    BY <1>g, <2>2 DEF PCs
  <2>7. MovesGo(i, "standby", pc, code, r)
    BY <2>1, <2>3, <2>4, <2>5 DEF MovesGo
  <2>6. QED
    BY <2>7, GoStep
<1>4. CASE CompletePlayback(i)
  <2>1. UNCHANGED <<log, watching, current, rpc>> /\ go[i]["primary"].pc = "complete"
        /\ budget' \in [{"changes", "failures", "rpcs", "ends"} -> Nat]
    BY <1>4, <1>b, <1>f DEF CompletePlayback
  <2>2. CASE /\ replicas' = [replicas EXCEPT ![i].store = "ready"]
             /\ go' = [go EXCEPT ![i]["primary"] = At("update", PRIMARY)]
    <3> DEFINE r == [replicas[i] EXCEPT !.store = "ready"]
    <3>3. /\ r \in ReplicaType /\ r.tailing = replicas[i].tailing /\ r.cancelled = replicas[i].cancelled
          /\ r.waited = replicas[i].waited /\ r.torn = replicas[i].torn /\ r.store = "ready"
      BY <1>0 DEF ReplicaType
    <3>4. replicas' = [replicas EXCEPT ![i] = r]
      BY <2>2
    <3> HIDE DEF r
    <3>5. MovesGo(i, "primary", "update", PRIMARY, r)
      <4>1. "primary" \in Goroutine /\ "update" \in PCs /\ go' = [go EXCEPT ![i]["primary"] = At("update", PRIMARY)]
        BY <1>g, <2>2 DEF PCs
      <4>2. QED
        BY <2>1, <3>3, <3>4, <4>1 DEF MovesGo
    <3>6. QED
      BY <3>5, GoStep
  <2>3. CASE UNCHANGED replicas /\ go' = [go EXCEPT ![i]["primary"] = At("update", FAILED)]
    <3>1. MovesGo(i, "primary", "update", FAILED, replicas[i])
      BY <1>0, <1>g, <1>r, <2>1, <2>3 DEF MovesGo, PCs
    <3>2. QED
      BY <3>1, GoStep
  <2>4. QED
    BY <1>4, <2>2, <2>3 DEF CompletePlayback, Updates
<1>5. ASSUME NEW g \in Goroutine, EndServe(i, g) PROVE Inv' /\ asn' = asn
  <2>1. /\ UNCHANGED <<replicas, log, watching, current, rpc>> /\ go[i][g].pc \notin {"off", "done"}
        /\ budget' \in [{"changes", "failures", "rpcs", "ends"} -> Nat]
        /\ go' = [go EXCEPT ![i][g] = At("update", FAILED)]
    BY <1>5, <1>b, <1>f DEF EndServe, Updates
  <2>2. MovesGo(i, g, "update", FAILED, replicas[i])
    BY <1>0, <1>r, <2>1 DEF MovesGo, PCs
  <2>3. QED
    BY <2>2, GoStep
<1>6. QED
  BY <1>1, <1>2, <1>3, <1>4, <1>5 DEF Serves

\* Wait and TearDown preserve the invariant: no RPC which joined in time is left.
LEMMA TearDownStep ==
    ASSUME Inv, NEW i \in DOMAIN replicas, Wait(i) \/ TearDown(i)
    PROVE  Inv' /\ asn' = asn
<1>0. /\ replicas[i] \in ReplicaType /\ go[i] \in Routines /\ IsReplaced(Routines, go, i, go[i], go)
      /\ Truthful(replicas[i], go[i]) /\ TornInOrder(replicas[i], go[i])
  BY KeepsOthers DEF Inv, ReplicasOK
<1>1. UNCHANGED <<log, watching, current, go, rpc, budget>>
  BY DEF Wait, TearDown
<1>2. budget' \in [{"changes", "failures", "rpcs", "ends"} -> Nat]
  BY <1>1 DEF Inv, TypeOK
<1>3. IsReplaced(Routines, go, i, go[i], go')
  BY <1>0, <1>1
<1>4. CASE Wait(i)
  <2> DEFINE r == [replicas[i] EXCEPT !.waited = TRUE]
  <2>1. replicas' = [replicas EXCEPT ![i] = r] /\ replicas[i].cancelled /\ WaitGroup(i) = {}
    BY <1>4 DEF Wait
  <2>2. /\ r \in ReplicaType /\ r.tailing = replicas[i].tailing /\ r.store = replicas[i].store
        /\ r.waited /\ r.cancelled = replicas[i].cancelled /\ r.torn = replicas[i].torn
    BY <1>0 DEF ReplicaType
  <2> HIDE DEF r
  <2>3. IsReplaced(ReplicaType, replicas, i, r, replicas')
    BY <2>1, <2>2, SetsReplica DEF Inv
  <2>4. Ended(go[i]) /\ (rpc.pc # "use" \/ rpc.r # i)
    <3>1. \A g \in Goroutine \ {"status"} : go[i][g].pc \in {"off", "done"}
      BY <2>1 DEF WaitGroup
    <3>2. rpc.pc = "use" /\ rpc.r = i => "rpc" \in WaitGroup(i)
      BY DEF WaitGroup
    <3>3. QED
      BY <2>1, <3>1, <3>2 DEF Ended, Using
  <2>5. Truthful(r, go[i]) /\ TornInOrder(r, go[i])
    BY <1>0, <2>1, <2>2, <2>4 DEF Truthful, TornInOrder
  <2>6. QED
    BY <1>0, <1>1, <1>2, <1>3, <2>2, <2>3, <2>4, <2>5, OneReplica
<1>5. CASE TearDown(i)
  <2> DEFINE r == [replicas[i] EXCEPT !.torn = TRUE, !.store = IF @ = "none" THEN @ ELSE "destroyed"]
  <2>1. replicas' = [replicas EXCEPT ![i] = r] /\ replicas[i].waited
    BY <1>0, <1>5 DEF TearDown
  <2>2. /\ r \in ReplicaType /\ r.tailing = replicas[i].tailing
        /\ (r.store = "none" <=> replicas[i].store = "none")
        /\ r.waited = replicas[i].waited /\ r.cancelled = replicas[i].cancelled /\ r.torn
    BY <1>0 DEF ReplicaType
  <2> HIDE DEF r
  <2>3. IsReplaced(ReplicaType, replicas, i, r, replicas')
    BY <2>1, <2>2, SetsReplica DEF Inv
  <2>4. Truthful(r, go[i]) /\ TornInOrder(r, go[i])
    BY <1>0, <2>1, <2>2 DEF Truthful, TornInOrder
  <2>5. QED
    BY <1>0, <1>1, <1>2, <1>3, <2>1, <2>2, <2>3, <2>4, OneReplica
<1>6. QED
  BY <1>4, <1>5

\* An update of the status preserves the invariant, and the status doesn't regress.
LEMMA PutStatusStep ==
    ASSUME Inv, NEW i \in DOMAIN replicas, NEW g \in Goroutine, PutStatus(i, g)
    PROVE  Inv' /\ (asn # None /\ asn' # None => asn'.code >= asn.code)
<1> USE DEF Inv
<1> DEFINE code == Reduced(go[i][g].code, view.code)
           a == [asn EXCEPT !.code = code]
           gs == [go[i] EXCEPT ![g] = [go[i][g] EXCEPT !.pc = "await", !.at = Len(log)]]
<1>1. /\ go[i][g].pc = "update" /\ i = current /\ Len(log) = 1 /\ asn # None
      /\ log' = Append(log, a) /\ UNCHANGED <<watching, replicas, current, rpc, budget>>
  BY DEF PutStatus, Unmodified
<1>2. /\ replicas[i] \in ReplicaType /\ go[i] \in Routines /\ i \in DOMAIN go
      /\ Truthful(replicas[i], go[i]) /\ TornInOrder(replicas[i], go[i])
      /\ go \in Seq(Routines) /\ go[i][g] \in GoType
  BY KeepsOthers DEF ReplicasOK, TypeOK, Routines
<1>3. view = asn /\ view = log[1] /\ asn \in Assignment /\ asn.code \in 0..4 /\ log \in Seq(Assignment)
  <2>1. view = log[1] /\ asn = log[Len(log)] /\ asn \in Assignment /\ log \in Seq(Assignment)
    BY LogSame
  <2>2. asn.code \in 0..4
    BY <1>1, <2>1 DEF Assignment
  <2>3. QED
    BY <1>1, <2>1, <2>2
<1>4. code \in 0..4 /\ code >= asn.code /\ code \in {go[i][g].code, view.code}
  BY <1>2, <1>3 DEF GoType, Reduced
<1> HIDE DEF code
<1>5. a \in Assignment /\ a.code = code /\ a # None
  <2>1. asn \in [slot : {0, 1}, code : IDLE..FAILED]
    BY <1>1, <1>3 DEF Assignment
  <2>2. a \in [slot : {0, 1}, code : IDLE..FAILED] /\ a.code = code
    BY <1>4, <2>1
  <2>3. None.code = -1
    BY DEF None
  <2>4. a # None
    BY <1>4, <2>2, <2>3
  <2>5. QED
    BY <2>2, <2>4 DEF Assignment
<1> HIDE DEF a
<1>6. IsReplaced(Routines, go, i, gs, go') /\ gs \in Routines
      /\ \A h \in Goroutine : gs[h].code = go[i][h].code
            /\ (gs[h].pc = go[i][h].pc \/ (h = g /\ gs[h].pc = "await"))
  <2> DEFINE x == [go[i][g] EXCEPT !.pc = "await", !.at = Len(log)]
  <2>1. x \in GoType /\ x.code = go[i][g].code /\ x.pc = "await"
    <3>1. ASSUME NEW z \in GoType, NEW n \in Nat
          PROVE  LET y == [z EXCEPT !.pc = "await", !.at = n]
                 IN  y \in GoType /\ y.code = z.code /\ y.pc = "await"
      BY DEF GoType
    <3>2. Len(log) \in Nat
      BY <1>1
    <3>3. QED
      BY <1>2, <3>1, <3>2
  <2>2. go' = [go EXCEPT ![i] = gs]
    BY <1>2 DEF PutStatus
  <2> HIDE DEF x
  <2>3. gs \in Routines /\ \A h \in Goroutine : gs[h] = IF h = g THEN x ELSE go[i][h]
    BY <1>2, <2>1 DEF Routines, x
  <2> HIDE DEF gs
  <2>4. IsReplaced(Routines, go, i, gs, go')
    BY <1>2, <2>2, <2>3, ExceptFacts
  <2>5. QED
    BY <2>1, <2>3, <2>4
<1> HIDE DEF gs
<1>7. /\ log' \in Seq(Assignment) /\ log' # <<>> /\ DOMAIN log' = 1..2 /\ log'[1] = log[1]
      /\ log'[2] = a /\ view' = view /\ asn' = a
  BY <1>1, <1>5, LogAppend
<1>8. TypeOK'
  BY <1>1, <1>6, <1>7 DEF TypeOK, IsReplaced
<1>9. Follows' /\ Unbroken'
  BY <1>1, <1>3, <1>5, <1>7 DEF Follows, Unbroken
<1>10. AllServed'
  <2>1. ASSUME watching PROVE Served(log[1])' /\ Served(log[2])'
    <3>1. Served(log[1]) /\ current # 0
      BY <1>1, <1>3, <2>1, LogSame DEF AllServed, Follows
    <3>2. ~replicas[i].waited /\ replicas[i].store # "destroyed"
      BY <1>1, <1>2, <2>1 DEF ReplicasOK, TornInOrder
    <3>3. go[i][g].code = PRIMARY => replicas[i].store = "ready"
      BY <1>1, <1>2, <3>2 DEF Truthful, ReplicaType
    <3>4. go[i][g].code = TAILING => replicas[i].tailing
      BY <1>1, <1>2 DEF Truthful
    <3>5. Served(log[2])'
      BY <1>1, <1>3, <1>4, <1>5, <1>7, <3>1, <3>3, <3>4 DEF Served
    <3>6. Served(log[1])'
      BY <1>1, <1>7, <3>1 DEF Served
    <3>7. QED
      BY <3>5, <3>6
  <2>2. QED
    BY <1>1, <1>7, <2>1 DEF AllServed
<1>11. ReplicasOK'
  <2>1. Truthful(replicas[i], gs)
    BY <1>1, <1>2, <1>6 DEF Truthful
  <2>2. TornInOrder(replicas[i], gs)
    <3>1. CASE g = "status"
      BY <1>2, <1>6, <3>1 DEF TornInOrder, Ended, Using
    <3>2. CASE g # "status"
      BY <1>1, <1>2, <3>2 DEF TornInOrder, Ended, Using
    <3>3. QED
      BY <3>1, <3>2
  <2>3. DOMAIN go = DOMAIN replicas
    BY DEF TypeOK
  <2>4. QED
    BY <1>1, <1>6, <2>1, <2>2, <2>3 DEF ReplicasOK, IsReplaced
<1>12. Attached'
  BY <1>1 DEF Attached
<1>13. QED
  BY <1>4, <1>5, <1>7, <1>8, <1>9, <1>10, <1>11, <1>12

\* A goroutine which is done with its update preserves the invariant, and starts the pump only
\* after a primary's.
LEMMA EndStatusStep ==
    ASSUME Inv, NEW i \in DOMAIN replicas, NEW g \in Goroutine, EndStatus(i, g)
    PROVE  Inv' /\ asn' = asn
<1>0. /\ replicas[i] \in ReplicaType /\ go[i] \in Routines /\ i \in DOMAIN go
      /\ Truthful(replicas[i], go[i]) /\ TornInOrder(replicas[i], go[i])
      /\ go \in Seq(Routines)
      /\ IsReplaced(ReplicaType, replicas, i, replicas[i], replicas)
  BY KeepsOthers DEF Inv, ReplicasOK, TypeOK
<1> DEFINE gs == Updated(go[i], g)
<1>1. /\ go' = [go EXCEPT ![i] = gs] /\ go[i][g].pc \in {"update", "await"}
      /\ UNCHANGED <<log, watching, replicas, current, rpc, budget>>
  BY <1>0 DEF EndStatus
<1>2. /\ gs \in Routines
      /\ \A h \in Goroutine : gs[h].pc \in {"watch", "consume", "pump", "done"} \/ gs[h] = go[i][h]
      /\ g = "status" => \A h \in Using : gs[h] = go[i][h]
  <2>1. \A pc \in {"watch", "consume", "pump", "done"} :
            At(pc, IDLE) \in GoType /\ At(pc, IDLE).pc = pc
    BY AtType
  <2> DEFINE goes(pc) == [go[i] EXCEPT ![g] = At(pc, IDLE)]
  <2>2. ASSUME NEW pc \in {"watch", "consume", "pump", "done"}
        PROVE  /\ goes(pc) \in Routines
               /\ \A h \in Goroutine : goes(pc)[h] = IF h = g THEN At(pc, IDLE) ELSE go[i][h]
    BY <1>0, <2>1 DEF Routines
  <2>3. go[i][g].code = PRIMARY => g = "primary"
    BY <1>0, <1>1 DEF Truthful
  <2>4. CASE go[i][g].code = PRIMARY
    <3> DEFINE c == goes("consume")
    <3>1. gs = [c EXCEPT !["pump"] = At("pump", IDLE)]
      BY <2>4 DEF Updated
    <3>2. c \in Routines /\ \A h \in Goroutine : c[h] = IF h = g THEN At("consume", IDLE) ELSE go[i][h]
      BY <2>2
    <3> HIDE DEF c, gs
    <3>3. gs \in Routines /\ \A h \in Goroutine : gs[h] = IF h = "pump" THEN At("pump", IDLE) ELSE c[h]
      BY <2>1, <3>1, <3>2 DEF Routines
    <3>4. QED
      BY <2>1, <2>3, <2>4, <3>2, <3>3
  <2>5. CASE go[i][g].code # PRIMARY
    <3>1. gs = goes("watch") \/ gs = goes("done")
      BY <2>5 DEF Updated
    <3> HIDE DEF gs
    <3>2. QED
      BY <2>1, <2>2, <3>1 DEF Using
  <2>6. QED
    BY <2>4, <2>5
<1> HIDE DEF gs
<1>3. IsReplaced(Routines, go, i, gs, go')
  BY <1>0, <1>1, <1>2, ExceptFacts
<1>4. Truthful(replicas[i], gs)
  BY <1>0, <1>2 DEF Truthful
<1>5. TornInOrder(replicas[i], gs)
  <2>1. CASE g = "status"
    BY <1>0, <1>2, <2>1 DEF TornInOrder, Ended
  <2>2. CASE g # "status"
    BY <1>0, <1>1, <2>2 DEF TornInOrder, Ended, Using
  <2>3. QED
    BY <2>1, <2>2
<1>6. budget' \in [{"changes", "failures", "rpcs", "ends"} -> Nat]
  BY <1>1 DEF Inv, TypeOK
<1>7. IsReplaced(ReplicaType, replicas, i, replicas[i], replicas')
  BY <1>0, <1>1
<1>8. QED
  BY <1>0, <1>1, <1>2, <1>3, <1>4, <1>5, <1>6, <1>7, OneReplica

\* Every step preserves the invariant, and no status regresses.
LEMMA NextStep ==
    ASSUME Inv, [Next]_vars
    PROVE  Inv' /\ (asn # None /\ asn' # None => asn'.code >= asn.code)
<1>0. asn.code \in Int /\ asn.code >= asn.code
  BY LogSame, NoneIs DEF Inv
<1>1. CASE Allocates
  BY <1>1, ChangeStep
<1>2. CASE Observe \/ EndWatch
  BY <1>0, <1>2, ObserveStep, EndWatchStep
<1>3. CASE Resolve \/ Attach \/ EndRPC
  BY <1>0, <1>3, RpcStep
<1>4. ASSUME NEW i \in DOMAIN replicas, Serves(i) \/ Wait(i) \/ TearDown(i)
      PROVE  Inv' /\ asn' = asn
  BY <1>4, ServeStep, TearDownStep
<1>5. ASSUME NEW i \in DOMAIN replicas, NEW g \in Goroutine, PutStatus(i, g) \/ EndStatus(i, g)
      PROVE  Inv' /\ (asn # None /\ asn' # None => asn'.code >= asn.code)
  BY <1>0, <1>5, PutStatusStep, EndStatusStep
<1>6. CASE UNCHANGED vars
  <2>1. asn' = asn
    BY <1>6 DEF vars, asn
  <2>2. Inv'
    BY <1>6 DEF vars, Inv, TypeOK, Follows, Unbroken, AllServed, Served, ReplicasOK, Attached, view
  <2>3. QED
    BY <1>0, <2>1, <2>2
<1>7. QED
  BY <1>0, <1>1, <1>2, <1>3, <1>4, <1>5, <1>6 DEF Next

\* The invariant always holds.
THEOREM Invariant == Spec => []Inv
<1>1. Inv /\ [Next]_vars => Inv'
  BY NextStep
<1>2. QED
  BY InitInv, <1>1, PTL DEF Spec

\* An RPC which joined the WaitGroup before waitAndTearDown waited on it uses a store which
\* isn't destroyed (Resolver.Resolve, waitAndTearDown).
THEOREM HeldStoresLive == Spec => []HeldStoreLives
<1>1. Inv => HeldStoreLives
  BY DEF Inv, Attached, HeldStoreLives
<1>2. QED
  BY Invariant, <1>1, PTL

\* A status which is advertised is true of the replica which is served, and doesn't regress
\* while the assignment is there (updateStatus, updateResolutions).
THEOREM StatusTrue == Spec => StatusIsTrue
<1>1. Inv => AdvertisedIsServed
  <2>1. SUFFICES ASSUME Inv, watching PROVE Served(asn)
    BY DEF AdvertisedIsServed, Served
  <2>2. asn = log[Len(log)] /\ Len(log) \in DOMAIN log
    BY <2>1, LogSame DEF Inv
  <2>3. QED
    BY <2>1, <2>2 DEF Inv, AllServed
<1>2. Inv /\ [Next]_vars => [asn # None /\ asn' # None => asn'.code >= asn.code]_vars
  BY NextStep
<1>3. QED
  BY Invariant, <1>1, <1>2, PTL DEF StatusIsTrue, NeverRegresses, Spec

\* No goroutine which plays, serves or pumps is left of a replica which was torn down.
UsersGone == \A i \in DOMAIN replicas :
    replicas[i].torn => \A g \in Using : go[i][g].pc \in {"off", "done"}

\* A store is destroyed only once the goroutines which use it have ended, and none is started
\* after (waitAndTearDown).
THEOREM DestroyedUnused == Spec => []UsersGone
<1>1. Inv => UsersGone
  BY DEF Inv, ReplicasOK, TornInOrder, Ended, UsersGone
<1>2. QED
  BY Invariant, <1>1, PTL
=============================================================================
