--------------------------- MODULE AppendService ---------------------------
(***************************************************************************)
(* The asynchronous append client (v2/pkg/client/append_service.go).       *)
(* Goroutines start appends, which are batched into a chain of             *)
(* AsyncAppends per journal.  A service loop per chain dispatches one RPC  *)
(* after another, each after the AsyncAppends of other journals which it   *)
(* depends upon, and retries it until it succeeds.  A chain which is fully *)
(* served ends, and the next append to its journal begins another.         *)
(***************************************************************************)
EXTENDS AppendBuffer, FiniteSets, Functions

CONSTANTS
    Client,      \* goroutines which call StartAppend
    Journal,
    Cutoff,      \* buffered units beyond which a new RPC is chained
    MaxCalls,    \* bound: calls of StartAppend
    Units,       \* units which each of them writes
    MaxFaults    \* bound: RPCs and writes to files which fail, appends which
                 \* clients abort, and cancellation of the service's Context

\* What a mutex is if no client holds it.
Unlocked == "unlocked"
RollingBack == "rollback"

ASSUME ServiceAssumption ==
    /\ Cutoff \in Nat /\ MaxCalls \in Nat /\ Units \in [1..MaxCalls -> Nat] /\ MaxFaults \in Nat
    /\ Unit = 1..MaxCalls
    /\ IsFiniteSet(Client) /\ {Unlocked, RollingBack} \cap Client = {}

VARIABLES
    aas,        \* all AsyncAppends; they are named by their index
    appends,    \* AppendService.appends: the current AsyncAppend of a journal
    mutex,      \* who holds the mutex of a chain, which its first AsyncAppend names
    loops,      \* service loops, by their chain
    clients,
    calls,      \* calls of StartAppend which returned, in order
    journals,   \* what the brokers have committed: RPCs, in order
    late,       \* RPCs which failed and may still be committed
    cancelled,  \* whether the service's Context is cancelled
    faults

vars == <<aas, appends, mutex, loops, clients, calls, journals, late, cancelled, faults>>

None == 0
Tombstone == -1

NoBuffer == [NewBuffer EXCEPT !.offset = -1]

\* A new AsyncAppend.  `done` is whether its commitCh is closed.
AsyncAppend(j, chain, deps) ==
    [journal |-> j, chain |-> chain, deps |-> deps, fb |-> NoBuffer, checkpoint |-> 0,
     next |-> None, done |-> FALSE, err |-> FALSE]

IdleClient == [pc |-> "idle", journal |-> None, deps |-> {},
               before |-> {}, aa |-> None, starts |-> FALSE, call |-> None]

Init ==
    /\ aas = <<>>
    /\ appends = [j \in Journal |-> None]
    /\ mutex = <<>> /\ loops = <<>>
    /\ clients = [c \in Client |-> IdleClient]
    /\ calls = <<>>
    /\ journals = [j \in Journal |-> <<>>]
    /\ late = {} /\ cancelled = FALSE /\ faults = 0

\* The last AsyncAppend of a chain, or Tombstone if its loop ended.
Current(aa) ==
    LET inChain == {n \in DOMAIN aas : aas[n].chain = aas[aa].chain}
        last    == CHOOSE n \in inChain : \A m \in inChain : m <= n
    IN  IF aas[last].next = Tombstone THEN Tombstone ELSE last

\* Calls of StartAppend so far.
Begun == Len(calls) + Cardinality({c \in Client : clients[c].pc \in {"start", "lock"}})

-----------------------------------------------------------------------------
(* Clients.                                                                *)

PendingExcept(j) == {appends[k] : k \in Journal \ {j}} \ {None}

\* A client which will append to journal j as a barrier takes the dependencies to
\* call StartAppend with.  `before` are the appends which it means to follow.
TakePending(c, j) ==
    /\ clients[c].pc = "idle" /\ Begun < MaxCalls
    /\ clients' = [clients EXCEPT ![c] =
         [IdleClient EXCEPT !.pc = "start", !.journal = j, !.deps = PendingExcept(j),
                            !.before = {n \in DOMAIN calls : calls[n].journal # j}]]
    /\ UNCHANGED <<aas, appends, mutex, loops, calls, journals, late, cancelled, faults>>

With(f, n, v) == [m \in DOMAIN f \cup {n} |-> IF m = n THEN v ELSE f[m]]

\* StartAppend up to its wait for the mutex: it fetches the current AsyncAppend of
\* the journal, or creates the first of a chain.
FetchCurrent(c, cl) ==
    LET j == cl.journal
    IN  IF appends[j] # None
        THEN /\ clients' = [clients EXCEPT ![c] = [cl EXCEPT !.pc = "lock", !.aa = appends[j]]]
             /\ UNCHANGED <<aas, appends, mutex, loops>>
        ELSE LET n == Len(aas) + 1
             IN  /\ aas' = Append(aas, AsyncAppend(j, n, cl.deps))
                 /\ appends' = [appends EXCEPT ![j] = n]
                 /\ mutex' = With(mutex, n, Unlocked)
                 /\ loops' = With(loops, n, [pc |-> "none", aa |-> n])
                 /\ clients' = [clients EXCEPT ![c] = [cl EXCEPT !.pc = "lock", !.aa = n,
                                                                 !.starts = TRUE]]

\* StartAppend without dependencies, and with those of a barrier (or once more).
StartAppend(c, j) ==
    /\ clients[c].pc = "idle" /\ Begun < MaxCalls
    /\ FetchCurrent(c, [IdleClient EXCEPT !.journal = j])
    /\ UNCHANGED <<calls, journals, late, cancelled, faults>>

StartAppendAfter(c) ==
    /\ clients[c].pc = "start"
    /\ FetchCurrent(c, clients[c])
    /\ UNCHANGED <<calls, journals, late, cancelled, faults>>

\* The chain's mutex is free, and the client takes it.
Locks(c) ==
    /\ clients[c].pc = "lock"
    /\ mutex[aas[clients[c].aa].chain] = Unlocked

\* `go serveAppends`, by the client which created the chain.
StartLoop(c) ==
    loops' = IF clients[c].starts THEN [loops EXCEPT ![aas[clients[c].aa].chain].pc = "lock"]
                                  ELSE loops

\* The chain ended meanwhile, and StartAppend begins again.  The mutex stays locked.
Restart(c) ==
    /\ Locks(c) /\ Current(clients[c].aa) = Tombstone
    /\ mutex' = [mutex EXCEPT ![aas[clients[c].aa].chain] = c]
    /\ clients' = [clients EXCEPT ![c] = [@ EXCEPT !.pc = "start", !.aa = None]]
    /\ UNCHANGED <<aas, appends, loops, calls, journals, late, cancelled, faults>>

\* chainNewAppend, after the AsyncAppend aa.
Chained(aa, deps) ==
    Append([aas EXCEPT ![aa].next = Len(aas) + 1],
           AsyncAppend(aas[aa].journal, aas[aa].chain, deps))

\* Faulty variant of MustChain: dependencies of a batched append are forgotten.
MustChainIfFull(aa, deps) == aas[aa].checkpoint > Cutoff

MustChain(aa, deps) == aas[aa].checkpoint > Cutoff \/ ~(deps \subseteq aas[aa].deps)

\* The remainder of StartAppend, which returns the AsyncAppend to its caller.
ReturnAppend(c) ==
    LET aa  == Current(clients[c].aa)
        new == MustChain(aa, clients[c].deps)
        all == IF new THEN Chained(aa, clients[c].deps) ELSE aas
        got == IF new THEN Len(all) ELSE aa
    IN  /\ Locks(c) /\ aa # Tombstone
        /\ mutex' = [mutex EXCEPT ![aas[aa].chain] = c]
        /\ StartLoop(c)
        /\ aas' = [all EXCEPT ![got].fb = IF @ = NoBuffer THEN NewBuffer ELSE @]
        /\ appends' = [appends EXCEPT ![aas[aa].journal] = got]
        /\ calls' = Append(calls, [journal |-> aas[aa].journal, before |-> clients[c].before,
                                   aa |-> got, state |-> "held"])
        /\ clients' = [clients EXCEPT ![c] = [@ EXCEPT !.pc = "hold", !.aa = got,
                                                       !.call = Len(calls) + 1]]
        /\ UNCHANGED <<journals, late, cancelled, faults>>

\* The client writes, and releases the append without error.
Release(c) ==
    LET aa == clients[c].aa
        n  == clients[c].call
    IN  /\ clients[c].pc = "hold"
        /\ LET fb == WriteUnits(aas[aa].fb, n, Units[n])
           IN  aas' = [aas EXCEPT ![aa] = [@ EXCEPT !.fb = fb, !.checkpoint = Written(fb)]]
        /\ calls' = [calls EXCEPT ![n].state = "released"]
        /\ mutex' = [mutex EXCEPT ![aas[aa].chain] = Unlocked]
        /\ clients' = [clients EXCEPT ![c] = IdleClient]
        /\ UNCHANGED <<appends, loops, journals, late, cancelled, faults>>

\* Release returns an error.  A goroutine rolls back, and holds the mutex until it has.
Abandoned(c) ==
    /\ mutex' = [mutex EXCEPT ![aas[clients[c].aa].chain] = RollingBack]
    /\ calls' = [calls EXCEPT ![clients[c].call].state = "rolledBack"]
    /\ clients' = [clients EXCEPT ![c] = IdleClient]
    /\ UNCHANGED <<appends, loops, journals, late, cancelled>>

\* The client Requires an error to be nil, and it isn't.
RequireFails(c) ==
    /\ clients[c].pc = "hold" /\ faults < MaxFaults
    /\ LET n == clients[c].call
       IN  aas' = [aas EXCEPT ![clients[c].aa].fb = WriteUnits(@, n, Units[n])]
    /\ Abandoned(c)
    /\ faults' = faults + 1

\* Writing drains a full buffer to the file, which fails; later writes do nothing.
WriteFails(c) ==
    /\ clients[c].pc = "hold" /\ faults < MaxFaults
    /\ \E k \in 0..(Units[clients[c].call] - 1), n \in 0..(BufferSize - 1) :
         LET fb == WriteUnits(aas[clients[c].aa].fb, clients[c].call, k)
         IN  /\ Len(fb.buf) = BufferSize
             /\ aas' = [aas EXCEPT ![clients[c].aa].fb = DrainFails(fb, n)]
    /\ Abandoned(c)
    /\ faults' = faults + 1

\* Faulty variant of Rollback: keeps the mutex.
RollbackKeepsMutex(chain) ==
    LET aa == Current(chain)
    IN  /\ mutex[chain] = RollingBack
        /\ aas' = [aas EXCEPT ![aa].fb = RolledBack(@, aas[aa].checkpoint)]
        /\ mutex' = [mutex EXCEPT ![chain] = "kept"]
        /\ UNCHANGED <<appends, loops, clients, calls, journals, late, cancelled, faults>>

Rollback(chain) ==
    LET aa == Current(chain)
    IN  /\ mutex[chain] = RollingBack
        /\ aas' = [aas EXCEPT ![aa].fb = RolledBack(@, aas[aa].checkpoint)]
        /\ mutex' = [mutex EXCEPT ![chain] = Unlocked]
        /\ UNCHANGED <<appends, loops, clients, calls, journals, late, cancelled, faults>>

\* A flush of the buffer of aa fails, and will be retried.
FlushFails(aa) ==
    /\ faults < MaxFaults /\ faults' = faults + 1
    /\ \E n \in 0..(Len(aas[aa].fb.buf) - 1) :
         aas' = [aas EXCEPT ![aa].fb = PartlyFlushed(@, n)]
    /\ UNCHANGED <<appends, mutex, loops, clients, calls, journals, late, cancelled>>

RollbackFault(chain) == mutex[chain] = RollingBack /\ FlushFails(Current(chain))

-----------------------------------------------------------------------------
(* serveAppends.                                                           *)

\* The loop takes the mutex to find that it may end, as nothing more is queued.
EndLoop(chain) ==
    LET aa == loops[chain].aa
    IN  /\ loops[chain].pc = "lock" /\ mutex[chain] = Unlocked
        /\ aas[aa].next = None /\ aas[aa].fb = NoBuffer /\ aas[aa].deps = {}
        /\ appends' = [appends EXCEPT ![aas[aa].journal] = None]
        /\ aas' = [aas EXCEPT ![aa] = [@ EXCEPT !.next = Tombstone, !.done = TRUE]]
        /\ loops' = [loops EXCEPT ![chain].pc = "ended"]
        /\ UNCHANGED <<mutex, clients, calls, journals, late, cancelled, faults>>

\* Or it chains an AsyncAppend for further appends to go to, and lets go of the mutex.
SealAppend(chain) ==
    LET aa == loops[chain].aa
    IN  /\ loops[chain].pc = "lock" /\ mutex[chain] = Unlocked
        /\ aas[aa].next # None \/ aas[aa].fb # NoBuffer \/ aas[aa].deps # {}
        /\ IF aas[aa].next = None
           THEN /\ aas' = Chained(aa, {})
                /\ appends' = [appends EXCEPT ![aas[aa].journal] = Len(aas')]
           ELSE UNCHANGED <<aas, appends>>
        /\ loops' = [loops EXCEPT ![chain].pc = "deps"]
        /\ UNCHANGED <<mutex, clients, calls, journals, late, cancelled, faults>>

\* It closes commitCh, returns the buffer to the pool, and goes on to the next.
Completed(chain, err) ==
    /\ aas' = [aas EXCEPT ![loops[chain].aa] =
                  [@ EXCEPT !.done = TRUE, !.err = err, !.fb = NoBuffer]]
    /\ loops' = [loops EXCEPT ![chain] = [pc |-> "lock", aa |-> aas[loops[chain].aa].next]]

DependenciesDone(aa) == \A d \in aas[aa].deps : aas[d].done

\* Dependencies are done.  There's no RPC if no client was given this AsyncAppend.
SkipAppend(chain) ==
    LET aa == loops[chain].aa
    IN  /\ loops[chain].pc = "deps" /\ DependenciesDone(aa) /\ aas[aa].fb = NoBuffer
        /\ Completed(chain, FALSE)
        /\ UNCHANGED <<appends, mutex, clients, calls, journals, late, cancelled, faults>>

\* Otherwise its buffer is flushed for the RPC.
Flush(chain) ==
    LET aa == loops[chain].aa
    IN  /\ loops[chain].pc = "deps" /\ DependenciesDone(aa) /\ aas[aa].fb # NoBuffer
        /\ aas' = [aas EXCEPT ![aa].fb = flush(@)]
        /\ loops' = [loops EXCEPT ![chain].pc = "rpc"]
        /\ UNCHANGED <<appends, mutex, clients, calls, journals, late, cancelled, faults>>

FlushFault(chain) ==
    /\ loops[chain].pc = "deps" /\ DependenciesDone(loops[chain].aa)
    /\ FlushFails(loops[chain].aa)

\* The RPC which the loop sends, of all content through the checkpoint.
RPC(chain) ==
    LET aa == loops[chain].aa
    IN  [aa |-> aa, content |-> Content(aas[aa].fb, aas[aa].checkpoint)]

Committed(rpc) ==
    journals' = [journals EXCEPT ![aas[rpc.aa].journal] = Append(@, rpc)]

\* The broker commits the RPC and answers.
AppendSucceeds(chain) ==
    /\ loops[chain].pc = "rpc" /\ ~cancelled
    /\ Committed(RPC(chain))
    /\ Completed(chain, FALSE)
    /\ UNCHANGED <<appends, mutex, clients, calls, late, cancelled, faults>>

\* Faulty variant of AppendFails: gives up.
AppendFailsForGood(chain) ==
    /\ loops[chain].pc = "rpc" /\ ~cancelled /\ faults < MaxFaults
    /\ faults' = faults + 1
    /\ late' \in {late, late \cup {RPC(chain)}}
    /\ Completed(chain, FALSE)
    /\ UNCHANGED <<appends, mutex, clients, calls, journals, cancelled>>

\* The RPC fails, and will be retried.  The broker may commit it nevertheless, now
\* or after its retry.
AppendFails(chain) ==
    /\ loops[chain].pc = "rpc" /\ ~cancelled /\ faults < MaxFaults
    /\ faults' = faults + 1
    /\ late' \in {late, late \cup {RPC(chain)}}
    /\ UNCHANGED <<aas, appends, mutex, loops, clients, calls, journals, cancelled>>

AppendCancelled(chain) ==
    /\ loops[chain].pc = "rpc" /\ cancelled
    /\ Completed(chain, TRUE)
    /\ UNCHANGED <<appends, mutex, clients, calls, journals, late, cancelled, faults>>

LateCommit(rpc) ==
    /\ Committed(rpc)
    /\ late' = late \ {rpc}
    /\ UNCHANGED <<aas, appends, mutex, loops, clients, calls, cancelled, faults>>

\* The Context is cancelled, while some RPCs are underway.
Cancel ==
    /\ ~cancelled /\ cancelled' = TRUE
    /\ faults < MaxFaults /\ faults' = faults + 1
    /\ \E sent \in SUBSET {chain \in DOMAIN loops : loops[chain].pc = "rpc"} :
         late' = late \cup {RPC(chain) : chain \in sent}
    /\ UNCHANGED <<aas, appends, mutex, loops, clients, calls, journals>>

-----------------------------------------------------------------------------
ClientStep(c) ==
    StartAppendAfter(c) \/ Restart(c) \/ ReturnAppend(c) \/ Release(c)

LoopStep(chain) ==
    \/ EndLoop(chain) \/ SealAppend(chain) \/ SkipAppend(chain) \/ Flush(chain)
    \/ AppendSucceeds(chain) \/ AppendCancelled(chain)

Next ==
    \/ \E c \in Client : \/ \E j \in Journal : StartAppend(c, j) \/ TakePending(c, j)
                         \/ ClientStep(c) \/ RequireFails(c) \/ WriteFails(c)
    \/ \E chain \in DOMAIN mutex :
         \/ Rollback(chain) \/ RollbackFault(chain)
         \/ LoopStep(chain) \/ FlushFault(chain) \/ AppendFails(chain)
    \/ \E rpc \in late : LateCommit(rpc)
    \/ Cancel

Spec == Init /\ [][Next]_vars

-----------------------------------------------------------------------------
(* Properties.                                                             *)

\* The types of the variables.
TypeOK ==
    /\ \A n \in DOMAIN aas :
         /\ aas[n].journal \in Journal
         /\ aas[n].chain \in DOMAIN mutex
         /\ aas[n].deps \subseteq 1..(n - 1)
         /\ aas[n].next \in {None, Tombstone} \cup ((n + 1)..Len(aas))
         /\ aas[n].checkpoint \in Nat
    /\ \A j \in Journal : appends[j] \in 0..Len(aas)
    /\ DOMAIN loops = DOMAIN mutex
    /\ \A m \in DOMAIN mutex : mutex[m] \in Client \cup {Unlocked, RollingBack}
    /\ faults \in 0..MaxFaults /\ cancelled \in BOOLEAN

IsCommitted(n) == \E i \in DOMAIN journals[calls[n].journal] :
                     n \in Range(journals[calls[n].journal][i].content)

\* Done of an append means that it was committed, unless it reports the
\* cancelled Context.
DoneIsCommitted ==
    \A n \in DOMAIN calls :
       calls[n].state = "released" /\ Units[n] > 0 /\ aas[calls[n].aa].done =>
          IsCommitted(n) \/ (cancelled /\ aas[calls[n].aa].err)

\* A barrier holds: if an append is committed, then so are all appends to other
\* journals which had been started when its caller took PendingExcept.
BarriersHold ==
    \A n \in DOMAIN calls : IsCommitted(n) =>
       \A b \in calls[n].before :
          \/ calls[b].state = "rolledBack"
          \/ calls[b].state = "released" /\ (Units[b] > 0 => IsCommitted(b))

\* What goroutines of clients and of the service do without being asked to.
Progress ==
    \/ \E c \in Client : ClientStep(c)
    \/ \E chain \in DOMAIN mutex : LoopStep(chain) \/ Rollback(chain)

\* Every append which StartAppend returned gets to be Done, or is rolled back: though loops
\* of several journals wait for one another's appends and chains end meanwhile, the
\* goroutines don't come to rest before.
AppendsFinish ==
    \/ ENABLED Progress
    \/ \A n \in DOMAIN calls : calls[n].state = "rolledBack" \/ aas[calls[n].aa].done
=============================================================================
