----------------------------- MODULE Persister -----------------------------
(***************************************************************************)
(* The Persister of a broker (v2/pkg/fragment/persister.go), which uploads *)
(* the completed Spools of the journals it replicates to their stores.     *)
(* Spools completed as primary are attempted at once, each by a goroutine; *)
(* others wait in three queues which Serve rotates on every tick, so that  *)
(* the primary's upload usually makes theirs a no-op.  Queues are sets, as *)
(* the order within one is immaterial.                                     *)
(***************************************************************************)
EXTENDS Integers

CONSTANTS
    Spool,        \* Spools of one journal
    Empty,        \* those which complete without content
    Store,        \* backing stores which its JournalSpec may name
    MaxFailures,  \* bounds failed uploads
    MaxSpecs      \* bounds updates of the JournalSpec

VARIABLES
    spec,      \* first store of the JournalSpec, as a set: it may have none, or be removed
    specs,     \* updates of the JournalSpec
    complete,  \* Spools which were completed
    qA, qB, qC,
    age,       \* ticks since a queued Spool was queued, up to 2
    lookups,   \* Spools whose attemptPersist is to look up the JournalSpec
    uploads,   \* <<Spool, Store>> for which persistFn was called
    current,   \* the Spool which Serve attempts, as a set
    stored,    \* objects of the stores, <<Spool, Store>>
    dropped,   \* Spools dropped by attemptPersist
    failures,
    serve,     \* where Serve is
    todo,      \* Spools of qA which this iteration of Serve is yet to attempt
    exiting,
    finish,    \* where Finish is
    late       \* Spools which goroutines were attempting as Serve ended

journal == <<spec, specs, complete>>
queues == <<qA, qB, qC, age>>
attempts == <<lookups, uploads, current, stored, dropped, failures>>
loop == <<serve, todo, exiting, finish, late>>
vars == <<journal, queues, attempts, loop>>

Init ==
    /\ spec \in {{b} : b \in Store} /\ specs = 0
    /\ complete = {} /\ qA = {} /\ qB = {} /\ qC = {}
    /\ age = [s \in Spool |-> 0]
    /\ lookups = {} /\ uploads = {} /\ current = {}
    /\ stored = {} /\ dropped = {} /\ failures = 0
    /\ serve = "select" /\ todo = {} /\ exiting = FALSE
    /\ finish = "no" /\ late = {}

\* The JournalSpec is updated or removed.
Respecify ==
    /\ specs < MaxSpecs
    /\ specs' = specs + 1
    /\ spec' \in {{}} \cup {{b} : b \in Store}
    /\ UNCHANGED <<complete, queues, attempts, loop>>

\* queue: under the mutex, and so at once.
queue(s) ==
    /\ qC' = qC \cup {s}
    /\ age' = [age EXCEPT ![s] = 0]
    /\ UNCHANGED <<qA, qB>>

\* A Spool is completed.  No replica, and so no Spool, is left once Finish is called.
Completes(s) ==
    /\ finish = "no" /\ s \notin complete
    /\ complete' = complete \cup {s}
    /\ UNCHANGED <<spec, specs, loop>>

SpoolCompleteAsPrimary(s) ==
    /\ Completes(s)
    /\ lookups' = lookups \cup {s}
    /\ UNCHANGED <<queues, uploads, current, stored, dropped, failures>>

SpoolComplete(s) ==
    /\ Completes(s)
    /\ IF s \in Empty THEN UNCHANGED queues ELSE queue(s)
    /\ UNCHANGED attempts

-----------------------------------------------------------------------------
(* attemptPersist, of a goroutine or of Serve. *)

Attempted == lookups \cup {u[1] : u \in uploads}

\* It returns without an upload of an empty Spool, or of a journal which has no store.
Drop(s) ==
    /\ s \in lookups
    /\ s \in Empty \/ spec = {}
    /\ lookups' = lookups \ {s}
    /\ dropped' = dropped \cup {s}
    /\ current' = current \ {s}
    /\ UNCHANGED <<journal, queues, uploads, stored, failures, loop>>

Attach(s, b) ==
    /\ s \in lookups \ Empty /\ b \in spec
    /\ lookups' = lookups \ {s}
    /\ uploads' = uploads \cup {<<s, b>>}
    /\ UNCHANGED <<journal, queues, current, stored, dropped, failures, loop>>

\* persistFn succeeds: the object was there, or has been uploaded.
Upload(s, b) ==
    /\ <<s, b>> \in uploads
    /\ uploads' = uploads \ {<<s, b>>}
    /\ stored' = stored \cup {<<s, b>>}
    /\ current' = current \ {s}
    /\ UNCHANGED <<journal, queues, lookups, dropped, failures, loop>>

\* Faulty variant of Requeued: an upload which fails is given up.
RequeuedNot(s) == UNCHANGED queues

Requeued(s) == queue(s)

\* persistFn fails, with the object uploaded or not.
FailUpload(s, b) ==
    /\ <<s, b>> \in uploads
    /\ failures < MaxFailures
    /\ failures' = failures + 1
    /\ uploads' = uploads \ {<<s, b>>}
    /\ stored' \in {stored, stored \cup {<<s, b>>}}
    /\ current' = current \ {s}
    /\ Requeued(s)
    /\ UNCHANGED <<journal, lookups, dropped, loop>>

Attempt(s) ==
    Drop(s) \/ \E b \in Store : Attach(s, b) \/ Upload(s, b) \/ FailUpload(s, b)

-----------------------------------------------------------------------------
(* Serve and Finish. *)

\* The ticker is stopped once Serve is exiting.
Tick ==
    /\ serve = "select" /\ ~exiting
    /\ serve' = "persist" /\ todo' = qA
    /\ age' = [s \in Spool |-> IF s \in qA \cup qB \cup qC
                               THEN IF age[s] < 2 THEN age[s] + 1 ELSE 2
                               ELSE 0]
    /\ UNCHANGED <<journal, qA, qB, qC, attempts, exiting, finish, late>>

\* Watch returned, every replica is shut down, and its task asks Serve to exit.
Finish ==
    /\ finish = "no"
    /\ finish' = "asked"
    /\ UNCHANGED <<journal, queues, attempts, serve, todo, exiting, late>>

ReceiveDone ==
    /\ serve = "select" /\ finish = "asked"
    /\ finish' = "waiting" /\ exiting' = TRUE
    /\ serve' = "persist" /\ todo' = qA
    /\ UNCHANGED <<journal, queues, attempts, late>>

AttemptNext(s) ==
    /\ serve = "persist" /\ current = {} /\ s \in todo
    /\ current' = {s} /\ todo' = todo \ {s}
    /\ lookups' = lookups \cup {s}
    /\ UNCHANGED <<journal, queues, uploads, stored, dropped, failures,
                   serve, exiting, finish, late>>

Rotated == qA' = qB /\ qB' = qC /\ qC' = {}

\* Faulty variant of Exits: ignores what was queued meanwhile.
ExitsAtOnce == exiting /\ qA' = {}

Exits == exiting /\ qA' = {} /\ qB' = {}

\* Where the loop continues: at its select, which it skips once it's exiting.
Onward == IF exiting THEN "persist" ELSE "select"

Rotate ==
    /\ serve = "persist" /\ current = {} /\ todo = {}
    /\ Rotated
    /\ serve' = IF Exits THEN "done" ELSE Onward
    /\ todo' = IF serve' = "persist" THEN qA' ELSE {}
    /\ late' = IF Exits THEN Attempted ELSE {}
    /\ UNCHANGED <<journal, age, attempts, exiting, finish>>

FinishReturns ==
    /\ finish = "waiting" /\ serve = "done"
    /\ finish' = "returned"
    /\ UNCHANGED <<journal, queues, attempts, serve, todo, exiting, late>>

Serves == Tick \/ (\E s \in Spool : AttemptNext(s)) \/ Rotate

Next ==
    \/ Respecify
    \/ \E s \in Spool : SpoolCompleteAsPrimary(s) \/ SpoolComplete(s) \/ Attempt(s)
    \/ Serves \/ Finish \/ ReceiveDone \/ FinishReturns

Spec == Init /\ [][Next]_vars

\* The goroutines run, the ticker ticks, and Go's select doesn't always prefer the
\* tick.  Uploads fail up to a bound only.
Fairness ==
    /\ \A s \in Spool : WF_vars(Attempt(s))
    /\ WF_vars(Serves) /\ SF_vars(ReceiveDone) /\ WF_vars(FinishReturns)

FairSpec == Spec /\ Fairness

-----------------------------------------------------------------------------
\* The types of the variables.
TypeOK ==
    /\ spec \subseteq Store /\ specs \in Nat
    /\ complete \subseteq Spool
    /\ qA \subseteq complete /\ qB \subseteq complete /\ qC \subseteq complete
    /\ age \in [Spool -> 0..2]
    /\ lookups \subseteq complete /\ uploads \subseteq complete \X Store
    /\ stored \subseteq complete \X Store /\ dropped \subseteq complete
    /\ failures \in Nat
    /\ serve \in {"select", "persist", "done"}
    /\ todo \subseteq qA /\ current \subseteq qA /\ exiting \in BOOLEAN
    /\ finish \in {"no", "asked", "waiting", "returned"} /\ late \subseteq complete

Persisted(s) == \E b \in Store : <<s, b>> \in stored

\* Once Finish returns, every Spool with content which was completed is in a store, or
\* was dropped for want of one.  The exception are Spools which a primary's goroutine
\* was attempting as Serve ended, as nothing waits for those.
FinishPersists ==
    finish = "returned" =>
        \A s \in complete \ (Empty \cup late) : Persisted(s) \/ s \in dropped

\* Until it's exiting, Serve attempts a Spool only once at least a whole interval of
\* the ticker has passed since it was queued: two ticks followed.
Unhurried == ~exiting => \A s \in todo : age[s] = 2

\* However uploads fail and the JournalSpec changes, there always comes a time when
\* every completed Spool was persisted or dropped, or a goroutine was attempting it as
\* Serve ended.  Finish returns: neither Serve nor its caller waits for the other forever.
Persists ==
    /\ []<>(\A s \in complete \ (Empty \cup late) : Persisted(s) \/ s \in dropped)
    /\ finish = "asked" ~> finish = "returned"
=============================================================================
