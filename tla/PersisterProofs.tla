-------------------------- MODULE PersisterProofs --------------------------
(***************************************************************************)
(* Proofs about the Persister, for any Spools, stores and bounds: that     *)
(* Finish returns only once every Spool was persisted or dropped, that a   *)
(* Spool waits for two ticks, and that it's attempted once at a time.      *)
(*                                                                         *)
(* The inductive invariant follows each Spool.  It is in one place: being  *)
(* attempted, or in the part of the queues which Serve is yet to attempt.  *)
(* A Spool in none of these was persisted or dropped.                      *)
(***************************************************************************)
EXTENDS Persister, TLAPS

\* The Spools of qA which Serve is yet to attempt.
NextUp == IF serve = "persist" THEN todo ELSE qA

Settled(s) == Persisted(s) \/ s \in dropped

\* How the states of Serve and Finish relate.
Phases ==
    /\ serve = "done" => exiting
    /\ serve = "select" => ~exiting
    /\ exiting => finish \in {"waiting", "returned"}
    /\ finish = "returned" => serve = "done"
    /\ serve # "done" => late = {}
    /\ serve # "persist" => todo = {}

\* What was neither persisted nor dropped is being attempted or queued, until Serve ends.
NothingLost ==
    \A s \in complete \ (Empty \cup late) :
        \/ Settled(s)
        \/ serve # "done" /\ s \in Attempted \cup NextUp \cup qB \cup qC

\* A Spool is attempted by one goroutine at a time.
AttemptedOnce ==
    /\ \A u, v \in uploads : u[1] = v[1] => u = v
    /\ \A u \in uploads : u[1] \notin lookups

\* A Spool is in one place.
OnePlace ==
    /\ \A s \in NextUp \cup qB \cup qC : s \notin Attempted
    /\ \A s \in NextUp : s \notin qB \cup qC
    /\ \A s \in qB : s \notin qC

\* Ages of Spools which Serve attempts now, and next.
Aged ==
    ~exiting =>
        /\ serve = "persist" => (\A s \in todo : age[s] = 2) /\ (\A s \in qB : age[s] >= 1)
        /\ serve = "select" => \A s \in qA : age[s] >= 1

IInv == TypeOK /\ Phases /\ NothingLost /\ AttemptedOnce /\ OnePlace /\ Aged

\* Initially nothing was completed, and every conjunct of the invariant holds.
LEMMA InitInvariant == Init => IInv
<1> SUFFICES ASSUME Init PROVE IInv
  OBVIOUS
<1> USE DEF Init
<1>1. TypeOK
  <2>1. spec \subseteq Store
    OBVIOUS
  <2>2. age \in [Spool -> 0..2]
    OBVIOUS
  <2>3. QED
    BY <2>1, <2>2 DEF TypeOK
<1>2. Phases /\ NothingLost /\ AttemptedOnce /\ OnePlace /\ Aged
  BY DEF Phases, NothingLost, AttemptedOnce, OnePlace, Aged, NextUp
<1>3. QED
  BY <1>1, <1>2 DEF IInv

\* A step which leaves Spools, queues and attempts as they are, and at most changes where
\* Finish is, or the JournalSpec.
LEMMA OtherStep ==
    ASSUME IInv, UNCHANGED <<complete, queues, attempts, serve, todo, exiting, late>>,
           finish' = finish \/ (finish = "no" /\ finish' = "asked")
               \/ (finish = "waiting" /\ serve = "done" /\ finish' = "returned"),
           spec' \subseteq Store, specs' \in Nat
    PROVE  IInv'
BY DEF IInv, TypeOK, Phases, NothingLost, AttemptedOnce, OnePlace, Aged, NextUp, Attempted,
       Settled, Persisted, queues, attempts

\* Completing a Spool puts it in one place, where it was in none (SpoolComplete).
LEMMA CompleteStep ==
    ASSUME IInv, NEW s \in Spool, SpoolCompleteAsPrimary(s) \/ SpoolComplete(s)
    PROVE  IInv'
<1> USE DEF Completes, queues, attempts, loop
<1>1. s \notin complete /\ s \notin Attempted /\ s \notin qA \cup qB \cup qC \cup todo
  BY DEF IInv, TypeOK, Attempted, SpoolCompleteAsPrimary, SpoolComplete
<1>2. CASE SpoolCompleteAsPrimary(s)
  <2> USE <1>1, <1>2 DEF SpoolCompleteAsPrimary
  <2>1. TypeOK'
    BY DEF IInv, TypeOK
  <2>2. Phases' /\ Aged'
    BY DEF IInv, Phases, Aged
  <2>3. NothingLost'
    BY DEF IInv, Phases, NothingLost, NextUp, Attempted, Settled, Persisted
  <2>4. AttemptedOnce'
    BY DEF IInv, AttemptedOnce, Attempted
  <2>5. OnePlace'
    BY DEF IInv, OnePlace, NextUp, Attempted
  <2>6. QED
    BY <2>1, <2>2, <2>3, <2>4, <2>5 DEF IInv
<1>3. CASE SpoolComplete(s) /\ s \in Empty
  <2> USE <1>1, <1>3 DEF SpoolComplete
  <2>1. TypeOK'
    BY DEF IInv, TypeOK
  <2>2. NothingLost'
    BY DEF IInv, NothingLost, NextUp, Attempted, Settled, Persisted
  <2>3. QED
    BY <2>1, <2>2 DEF IInv, Phases, Aged, AttemptedOnce, OnePlace, NextUp, Attempted
<1>4. CASE SpoolComplete(s) /\ s \notin Empty
  <2> USE <1>1, <1>4 DEF SpoolComplete, queue
  <2>1. TypeOK'
    BY DEF IInv, TypeOK
  <2>2. Phases' /\ AttemptedOnce'
    BY DEF IInv, Phases, AttemptedOnce, Attempted
  <2>3. NothingLost'
    BY DEF IInv, Phases, NothingLost, NextUp, Attempted, Settled, Persisted
  <2>4. OnePlace'
    BY DEF IInv, OnePlace, NextUp, Attempted
  <2>5. Aged'
    BY DEF IInv, TypeOK, Aged
  <2>6. QED
    BY <2>1, <2>2, <2>3, <2>4, <2>5 DEF IInv
<1>5. QED
  BY <1>2, <1>3, <1>4

\* An attempt ends with the Spool dropped, stored, or in qC again (attemptPersist).
LEMMA AttemptStep ==
    ASSUME IInv, NEW s \in Spool, Attempt(s)
    PROVE  IInv'
<1> USE DEF journal, queues, loop
<1>1. CASE Drop(s)
  <2> USE <1>1 DEF Drop
  <2>1. TypeOK'
    BY DEF IInv, TypeOK
  <2>2. NothingLost'
    BY DEF IInv, NothingLost, NextUp, Attempted, Settled, Persisted
  <2>3. AttemptedOnce' /\ OnePlace'
    BY DEF IInv, AttemptedOnce, OnePlace, NextUp, Attempted
  <2>4. QED
    BY <2>1, <2>2, <2>3 DEF IInv, Phases, Aged
<1>2. ASSUME NEW b \in Store, Attach(s, b) PROVE IInv'
  <2> USE <1>2 DEF Attach
  <2>1. TypeOK'
    BY DEF IInv, TypeOK
  <2>2. Attempted' = Attempted
    <3>1. <<s, b>>[1] = s /\ uploads' = uploads \cup {<<s, b>>}
      OBVIOUS
    <3>2. {u[1] : u \in uploads'} = {u[1] : u \in uploads} \cup {s}
      BY <3>1, Zenon
    <3>3. QED
      BY <3>2 DEF Attempted
  <2>3. NothingLost'
    BY <2>2 DEF IInv, NothingLost, NextUp, Settled, Persisted
  <2>4. AttemptedOnce'
    BY DEF IInv, AttemptedOnce
  <2>5. OnePlace'
    BY <2>2 DEF IInv, OnePlace, NextUp
  <2>6. QED
    BY <2>1, <2>3, <2>4, <2>5 DEF IInv, Phases, Aged
<1>3. ASSUME NEW b \in Store, Upload(s, b) PROVE IInv'
  <2> USE <1>3 DEF Upload
  <2>1. TypeOK'
    BY DEF IInv, TypeOK
  <2>2. Attempted' \subseteq Attempted /\ Attempted \subseteq Attempted' \cup {s}
    BY DEF Attempted
  <2>3. NothingLost'
    BY <2>2 DEF IInv, NothingLost, NextUp, Settled, Persisted
  <2>4. AttemptedOnce'
    BY DEF IInv, AttemptedOnce
  <2>5. OnePlace'
    BY <2>2 DEF IInv, OnePlace, NextUp
  <2>6. QED
    BY <2>1, <2>3, <2>4, <2>5 DEF IInv, Phases, Aged
<1>4. ASSUME NEW b \in Store, FailUpload(s, b) PROVE IInv'
  <2> USE <1>4 DEF FailUpload, Requeued, queue
  <2>1. TypeOK'
    BY DEF IInv, TypeOK
  <2>2. Attempted' \subseteq Attempted /\ Attempted \subseteq Attempted' \cup {s} /\ s \in Attempted
    BY DEF Attempted
  <2>3. s \notin Attempted'
    BY DEF IInv, AttemptedOnce, Attempted
  <2>4. s \notin NextUp \cup qB \cup qC
    BY <2>2 DEF IInv, OnePlace
  <2>5. NothingLost'
    <3>1. ASSUME NEW t, Settled(t) PROVE Settled(t)'
      BY <3>1 DEF Settled, Persisted
    <3>2. NextUp' = NextUp
      BY DEF NextUp
    <3>3. QED
      BY <2>2, <3>1, <3>2 DEF IInv, NothingLost, Phases
  <2>6. AttemptedOnce'
    BY DEF IInv, AttemptedOnce
  <2>7. OnePlace'
    BY <2>2, <2>3, <2>4 DEF IInv, OnePlace, NextUp
  <2>8. Aged'
    BY <2>4 DEF IInv, TypeOK, Aged, NextUp
  <2>9. QED
    BY <2>1, <2>5, <2>6, <2>7, <2>8 DEF IInv, Phases
<1>5. QED
  BY <1>1, <1>2, <1>3, <1>4 DEF Attempt

\* Serve attempts the Spools of qA, and rotates the queues once it did (Serve).
LEMMA ServeStep ==
    ASSUME IInv, Serves \/ ReceiveDone
    PROVE  IInv'
<1> USE DEF journal, queues, attempts
<1>1. CASE Tick \/ ReceiveDone
  <2> USE <1>1 DEF Tick, ReceiveDone
  <2>1. TypeOK'
    <3>1. age' \in [Spool -> 0..2]
      <4>1. \A t \in Spool : age[t] \in 0..2
        BY DEF IInv, TypeOK
      <4>2. CASE Tick
        BY <4>1, <4>2
      <4>3. QED
        BY <4>2 DEF IInv, TypeOK
    <3>2. QED
      BY <3>1 DEF IInv, TypeOK
  <2>2. Phases'
    BY DEF IInv, Phases
  <2>3. NextUp' = NextUp /\ Attempted' = Attempted
    BY DEF NextUp, Attempted
  <2>4. NothingLost'
    BY <2>3 DEF IInv, NothingLost, Phases, Settled, Persisted
  <2>5. AttemptedOnce' /\ OnePlace'
    BY <2>3 DEF IInv, AttemptedOnce, OnePlace
  <2>6. Aged'
    <3>1. CASE ReceiveDone
      BY <3>1 DEF Aged
    <3>2. CASE Tick
      <4>1. ASSUME NEW s \in qA \cup qB PROVE age[s] \in 0..2 /\ age'[s] = IF age[s] < 2 THEN age[s] + 1 ELSE 2
        BY <3>2, <4>1 DEF IInv, TypeOK
      <4>2. QED
        BY <3>2, <4>1 DEF IInv, Aged
    <3>3. QED
      BY <3>1, <3>2
  <2>7. QED
    BY <2>1, <2>2, <2>4, <2>5, <2>6 DEF IInv
<1>2. ASSUME NEW s \in Spool, AttemptNext(s) PROVE IInv'
  <2> USE <1>2 DEF AttemptNext
  <2>1. TypeOK'
    BY DEF IInv, TypeOK
  <2>2. Phases' /\ Aged'
    BY DEF IInv, Phases, Aged
  <2>3. Attempted' = Attempted \cup {s} /\ NextUp' = NextUp \ {s} /\ s \in NextUp
    BY DEF NextUp, Attempted
  <2>4. NothingLost'
    BY <2>3 DEF IInv, NothingLost, Settled, Persisted
  <2>5. AttemptedOnce'
    BY <2>3 DEF IInv, AttemptedOnce, OnePlace, Attempted
  <2>6. OnePlace'
    BY <2>3 DEF IInv, OnePlace
  <2>7. QED
    BY <2>1, <2>2, <2>4, <2>5, <2>6 DEF IInv
<1>3. CASE Rotate
  <2> USE <1>3 DEF Rotate, Rotated, Exits, Onward
  <2>1. TypeOK'
    BY DEF IInv, TypeOK, Attempted
  <2>2. Phases'
    BY DEF IInv, Phases
  <2>3. NextUp = {} /\ NextUp' = qB /\ Attempted' = Attempted
    BY DEF NextUp, Attempted
  <2>4. NothingLost'
    <3>1. late = {} /\ serve # "done"
      BY DEF IInv, Phases
    <3>2. ASSUME NEW t PROVE Settled(t)' <=> Settled(t)
      BY DEF Settled, Persisted
    <3>3. QED
      BY <2>3, <3>1, <3>2 DEF IInv, NothingLost
  <2>5. AttemptedOnce' /\ OnePlace'
    BY <2>3 DEF IInv, AttemptedOnce, OnePlace
  <2>6. Aged'
    BY DEF IInv, Aged
  <2>7. QED
    BY <2>1, <2>2, <2>4, <2>5, <2>6 DEF IInv
<1>4. QED
  BY <1>1, <1>2, <1>3 DEF Serves

\* Every step of the Persister, of goroutines which attempt Spools, and of its callers
\* preserves the invariant.
THEOREM Invariant == Spec => []IInv
<1>1. IInv /\ [Next]_vars => IInv'
  <2> SUFFICES ASSUME IInv, [Next]_vars PROVE IInv'
    OBVIOUS
  <2>1. CASE UNCHANGED vars
    BY <2>1, OtherStep DEF vars, journal, loop, IInv, TypeOK
  <2>2. CASE Respecify
    BY <2>2, OtherStep DEF Respecify, loop, IInv, TypeOK
  <2>3. CASE Finish \/ FinishReturns
    BY <2>3, OtherStep DEF Finish, FinishReturns, journal, IInv, TypeOK
  <2>4. QED
    BY <2>1, <2>2, <2>3, CompleteStep, AttemptStep, ServeStep DEF Next
<1>2. QED
  BY <1>1, InitInvariant, PTL DEF Spec

\* The variables have their types, and every queue and attempt is of a completed Spool.
THEOREM TypeCorrect == Spec => []TypeOK
BY Invariant, PTL DEF IInv

\* Finish returns only once every Spool with content was persisted or dropped, but for those
\* which goroutines of a primary were attempting as Serve ended (Finish, Serve).
THEOREM FinishPersistsAll == Spec => []FinishPersists
<1>1. IInv => FinishPersists
  BY DEF IInv, Phases, NothingLost, FinishPersists, Settled
<1>2. QED
  BY <1>1, Invariant, PTL

\* Serve attempts a Spool only once two ticks followed its being queued, until it's exiting.
THEOREM WaitsForTicks == Spec => []Unhurried
<1>1. IInv => Unhurried
  BY DEF IInv, Phases, TypeOK, Aged, Unhurried
<1>2. QED
  BY <1>1, Invariant, PTL

\* No Spool is attempted by two goroutines at once: not by that of a primary and by Serve,
\* however often uploads of it fail.
THEOREM NeverAttemptedTwice == Spec => []AttemptedOnce
BY Invariant, PTL DEF IInv
=============================================================================
