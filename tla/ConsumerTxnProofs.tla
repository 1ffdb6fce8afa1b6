------------------------- MODULE ConsumerTxnProofs -------------------------
(***************************************************************************)
(* Proofs about the transactions of a consumer shard, for any number of    *)
(* replicas, sources and messages: a Store which is recovered has stepped  *)
(* past no message whose outputs have not committed, and reflects each     *)
(* message before its offsets exactly once.                                *)
(*                                                                         *)
(* Both are about what is recovered from the log, and what comes to be     *)
(* there was written long before.  The inductive invariant follows it from *)
(* where it's made: a primary's Store has applied exactly what it has read *)
(* through (StoreOK); a content which awaits its commit in the queue is    *)
(* exact, and each message it covers is published or is awaited by an      *)
(* append before it (QueueOK); and so what has been played back is exact   *)
(* and published (FilesOK).  It holds of superseded replicas as well,      *)
(* though what they append is ignored.                                     *)
(***************************************************************************)
EXTENDS ConsumerTxn, SequenceTheorems, TLAPS

\* The type of a transaction, as ReplicaType has it.
TxnType ==
    [offsets : [Source -> Nat \cup {-1}], held : SUBSET Message,
     begun : BOOLEAN, min : BOOLEAN, max : BOOLEAN, prior : BOOLEAN]

\* The empty content, and what a replica begins as, have their types.
LEMMA BlankType == Blank \in Content /\ NewReplica \in ReplicaType /\ \A p \in BOOLEAN : NewTxn(p) \in TxnType
<1>1. Blank \in Content
  BY DEF Blank, Content, Offsets
<1>2. ASSUME NEW p \in BOOLEAN PROVE NewTxn(p) \in TxnType
  BY DEF NewTxn, TxnType
<1>3. NewReplica \in ReplicaType
  <2>1. << >> \in Seq(OpType)
    OBVIOUS
  <2>2. Blank.offsets \in Offsets
    BY <1>1 DEF Content
  <2>3. QED
    BY <1>1, <1>2, <2>1, <2>2 DEF NewReplica, ReplicaType, TxnType
<1>4. QED
  BY <1>1, <1>2, <1>3

\* What ConsumeMessage of `msg`, from source s, makes of a replica: `new`.
IsConsumed(rep, s, msg, new) ==
    /\ new \in ReplicaType
    /\ new.pc = rep.pc
    /\ new.store.offsets = rep.store.offsets
    /\ new.store.applied = [rep.store.applied EXCEPT ![msg] = @ + 1]
    /\ new.next = [rep.next EXCEPT ![s] = @ + 1]
    /\ new.txn.offsets = [rep.txn.offsets EXCEPT ![s] = rep.next[s] + 1]
    /\ new.pending \cup new.txn.held = rep.pending \cup rep.txn.held \cup {msg}
    /\ rep.pending \subseteq new.pending
    /\ new.queue = rep.queue /\ new.visible = rep.visible /\ new.stat = rep.stat

\* ConsumeMessage makes it so.
LEMMA Consumed ==
    ASSUME NEW rep \in ReplicaType, NEW s \in Source, NEW msg \in Message, holds \in BOOLEAN,
           NEW new, new = ConsumeMessage(rep, s, msg)
    PROVE  IsConsumed(rep, s, msg, new)
<1> DEFINE store == [rep.store EXCEPT !.applied[msg] = @ + 1]
           next == [rep.next EXCEPT ![s] = @ + 1]
           pending == IF holds THEN rep.pending ELSE rep.pending \cup {msg}
           held == IF holds THEN rep.txn.held \cup {msg} ELSE rep.txn.held
           txn == [rep.txn EXCEPT !.held = IF holds THEN @ \cup {msg} ELSE @,
                                  !.begun = TRUE, !.offsets[s] = rep.next[s] + 1]
           applied == [rep.store.applied EXCEPT ![msg] = @ + 1]
           offsets == [rep.txn.offsets EXCEPT ![s] = rep.next[s] + 1]
<1>0. /\ rep.store \in Content /\ rep.store.applied \in [Message -> Nat]
      /\ rep.next \in [Source -> Nat] /\ rep.pending \in SUBSET Message
      /\ rep.txn \in TxnType /\ rep.txn.offsets \in [Source -> Nat \cup {-1}]
  BY DEF ReplicaType, TxnType, Content, Offsets
<1>1. new = [rep EXCEPT !.store = store, !.next = next, !.pending = pending, !.txn = txn]
  BY DEF ConsumeMessage
<1>2. applied \in [Message -> Nat]
  BY <1>0
<1>2a. store \in Content /\ store.offsets = rep.store.offsets /\ store.applied = applied
  BY <1>0, <1>2 DEF Content
<1>3. next \in Offsets
  BY <1>0 DEF Offsets
<1>4a. offsets \in [Source -> Nat \cup {-1}]
  BY <1>0
<1>4b. held \in SUBSET Message
  BY <1>0 DEF TxnType
<1>4. txn \in TxnType /\ txn.offsets = offsets /\ txn.held = held
  BY <1>0, <1>4a, <1>4b DEF TxnType
<1>5. pending \in SUBSET Message
  BY <1>0
<1> HIDE DEF applied, offsets, held, store, next, pending, txn
<1>6. /\ new.pc = rep.pc /\ new.store = store /\ new.next = next /\ new.txn = txn
      /\ new.pending = pending
      /\ new.queue = rep.queue /\ new.visible = rep.visible /\ new.stat = rep.stat
  BY <1>1 DEF ReplicaType
<1>7. new \in ReplicaType
  BY <1>1, <1>2a, <1>3, <1>4, <1>5 DEF ReplicaType, TxnType
<1>8. new.pending \cup new.txn.held = rep.pending \cup rep.txn.held \cup {msg}
      /\ rep.pending \subseteq new.pending
  BY <1>4, <1>6 DEF pending, held
<1>9. QED
  BY <1>2a, <1>4, <1>6, <1>7, <1>8 DEF IsConsumed, applied, next, offsets

-----------------------------------------------------------------------------
\* A content has applied each message before its offsets once, and no other.
Exact(c) == \A m \in Message : c.applied[m] = IF m \in Through(c.offsets) THEN 1 ELSE 0

\* What is queued depends on outputs which are pending or published. A content which is queued
\* is exact, and appends ahead of it depend on the outputs it needs.
QueueOK(q, pending, P) ==
    \A i \in 1..Len(q) :
        /\ q[i].deps \subseteq pending \cup P
        /\ q[i].content # None =>
              /\ Exact(q[i].content)
              /\ \A m \in Through(q[i].content.offsets) :
                    m \in P \/ \E j \in 1..(i - 1) : m \in q[j].deps

\* A primary's Store has applied what it has read through, and no other; its outputs are
\* published, pending or held; and the transaction's offsets and the Store's tell where it has
\* read through.
StoreOK(rep, P) ==
    /\ \A s \in Source :
          /\ MinOffset[s] <= rep.next[s] /\ rep.store.offsets[s] <= rep.next[s]
          /\ IF rep.txn.offsets[s] >= 0 THEN rep.txn.offsets[s] = rep.next[s]
             ELSE LowerBounded(rep.store.offsets)[s] = rep.next[s]
    /\ \A m \in Message : rep.store.applied[m] = IF m \in Through(rep.next) THEN 1 ELSE 0
    /\ Through(rep.next) \subseteq P \cup rep.pending \cup rep.txn.held

\* What holds of each replica, where P are the messages which are published.
ReplicaOK(rep, P) ==
    /\ rep \in ReplicaType
    /\ QueueOK(rep.queue, rep.pending, P)
    /\ rep.pc = "primary" => StoreOK(rep, P)

\* It still holds as further outputs are published.
LEMMA PublishedGrows ==
    ASSUME NEW rep, NEW P, ReplicaOK(rep, P), NEW Q, P \subseteq Q
    PROVE  ReplicaOK(rep, Q)
<1>1. QueueOK(rep.queue, rep.pending, Q)
  BY DEF ReplicaOK, QueueOK
<1>2. rep.pc = "primary" => StoreOK(rep, Q)
  BY DEF ReplicaOK, StoreOK
<1>3. QED
  BY <1>1, <1>2 DEF ReplicaOK

\* It holds of a replica which has done nothing.
LEMMA NewReplicaOK == ReplicaOK(NewReplica, {})
<1>1. NewReplica.queue = << >> /\ NewReplica.pc = "standby"
  BY DEF NewReplica
<1>2. QueueOK(NewReplica.queue, NewReplica.pending, {})
  BY <1>1 DEF QueueOK
<1>3. QED
  BY <1>1, <1>2, BlankType DEF ReplicaOK

\* Messages are pairs.
LEMMA MessageParts ==
    ASSUME NEW m \in Message
    PROVE  m = <<m[1], m[2]>> /\ m[1] \in Source /\ m[2] \in 0..(EndOffset - 1) /\ m[2] \in Int
BY TxnAssumption DEF Message

\* It's preserved as a message is consumed: the one consumed was not yet applied.
LEMMA ConsumedOK ==
    ASSUME NEW rep, NEW P, ReplicaOK(rep, P), rep.pc = "primary", NEW s \in Source,
           holds \in BOOLEAN, NextMessage(rep, s) \in Message
    PROVE  ReplicaOK(ConsumeMessage(rep, s, NextMessage(rep, s)), P)
<1> DEFINE msg == NextMessage(rep, s)
           new == ConsumeMessage(rep, s, msg)
<1>0. rep \in ReplicaType /\ msg \in Message
  BY DEF ReplicaOK
<1>1. /\ new \in ReplicaType
      /\ new.pc = rep.pc
      /\ new.store.offsets = rep.store.offsets
      /\ new.store.applied = [rep.store.applied EXCEPT ![msg] = @ + 1]
      /\ new.next = [rep.next EXCEPT ![s] = @ + 1]
      /\ new.txn.offsets = [rep.txn.offsets EXCEPT ![s] = rep.next[s] + 1]
      /\ new.pending \cup new.txn.held = rep.pending \cup rep.txn.held \cup {msg}
      /\ rep.pending \subseteq new.pending
      /\ new.queue = rep.queue /\ new.visible = rep.visible /\ new.stat = rep.stat
  <2>1. new = ConsumeMessage(rep, s, msg)
    OBVIOUS
  <2> HIDE DEF msg, new
  <2>2. IsConsumed(rep, s, msg, new)
    BY <1>0, <2>1, Consumed
  <2>3. QED
    BY <2>2 DEF IsConsumed
<1>2. /\ rep.next \in [Source -> Nat] /\ rep.store.applied \in [Message -> Nat]
      /\ rep.txn.offsets \in [Source -> Nat \cup {-1}] /\ rep.store.offsets \in [Source -> Nat]
      /\ MinOffset \in [Source -> 0..EndOffset]
  BY <1>0, TxnAssumption DEF ReplicaType, Offsets, Content
<1>3. QueueOK(new.queue, new.pending, P)
  <2> HIDE DEF new
  <2>1. QED
    BY <1>1 DEF ReplicaOK, QueueOK
<1>4. msg = <<s, rep.next[s]>> /\ MinOffset[s] <= rep.next[s] /\ EndOffset \in Nat
  BY TxnAssumption DEF NextMessage, ReplicaOK, StoreOK
<1> HIDE DEF new, msg
<1>5. ASSUME NEW m \in Message
      PROVE  m \in Through(new.next) <=> m \in Through(rep.next) \/ m = msg
  <2>1. CASE m[1] = s
    <3>1. m = <<s, m[2]>> /\ m[2] \in Int
      BY <2>1, MessageParts
    <3>2. m = msg <=> m[2] = rep.next[s]
      BY <1>4, <3>1
    <3>3. new.next[s] = rep.next[s] + 1 /\ rep.next[s] \in Nat /\ MinOffset[s] \in Int
      BY <1>1, <1>2
    <3>4. QED
      BY <1>4, <2>1, <3>1, <3>2, <3>3 DEF Through
  <2>2. CASE m[1] # s
    BY <1>0, <1>1, <1>2, <1>4, <2>2, MessageParts DEF Through
  <2>3. QED
    BY <2>1, <2>2
<1>6. msg \notin Through(rep.next)
  BY <1>0, <1>2, <1>4 DEF Through
<1>7. StoreOK(new, P)
  <2>1. ASSUME NEW t \in Source
        PROVE  /\ MinOffset[t] <= new.next[t] /\ new.store.offsets[t] <= new.next[t]
               /\ IF new.txn.offsets[t] >= 0 THEN new.txn.offsets[t] = new.next[t]
                  ELSE LowerBounded(new.store.offsets)[t] = new.next[t]
    <3>1. /\ MinOffset[t] <= rep.next[t] /\ rep.store.offsets[t] <= rep.next[t]
          /\ IF rep.txn.offsets[t] >= 0 THEN rep.txn.offsets[t] = rep.next[t]
             ELSE LowerBounded(rep.store.offsets)[t] = rep.next[t]
      BY <2>1 DEF ReplicaOK, StoreOK
    <3>2. CASE t = s
      BY <1>1, <1>2, <3>1, <3>2
    <3>3. CASE t # s
      BY <1>1, <1>2, <3>1, <3>3
    <3>4. QED
      BY <3>2, <3>3
  <2>2. ASSUME NEW m \in Message
        PROVE  new.store.applied[m] = IF m \in Through(new.next) THEN 1 ELSE 0
    <3>1. rep.store.applied[m] = IF m \in Through(rep.next) THEN 1 ELSE 0
      BY DEF ReplicaOK, StoreOK
    <3>2. QED
      BY <1>0, <1>1, <1>2, <1>5, <1>6, <3>1
  <2>3. Through(new.next) \subseteq P \cup new.pending \cup new.txn.held
    <3>1. Through(new.next) \subseteq Through(rep.next) \cup {msg}
      BY <1>5 DEF Through
    <3>2. Through(rep.next) \subseteq P \cup rep.pending \cup rep.txn.held
      BY DEF ReplicaOK, StoreOK
    <3>3. QED
      BY <1>1, <3>1, <3>2
  <2>4. QED
    BY <2>1, <2>2, <2>3 DEF StoreOK
<1>8. QED
  BY <1>1, <1>3, <1>7 DEF ReplicaOK, new, msg

\* The queue's part of it is preserved by an append which meets it in turn.
LEMMA AppendOK ==
    ASSUME NEW q \in Seq(OpType), NEW pending, NEW P, QueueOK(q, pending, P),
           NEW op \in OpType, op.deps \subseteq pending \cup P,
           op.content # None =>
               /\ Exact(op.content)
               /\ \A m \in Through(op.content.offsets) :
                     m \in P \/ \E j \in 1..Len(q) : m \in q[j].deps
    PROVE  /\ Append(q, op) \in Seq(OpType)
           /\ QueueOK(Append(q, op), pending, P)
<1> DEFINE new == Append(q, op)
<1>1. /\ new \in Seq(OpType) /\ Len(new) = Len(q) + 1 /\ Len(q) \in Nat
      /\ \A i \in 1..Len(q) : new[i] = q[i]
      /\ new[Len(q) + 1] = op
  OBVIOUS
<1> HIDE DEF new
<1>2. ASSUME NEW i \in 1..Len(new)
      PROVE  /\ new[i].deps \subseteq pending \cup P
             /\ new[i].content # None =>
                   /\ Exact(new[i].content)
                   /\ \A m \in Through(new[i].content.offsets) :
                         m \in P \/ \E j \in 1..(i - 1) : m \in new[j].deps
  <2>1. CASE i \in 1..Len(q)
    <3>1. new[i] = q[i] /\ \A j \in 1..(i - 1) : new[j] = q[j]
      BY <1>1, <2>1
    <3>2. QED
      BY <2>1, <3>1 DEF QueueOK
  <2>2. CASE i = Len(q) + 1
    <3>1. new[i] = op /\ i - 1 = Len(q)
      BY <1>1, <2>2
    <3>2. QED
      BY <1>1, <3>1
  <2>3. QED
    BY <1>1, <2>1, <2>2
<1>3. QED
  BY <1>1, <1>2 DEF QueueOK, new

\* It's preserved as the first append commits, and then the outputs which a content at the head
\* needs are published.
LEMMA TailOK ==
    ASSUME NEW q \in Seq(OpType), NEW pending, NEW P, QueueOK(q, pending, P), q # << >>,
           q[1].deps \cap pending = {}
    PROVE  /\ Tail(q) \in Seq(OpType)
           /\ QueueOK(Tail(q), pending, P)
           /\ q[1] \in OpType
           /\ q[1].content # None =>
                  Exact(q[1].content) /\ Through(q[1].content.offsets) \subseteq P
<1> DEFINE new == Tail(q)
<1>1. /\ new \in Seq(OpType) /\ Len(new) = Len(q) - 1 /\ Len(q) \in Nat /\ Len(q) > 0
      /\ \A i \in 1..Len(new) : new[i] = q[i + 1]
  OBVIOUS
<1> HIDE DEF new
<1>2. q[1] \in OpType /\ q[1].deps \subseteq P
  BY <1>1 DEF QueueOK
<1>3. ASSUME q[1].content # None
      PROVE  Exact(q[1].content) /\ Through(q[1].content.offsets) \subseteq P
  BY <1>1, <1>3 DEF QueueOK
<1>4. ASSUME NEW i \in 1..Len(new)
      PROVE  /\ new[i].deps \subseteq pending \cup P
             /\ new[i].content # None =>
                   /\ Exact(new[i].content)
                   /\ \A m \in Through(new[i].content.offsets) :
                         m \in P \/ \E j \in 1..(i - 1) : m \in new[j].deps
  <2>1. i + 1 \in 1..Len(q) /\ new[i] = q[i + 1] /\ (i + 1) - 1 = i
    BY <1>1
  <2>2. ASSUME NEW m, NEW j \in 1..i, m \in q[j].deps
        PROVE  m \in P \/ \E k \in 1..(i - 1) : m \in new[k].deps
    <3>1. CASE j = 1
      BY <1>2, <2>2, <3>1
    <3>2. CASE j # 1
      <4>1. j - 1 \in 1..(i - 1) /\ new[j - 1] = q[j]
        BY <1>1, <3>2
      <4>2. QED
        BY <2>2, <4>1
    <3>3. QED
      BY <3>1, <3>2
  <2>3. /\ q[i + 1].deps \subseteq pending \cup P
        /\ q[i + 1].content # None =>
              /\ Exact(q[i + 1].content)
              /\ \A m \in Through(q[i + 1].content.offsets) :
                    m \in P \/ \E j \in 1..i : m \in q[j].deps
    BY <2>1 DEF QueueOK
  <2>4. QED
    BY <2>1, <2>2, <2>3
<1>5. QED
  BY <1>1, <1>2, <1>3, <1>4 DEF QueueOK, new

\* It's preserved as an output commits: it's no longer pending, and is published.
LEMMA OutputOK ==
    ASSUME NEW rep, NEW P, ReplicaOK(rep, P), NEW msg
    PROVE  ReplicaOK([rep EXCEPT !.pending = @ \ {msg}], P \cup {msg})
<1> DEFINE new == [rep EXCEPT !.pending = @ \ {msg}]
<1>1. /\ new \in ReplicaType /\ new.pending = rep.pending \ {msg} /\ new.queue = rep.queue
      /\ new.pc = rep.pc /\ new.store = rep.store /\ new.next = rep.next /\ new.txn = rep.txn
  BY DEF ReplicaOK, ReplicaType
<1> HIDE DEF new
<1>2. QueueOK(new.queue, new.pending, P \cup {msg})
  BY <1>1 DEF ReplicaOK, QueueOK
<1>3. new.pc = "primary" => StoreOK(new, P \cup {msg})
  BY <1>1 DEF ReplicaOK, StoreOK
<1>4. QED
  BY <1>1, <1>2, <1>3 DEF ReplicaOK, new

-----------------------------------------------------------------------------
\* What Flush writes, and the queue as it does.
Flushing(rep) == [rep.store EXCEPT !.offsets = Merged(rep.store.offsets, rep.txn.offsets)]
Behind(rep) == Append(rep.queue, StrongBarrier(rep))
NextWritten(rep) == Append(Behind(rep), Op("next", {}, Flushing(rep)))
Renamed(rep) == Append(NextWritten(rep), Op("rename", {}, None))
Batched(rep) == Append(Behind(rep), Op("wal", {}, Flushing(rep)))

\* FinalizeTxn leaves nothing held, so that all which was read is published or pending.
LEMMA FinalizedOK ==
    ASSUME NEW rep, NEW P, ReplicaOK(rep, P), rep.pc = "primary",
           NEW fin, fin = FinalizeTxn(rep)
    PROVE  /\ ReplicaOK(fin, P)
           /\ Through(fin.next) \subseteq P \cup fin.pending
           /\ fin.pc = rep.pc /\ fin.store = rep.store /\ fin.next = rep.next /\ fin.txn = rep.txn
           /\ fin.queue = rep.queue /\ fin.visible = rep.visible /\ fin.stat = rep.stat
<1>1. /\ fin \in ReplicaType /\ fin.pending = rep.pending \cup rep.txn.held
      /\ fin.pc = rep.pc /\ fin.store = rep.store /\ fin.next = rep.next /\ fin.txn = rep.txn
      /\ fin.queue = rep.queue /\ fin.visible = rep.visible /\ fin.stat = rep.stat
  BY DEF ReplicaOK, ReplicaType, FinalizeTxn
<1>2. QueueOK(fin.queue, fin.pending, P)
  BY <1>1 DEF ReplicaOK, QueueOK
<1>3. StoreOK(fin, P) /\ Through(fin.next) \subseteq P \cup fin.pending
  BY <1>1 DEF ReplicaOK, StoreOK
<1>4. QED
  BY <1>1, <1>2, <1>3 DEF ReplicaOK

\* The content which Flush writes is exact, is not before the Store's offsets, and covers all
\* which was read.
LEMMA FlushingOK ==
    ASSUME NEW rep, NEW P, ReplicaOK(rep, P), rep.pc = "primary",
           Through(rep.next) \subseteq P \cup rep.pending
    PROVE  /\ Flushing(rep) \in Content /\ Exact(Flushing(rep))
           /\ Flushing(rep).applied = rep.store.applied
           /\ Flushing(rep).offsets = Merged(rep.store.offsets, rep.txn.offsets)
           /\ Through(Flushing(rep).offsets) = Through(rep.next)
           /\ \A s \in Source :
                 /\ rep.store.offsets[s] <= Flushing(rep).offsets[s]
                 /\ Flushing(rep).offsets[s] <= rep.next[s]
                 /\ LowerBounded(Flushing(rep).offsets)[s] = rep.next[s]
<1> DEFINE merged == Merged(rep.store.offsets, rep.txn.offsets)
<1>1. /\ rep.next \in [Source -> Nat] /\ rep.store \in Content
      /\ rep.txn.offsets \in [Source -> Nat \cup {-1}] /\ rep.store.offsets \in [Source -> Nat]
      /\ MinOffset \in [Source -> 0..EndOffset] /\ EndOffset \in Nat
  BY TxnAssumption DEF ReplicaOK, ReplicaType, Offsets, Content
<1>2. merged \in Offsets
  BY <1>1 DEF Merged, Offsets
<1>3. ASSUME NEW s \in Source
      PROVE  /\ rep.store.offsets[s] <= merged[s] /\ merged[s] <= rep.next[s]
             /\ LowerBounded(merged)[s] = rep.next[s]
             /\ \A o \in Int : MinOffset[s] <= o => (o < merged[s] <=> o < rep.next[s])
  <2>1. /\ MinOffset[s] <= rep.next[s] /\ rep.store.offsets[s] <= rep.next[s]
        /\ IF rep.txn.offsets[s] >= 0 THEN rep.txn.offsets[s] = rep.next[s]
           ELSE LowerBounded(rep.store.offsets)[s] = rep.next[s]
    BY DEF ReplicaOK, StoreOK
  <2>2. MinOffset[s] \in Nat /\ rep.next[s] \in Nat /\ rep.store.offsets[s] \in Nat
        /\ rep.txn.offsets[s] \in Nat \cup {-1}
    BY <1>1
  <2>3. merged[s] = IF rep.txn.offsets[s] >= 0 THEN rep.txn.offsets[s] ELSE rep.store.offsets[s]
    BY DEF Merged
  <2>4. QED
    BY <2>1, <2>2, <2>3 DEF LowerBounded
<1> HIDE DEF merged
<1>4. Flushing(rep) \in Content /\ Flushing(rep).offsets = merged
      /\ Flushing(rep).applied = rep.store.applied
  BY <1>1, <1>2 DEF Flushing, Content, merged
<1>5. ASSUME NEW m \in Message PROVE m \in Through(merged) <=> m \in Through(rep.next)
  BY <1>3, MessageParts DEF Through
<1>6. Through(merged) = Through(rep.next)
  BY <1>5 DEF Through
<1>7. Exact(Flushing(rep))
  BY <1>4, <1>6 DEF Exact, ReplicaOK, StoreOK
<1>8. QED
  BY <1>3, <1>4, <1>6, <1>7 DEF merged

\* The queue is in order after each of the appends of Flush.
LEMMA FlushQueuesOK ==
    ASSUME NEW rep, NEW P, ReplicaOK(rep, P), rep.pc = "primary",
           Through(rep.next) \subseteq P \cup rep.pending,
           NEW q \in {Behind(rep), NextWritten(rep), Renamed(rep), Batched(rep)}
    PROVE  q \in Seq(OpType) /\ QueueOK(q, rep.pending, P)
<1>1. rep.queue \in Seq(OpType) /\ QueueOK(rep.queue, rep.pending, P) /\ rep.pending \in SUBSET Message
  BY DEF ReplicaOK, ReplicaType
<1>2. Behind(rep) \in Seq(OpType) /\ QueueOK(Behind(rep), rep.pending, P)
  <2>1. StrongBarrier(rep) \in OpType /\ StrongBarrier(rep).deps = rep.pending
        /\ StrongBarrier(rep).content = None
    BY <1>1 DEF StrongBarrier, Op, OpType
  <2>2. QED
    BY <1>1, <2>1, AppendOK DEF Behind
<1>3. ASSUME NEW m \in Through(Flushing(rep).offsets)
      PROVE  m \in P \/ \E j \in 1..Len(Behind(rep)) : m \in Behind(rep)[j].deps
  <2>1. m \in P \cup rep.pending
    BY FlushingOK
  <2>2. /\ Len(Behind(rep)) \in 1..Len(Behind(rep))
        /\ Behind(rep)[Len(Behind(rep))] = StrongBarrier(rep)
    BY <1>1 DEF Behind
  <2>3. StrongBarrier(rep).deps = rep.pending
    BY DEF StrongBarrier, Op
  <2>4. QED
    BY <2>1, <2>2, <2>3
<1>4. ASSUME NEW k \in {"next", "wal"}
      PROVE  /\ Append(Behind(rep), Op(k, {}, Flushing(rep))) \in Seq(OpType)
             /\ QueueOK(Append(Behind(rep), Op(k, {}, Flushing(rep))), rep.pending, P)
  <2>1. Op(k, {}, Flushing(rep)) \in OpType /\ Op(k, {}, Flushing(rep)).deps = {}
        /\ Op(k, {}, Flushing(rep)).content = Flushing(rep)
    BY FlushingOK DEF Op, OpType
  <2>2. Exact(Flushing(rep))
    BY FlushingOK
  <2>3. QED
    BY <1>2, <1>3, <2>1, <2>2, AppendOK
<1>5. Renamed(rep) \in Seq(OpType) /\ QueueOK(Renamed(rep), rep.pending, P)
  <2>1. Op("rename", {}, None) \in OpType /\ Op("rename", {}, None).deps = {}
        /\ Op("rename", {}, None).content = None
    BY DEF Op, OpType
  <2>2. NextWritten(rep) \in Seq(OpType) /\ QueueOK(NextWritten(rep), rep.pending, P)
    BY <1>4 DEF NextWritten
  <2>3. QED
    BY <2>1, <2>2, AppendOK DEF Renamed
<1>6. QED
  BY <1>2, <1>4, <1>5 DEF NextWritten, Batched

\* Sequences of one and two appends, and their prefixes.
LEMMA AppendPrefix ==
    ASSUME NEW S, NEW q \in Seq(S), NEW a \in S, NEW b \in S
    PROVE  /\ q \o <<a>> = Append(q, a)
           /\ q \o <<a, b>> = Append(Append(q, a), b)
           /\ Len(Append(Append(q, a), b)) = Len(q) + 2
           /\ SubSeq(Append(Append(q, a), b), 1, Len(q)) = q
           /\ SubSeq(Append(Append(q, a), b), 1, Len(q) + 1) = Append(q, a)
OBVIOUS

\* What Flush, and a Flush which fails, make of a replica, as records.
LEMMA FlushShape ==
    ASSUME NEW rep, NEW P, ReplicaOK(rep, P), rep.pc = "primary", kind \in Kind,
           Through(rep.next) \subseteq P \cup rep.pending
    PROVE  /\ Flush(rep) = [rep EXCEPT !.store = Flushing(rep), !.visible = Flushing(rep).offsets,
                                       !.queue = IF kind = "json" THEN Renamed(rep) ELSE Batched(rep)]
           /\ \A failed \in FailedFlushes(rep) : \E q \in {Behind(rep), NextWritten(rep)} :
                 failed = IF kind = "json"
                          THEN [rep EXCEPT !.store = Flushing(rep), !.visible = Flushing(rep).offsets,
                                           !.queue = q]
                          ELSE [rep EXCEPT !.queue = Behind(rep)]
<1> DEFINE c == Flushing(rep)
           nx == Op("next", {}, c)
           rn == Op("rename", {}, None)
           wal == Op("wal", {}, c)
<1>1. Behind(rep) \in Seq(OpType) /\ nx \in OpType /\ rn \in OpType /\ wal \in OpType
  BY FlushQueuesOK, FlushingOK DEF Op, OpType
<1>2. Behind(rep) \o FlushOps(c) = IF kind = "json" THEN Renamed(rep) ELSE Batched(rep)
  BY <1>1, AppendPrefix DEF FlushOps, Renamed, NextWritten, Batched, Kind
<1>3. c.offsets = Merged(rep.store.offsets, rep.txn.offsets)
  BY FlushingOK
<1>4. Flush(rep) = [rep EXCEPT !.store = c, !.visible = c.offsets,
                               !.queue = IF kind = "json" THEN Renamed(rep) ELSE Batched(rep)]
  <2>1. Flush(rep) = [rep EXCEPT !.store = c, !.visible = c.offsets,
                                 !.queue = Behind(rep) \o FlushOps(c)]
    BY <1>3 DEF Flush, Flushing, Behind
  <2>2. QED
    BY <1>2, <2>1
<1>5. ASSUME kind = "json", NEW failed \in FailedFlushes(rep)
      PROVE  \E q \in {Behind(rep), NextWritten(rep)} :
                failed = [rep EXCEPT !.store = c, !.visible = c.offsets, !.queue = q]
  <2>1. Flush(rep) = [rep EXCEPT !.store = c, !.visible = c.offsets, !.queue = Renamed(rep)]
    BY <1>4, <1>5
  <2>2. Flush(rep).queue = Renamed(rep) /\ Len(Renamed(rep)) = Len(Behind(rep)) + 2
        /\ Len(Behind(rep)) \in Nat
    BY <1>1, <2>1, AppendPrefix DEF Renamed, NextWritten, ReplicaOK, ReplicaType
  <2>3. PICK n \in Len(Behind(rep))..(Len(Behind(rep)) + 1) :
            failed = [Flush(rep) EXCEPT !.queue = SubSeq(@, 1, n)]
    BY <1>5, <2>2 DEF FailedFlushes
  <2>4. SubSeq(Renamed(rep), 1, n) \in {Behind(rep), NextWritten(rep)}
    BY <1>1, <2>2, AppendPrefix DEF Renamed, NextWritten
  <2>5. failed = [rep EXCEPT !.store = c, !.visible = c.offsets, !.queue = SubSeq(Renamed(rep), 1, n)]
    BY <2>1, <2>2, <2>3
  <2>6. QED
    BY <2>4, <2>5
<1>6. ASSUME kind # "json", NEW failed \in FailedFlushes(rep)
      PROVE  failed = [rep EXCEPT !.queue = Behind(rep)]
  BY <1>6 DEF FailedFlushes, Behind
<1>7. QED
  BY <1>4, <1>5, <1>6

\* The offset of a source which the transaction has not read is not one.
LEMMA UnreadOffset == ~(-1 >= 0)
OBVIOUS

\* ReplicaOK is preserved as a transaction commits.
LEMMA CommittedOK ==
    ASSUME NEW rep, NEW P, ReplicaOK(rep, P), rep.pc = "primary", kind \in Kind,
           NEW new, new = Committed(rep)
    PROVE  ReplicaOK(new, P)
<1> DEFINE fin == FinalizeTxn(rep)
           q == IF kind = "json" THEN Renamed(fin) ELSE Batched(fin)
<1>1. /\ ReplicaOK(fin, P) /\ Through(fin.next) \subseteq P \cup fin.pending
      /\ fin.pc = "primary" /\ fin \in ReplicaType
  BY FinalizedOK DEF ReplicaOK
<1> HIDE DEF fin
<1>2. Flush(fin) = [fin EXCEPT !.store = Flushing(fin), !.visible = Flushing(fin).offsets, !.queue = q]
  BY <1>1, FlushShape
<1>3. q \in Seq(OpType) /\ QueueOK(q, fin.pending, P)
  BY <1>1, FlushQueuesOK
<1>4. Append(q, WeakBarrier("end")) \in Seq(OpType)
      /\ QueueOK(Append(q, WeakBarrier("end")), fin.pending, P)
  <2>1. WeakBarrier("end") \in OpType /\ WeakBarrier("end").deps = {}
        /\ WeakBarrier("end").content = None
    BY DEF WeakBarrier, Op, OpType
  <2>2. QED
    BY <1>3, <2>1, AppendOK
<1>5. Flushing(fin) \in Content /\ Flushing(fin).offsets \in Offsets /\ NewTxn(TRUE) \in TxnType
  BY <1>1, FlushingOK, BlankType DEF Content
<1> HIDE DEF q
<1>6. new = [fin EXCEPT !.store = Flushing(fin), !.visible = Flushing(fin).offsets,
                        !.queue = Append(q, WeakBarrier("end")), !.txn = NewTxn(TRUE)]
  BY <1>1, <1>2 DEF ReplicaType, Committed, fin
<1>7. /\ new \in ReplicaType /\ new.pc = "primary" /\ new.store = Flushing(fin)
      /\ new.next = fin.next /\ new.pending = fin.pending /\ new.txn = NewTxn(TRUE)
      /\ new.queue = Append(q, WeakBarrier("end"))
  <2> DEFINE longer == Append(q, WeakBarrier("end"))
             txn == NewTxn(TRUE)
  <2>1. longer \in Seq(OpType) /\ txn \in TxnType
    BY <1>4, <1>5
  <2>2. new = [fin EXCEPT !.store = Flushing(fin), !.visible = Flushing(fin).offsets,
                          !.queue = longer, !.txn = txn]
    BY <1>6
  <2> HIDE DEF longer, txn
  <2>3. /\ new.pc = fin.pc /\ new.store = Flushing(fin) /\ new.next = fin.next
        /\ new.pending = fin.pending /\ new.txn = txn /\ new.queue = longer
    BY <1>1, <2>2 DEF ReplicaType
  <2>4. new \in ReplicaType
    BY <1>1, <1>5, <2>1, <2>2 DEF ReplicaType, TxnType
  <2>5. QED
    BY <1>1, <2>3, <2>4 DEF longer, txn
<1>8. StoreOK(new, P)
  <2>1. \A s \in Source : NewTxn(TRUE).offsets[s] = -1
    BY DEF NewTxn
  <2>2. ASSUME NEW s \in Source
        PROVE  /\ MinOffset[s] <= fin.next[s] /\ Flushing(fin).offsets[s] <= fin.next[s]
               /\ LowerBounded(Flushing(fin).offsets)[s] = fin.next[s]
    BY <1>1, FlushingOK DEF ReplicaOK, StoreOK
  <2>3. \A m \in Message : Flushing(fin).applied[m] = IF m \in Through(fin.next) THEN 1 ELSE 0
    BY <1>1, FlushingOK DEF ReplicaOK, StoreOK
  <2>4. ASSUME NEW s \in Source
        PROVE  /\ MinOffset[s] <= new.next[s] /\ new.store.offsets[s] <= new.next[s]
               /\ IF new.txn.offsets[s] >= 0 THEN new.txn.offsets[s] = new.next[s]
                  ELSE LowerBounded(new.store.offsets)[s] = new.next[s]
    <3>1. new.txn.offsets[s] = -1
      BY <1>7, <2>1, Zenon
    <3>2. ~(new.txn.offsets[s] >= 0)
      BY <3>1, UnreadOffset, Zenon
    <3>3. QED
      BY <1>7, <2>2, <3>2
  <2>5. \A m \in Message : new.store.applied[m] = IF m \in Through(new.next) THEN 1 ELSE 0
    BY <1>7, <2>3
  <2>6. Through(new.next) \subseteq P \cup new.pending \cup new.txn.held
    BY <1>1, <1>7
  <2>7. QED
    BY <2>4, <2>5, <2>6 DEF StoreOK
<1>9. QED
  BY <1>4, <1>7, <1>8 DEF ReplicaOK

\* It's preserved as a Flush fails part way.
LEMMA FailedOK ==
    ASSUME NEW rep, NEW P, ReplicaOK(rep, P), rep.pc = "primary", kind \in Kind,
           NEW failed \in FailedFlushes(FinalizeTxn(rep))
    PROVE  ReplicaOK([failed EXCEPT !.pc = "failed"], P)
<1> DEFINE fin == FinalizeTxn(rep)
<1>1. /\ ReplicaOK(fin, P) /\ Through(fin.next) \subseteq P \cup fin.pending
      /\ fin.pc = "primary" /\ fin \in ReplicaType
  BY FinalizedOK DEF ReplicaOK
<1> HIDE DEF fin
<1>2. PICK q \in {Behind(fin), NextWritten(fin)} :
          failed = IF kind = "json"
                   THEN [fin EXCEPT !.store = Flushing(fin), !.visible = Flushing(fin).offsets, !.queue = q]
                   ELSE [fin EXCEPT !.queue = Behind(fin)]
  BY <1>1, FlushShape DEF fin
<1>3. Flushing(fin) \in Content /\ Flushing(fin).offsets \in Offsets
  BY <1>1, FlushingOK DEF Content
<1>4. /\ failed \in ReplicaType /\ failed.pending = fin.pending
      /\ QueueOK(failed.queue, fin.pending, P)
  <2>1. q \in Seq(OpType) /\ QueueOK(q, fin.pending, P)
        /\ Behind(fin) \in Seq(OpType) /\ QueueOK(Behind(fin), fin.pending, P)
    BY <1>1, FlushQueuesOK
  <2>2. QED
    BY <1>1, <1>2, <1>3, <2>1 DEF ReplicaType
<1> DEFINE new == [failed EXCEPT !.pc = "failed"]
<1>5. new \in ReplicaType /\ new.pc = "failed" /\ new.pending = failed.pending
      /\ new.queue = failed.queue
  BY <1>4 DEF ReplicaType
<1> HIDE DEF new
<1>6. ReplicaOK(new, P)
  BY <1>4, <1>5 DEF ReplicaOK
<1>7. QED
  BY <1>6 DEF new

-----------------------------------------------------------------------------
\* What is played back from the log is exact, and its outputs are published.
FilesOK ==
    \A c \in {files.next, files.state} :
        c # None => c \in Content /\ Exact(c) /\ Through(c.offsets) \subseteq published

\* Replicas after the last primary have done nothing.
Standbys == \A r \in Replica : r > owner => replicas[r] = NewReplica

\* The inductive invariant.
Inv ==
    /\ TypeOK /\ FilesOK /\ Standbys
    /\ \A r \in Replica : ReplicaOK(replicas[r], published)

\* The empty content is exact, and needs no outputs.
LEMMA BlankIsExact == Exact(Blank) /\ Through(Blank.offsets) = {}
<1>1. Blank.applied = [m \in Message |-> 0] /\ Blank.offsets = [s \in Source |-> 0]
  BY DEF Blank
<1>2. Through(Blank.offsets) = {}
  BY <1>1, MessageParts DEF Through
<1>3. QED
  BY <1>1, <1>2 DEF Exact

\* So what is recovered is exact, and its outputs are published.
LEMMA RecoveredOK ==
    ASSUME FilesOK
    PROVE  /\ Recovered \in Content /\ Exact(Recovered)
           /\ Through(Recovered.offsets) \subseteq published
BY BlankIsExact, BlankType DEF FilesOK, Recovered

\* ReplicaOK holds of a replica which has recovered the Store and begins to read.
LEMMA OpenedOK ==
    ASSUME FilesOK, kind \in Kind,
           NEW new, new = [NewReplica EXCEPT !.pc = "primary",
                                             !.store = Recovered,
                                             !.visible = Recovered.offsets,
                                             !.next = LowerBounded(Recovered.offsets),
                                             !.queue = OpenOps]
    PROVE  ReplicaOK(new, published)
<1> DEFINE c == Recovered
           low == LowerBounded(c.offsets)
<1>1. c \in Content /\ Exact(c) /\ Through(c.offsets) \subseteq published /\ c.offsets \in Offsets
  BY RecoveredOK DEF Content
<1>2. MinOffset \in [Source -> 0..EndOffset] /\ EndOffset \in Nat
  BY TxnAssumption
<1> HIDE DEF c
<1>3. ASSUME NEW s \in Source
      PROVE  /\ low[s] \in Nat /\ MinOffset[s] <= low[s] /\ c.offsets[s] <= low[s]
             /\ \A o \in Int : MinOffset[s] <= o => (o < low[s] <=> o < c.offsets[s])
  <2>1. MinOffset[s] \in Nat /\ c.offsets[s] \in Nat
    BY <1>1, <1>2 DEF Offsets
  <2>2. QED
    BY <2>1 DEF LowerBounded
<1>4. low \in Offsets
  BY <1>3 DEF LowerBounded, Offsets
<1>5. Through(low) = Through(c.offsets)
  <2> HIDE DEF low
  <2>1. QED
    BY <1>3, MessageParts DEF Through
<1>6. OpenOps \in Seq(OpType) /\ QueueOK(OpenOps, {}, published)
  <2>1. CASE OpenOps = << >>
    BY <2>1 DEF QueueOK
  <2>2. CASE kind = "json" /\ files.state # None
    <3>1. c = files.state /\ OpenOps = <<Op("next", {}, c), Op("rename", {}, None)>>
      BY <2>2 DEF OpenOps, FlushOps, c, Recovered
    <3>2. Op("next", {}, c) \in OpType /\ Op("rename", {}, None) \in OpType
      BY <1>1 DEF Op, OpType
    <3>3. /\ Op("next", {}, c).deps = {} /\ Op("next", {}, c).content = c
          /\ Op("rename", {}, None).deps = {} /\ Op("rename", {}, None).content = None
      BY DEF Op
    <3> HIDE DEF c
    <3>4. OpenOps \in Seq(OpType) /\ Len(OpenOps) = 2
          /\ OpenOps[1] = Op("next", {}, c) /\ OpenOps[2] = Op("rename", {}, None)
      BY <3>1, <3>2
    <3>5. QED
      BY <1>1, <3>3, <3>4 DEF QueueOK
  <2>3. QED
    BY <2>1, <2>2 DEF OpenOps
<1> HIDE DEF low
<1>7. /\ new \in ReplicaType /\ new.pc = "primary" /\ new.store = c /\ new.next = low
      /\ new.queue = OpenOps /\ new.pending = {} /\ new.txn = NewTxn(FALSE)
  <2>1. new = [NewReplica EXCEPT !.pc = "primary", !.store = c, !.visible = c.offsets,
                                 !.next = low, !.queue = OpenOps]
    BY DEF c, low
  <2>2. NewReplica \in ReplicaType /\ NewReplica.pending = {} /\ NewReplica.txn = NewTxn(FALSE)
    BY BlankType DEF NewReplica
  <2>3. QED
    BY <1>1, <1>4, <1>6, <2>1, <2>2 DEF ReplicaType
<1>8. StoreOK(new, published)
  <2>1. ASSUME NEW s \in Source
        PROVE  /\ MinOffset[s] <= new.next[s] /\ new.store.offsets[s] <= new.next[s]
               /\ IF new.txn.offsets[s] >= 0 THEN new.txn.offsets[s] = new.next[s]
                  ELSE LowerBounded(new.store.offsets)[s] = new.next[s]
    <3>1. new.txn.offsets[s] = -1
      BY <1>7 DEF NewTxn
    <3>2. ~(new.txn.offsets[s] >= 0)
      BY <3>1, UnreadOffset, Zenon
    <3>3. LowerBounded(new.store.offsets)[s] = new.next[s]
      BY <1>7 DEF low
    <3>4. QED
      BY <1>3, <1>7, <3>2, <3>3
  <2>2. \A m \in Message : new.store.applied[m] = IF m \in Through(new.next) THEN 1 ELSE 0
    BY <1>1, <1>5, <1>7 DEF Exact
  <2>3. Through(new.next) \subseteq published \cup new.pending \cup new.txn.held
    BY <1>1, <1>5, <1>7
  <2>4. QED
    BY <2>1, <2>2, <2>3 DEF StoreOK
<1>9. QED
  BY <1>6, <1>7, <1>8 DEF ReplicaOK

\* It's preserved by steps which touch neither the Store, the queue nor what is pending.
LEMMA OtherOK ==
    ASSUME NEW rep, NEW P, ReplicaOK(rep, P), NEW new \in ReplicaType,
           new.queue = rep.queue, new.pending = rep.pending,
           new.pc = "primary" => /\ rep.pc = "primary" /\ new.store = rep.store /\ new.next = rep.next
                                 /\ new.txn.offsets = rep.txn.offsets /\ new.txn.held = rep.txn.held
    PROVE  ReplicaOK(new, P)
BY DEF ReplicaOK, StoreOK

\* A step of one replica which preserves its ReplicaOK preserves the invariant, if what is
\* published only grows and the files remain in order.
LEMMA StepOf ==
    ASSUME Inv, NEW r \in Replica, NEW new, replicas' = [replicas EXCEPT ![r] = new],
           ReplicaOK(new, published'), published \subseteq published', published' \subseteq Message,
           owner' \in 0..Primaries, owner <= owner', r <= owner',
           FilesOK', files' \in [next : Content \cup {None}, state : Content \cup {None}],
           UNCHANGED <<kind, holds>>
    PROVE  Inv'
<1>1. \A q \in Replica : replicas'[q] = IF q = r THEN new ELSE replicas[q]
  BY DEF Inv, TypeOK
<1>2. \A q \in Replica : ReplicaOK(replicas'[q], published')
  BY <1>1, PublishedGrows DEF Inv
<1>3. TypeOK'
  BY <1>2 DEF Inv, TypeOK, ReplicaOK
<1>4. Standbys'
  BY <1>1, TxnAssumption DEF Inv, TypeOK, Standbys, Replica
<1>5. QED
  BY <1>2, <1>3, <1>4 DEF Inv

\* The same, of a step which changes nothing but the replica.
LEMMA StepWithin ==
    ASSUME Inv, NEW r \in Replica, NEW new, replicas' = [replicas EXCEPT ![r] = new],
           ReplicaOK(new, published), replicas[r] # NewReplica,
           UNCHANGED <<kind, holds, owner, files, published>>
    PROVE  Inv'
<1>1. r <= owner /\ owner \in 0..Primaries
  BY TxnAssumption DEF Inv, Standbys, TypeOK, Replica
<1>2. FilesOK' /\ published \subseteq Message
      /\ files \in [next : Content \cup {None}, state : Content \cup {None}]
  BY DEF Inv, FilesOK, TypeOK
<1>3. /\ published' = published /\ owner' = owner /\ files' = files
      /\ owner' \in 0..Primaries /\ owner <= owner' /\ r <= owner'
      /\ ReplicaOK(new, published')
  BY <1>1
<1>4. QED
  BY <1>2, <1>3, StepOf

\* What has done nothing has nothing queued or pending.
LEMMA Idle == NewReplica.pc = "standby" /\ NewReplica.pending = {} /\ NewReplica.queue = << >>
              /\ NewReplica.stat.pc = "idle"
BY DEF NewReplica

\* Steps of txnStep and Stat preserve the invariant.
LEMMA ReplicaStep ==
    ASSUME Inv, NEW r \in Replica, txnStep(r) \/ Stat(r)
    PROVE  Inv'
<1> DEFINE rep == replicas[r]
<1>0. rep \in ReplicaType /\ ReplicaOK(rep, published) /\ kind \in Kind /\ holds \in BOOLEAN
      /\ replicas \in [Replica -> ReplicaType]
  BY TxnAssumption DEF Inv, TypeOK
<1>1. ASSUME NEW s \in Source, Receive(r, s) PROVE Inv'
  BY <1>0, <1>1, ConsumedOK, StepWithin, Idle DEF Receive
<1>2. CASE Tick(r)
  <2>1. PICK max \in BOOLEAN :
            replicas' = [replicas EXCEPT ![r].txn = [@ EXCEPT !.min = TRUE, !.max = max]]
    BY <1>2 DEF Tick
  <2> DEFINE txn == [rep.txn EXCEPT !.min = TRUE, !.max = max]
             new == [rep EXCEPT !.txn = txn]
  <2>2. txn \in TxnType /\ txn.offsets = rep.txn.offsets /\ txn.held = rep.txn.held
    BY <1>0 DEF ReplicaType, TxnType
  <2>3. replicas' = [replicas EXCEPT ![r] = new]
    BY <2>1
  <2> HIDE DEF txn
  <2>4. new \in ReplicaType /\ new.queue = rep.queue /\ new.pending = rep.pending
        /\ new.pc = rep.pc /\ new.store = rep.store /\ new.next = rep.next /\ new.txn = txn
    BY <1>0, <2>2 DEF ReplicaType, TxnType
  <2> HIDE DEF new
  <2>5. ReplicaOK(new, published)
    BY <1>0, <2>2, <2>4, OtherOK
  <2>6. QED
    BY <1>2, <2>3, <2>5, StepWithin, Idle DEF Tick
<1>3. CASE PriorDone(r)
  <2> DEFINE txn == [rep.txn EXCEPT !.prior = FALSE]
             new == [rep EXCEPT !.txn = txn]
  <2>1. replicas' = [replicas EXCEPT ![r] = new]
    BY <1>3 DEF PriorDone
  <2>2. txn \in TxnType /\ txn.offsets = rep.txn.offsets /\ txn.held = rep.txn.held
    BY <1>0 DEF ReplicaType, TxnType
  <2> HIDE DEF txn
  <2>3. new \in ReplicaType /\ new.queue = rep.queue /\ new.pending = rep.pending
        /\ new.pc = rep.pc /\ new.store = rep.store /\ new.next = rep.next /\ new.txn = txn
    BY <1>0, <2>2 DEF ReplicaType, TxnType
  <2> HIDE DEF new
  <2>4. ReplicaOK(new, published)
    BY <1>0, <2>2, <2>3, OtherOK
  <2>5. QED
    BY <1>3, <2>1, <2>4, StepWithin, Idle DEF PriorDone
<1>4. CASE Commit(r)
  BY <1>0, <1>4, CommittedOK, StepWithin, Idle DEF Commit, MayCommit
<1>5. CASE CommitFails(r)
  <2>1. PICK failed \in FailedFlushes(FinalizeTxn(rep)) :
            replicas' = [replicas EXCEPT ![r] = [failed EXCEPT !.pc = "failed"]]
    BY <1>5 DEF CommitFails
  <2>2. QED
    BY <1>0, <1>5, <2>1, FailedOK, StepWithin, Idle DEF CommitFails, MayCommit
<1>6. CASE Fail(r)
  <2> DEFINE new == [rep EXCEPT !.pc = "failed"]
  <2>1. replicas' = [replicas EXCEPT ![r] = new]
    BY <1>6 DEF Fail
  <2>2. new \in ReplicaType /\ new.queue = rep.queue /\ new.pending = rep.pending
        /\ new.pc = "failed"
    BY <1>0 DEF ReplicaType
  <2> HIDE DEF new
  <2>3. ReplicaOK(new, published)
    BY <1>0, <2>2, OtherOK
  <2>4. QED
    BY <1>6, <2>1, <2>3, StepWithin, Idle DEF Fail
<1>7. CASE StatBarrier(r)
  <2> DEFINE stat == [rep.stat EXCEPT !.pc = "wait"]
             q == Append(rep.queue, WeakBarrier("stat"))
             new == [rep EXCEPT !.stat = stat, !.queue = q]
  <2>1. replicas' = [replicas EXCEPT ![r] = new]
    BY <1>7 DEF StatBarrier, Statting
  <2>a. stat \in [pc : {"idle", "fetched", "wait", "done"}, offsets : Offsets]
    BY <1>0 DEF ReplicaType
  <2> HIDE DEF stat
  <2>2. q \in Seq(OpType) /\ QueueOK(q, rep.pending, published)
    <3>1. WeakBarrier("stat") \in OpType /\ WeakBarrier("stat").deps = {}
          /\ WeakBarrier("stat").content = None
      BY DEF WeakBarrier, Op, OpType
    <3>2. rep.queue \in Seq(OpType) /\ QueueOK(rep.queue, rep.pending, published)
      BY <1>0 DEF ReplicaOK, ReplicaType
    <3>3. QED
      BY <3>1, <3>2, AppendOK
  <2> HIDE DEF q
  <2>3. new \in ReplicaType /\ new.queue = q /\ new.pending = rep.pending
        /\ new.pc = rep.pc /\ new.store = rep.store /\ new.next = rep.next /\ new.txn = rep.txn
    BY <1>0, <2>2, <2>a DEF ReplicaType
  <2> HIDE DEF new
  <2>4. ReplicaOK(new, published)
    BY <1>0, <2>2, <2>3 DEF ReplicaOK, StoreOK
  <2>5. QED
    BY <1>7, <2>1, <2>4, StepWithin, Idle DEF StatBarrier
<1>8. CASE StatReturn(r)
  <2> DEFINE stat == [rep.stat EXCEPT !.pc = "done"]
             new == [rep EXCEPT !.stat = stat]
  <2>1. replicas' = [replicas EXCEPT ![r] = new]
    BY <1>8 DEF StatReturn, Returned
  <2>2. stat \in [pc : {"idle", "fetched", "wait", "done"}, offsets : Offsets]
    BY <1>0 DEF ReplicaType
  <2> HIDE DEF stat
  <2>3. new \in ReplicaType /\ new.queue = rep.queue /\ new.pending = rep.pending
        /\ new.pc = rep.pc /\ new.store = rep.store /\ new.next = rep.next /\ new.txn = rep.txn
    BY <1>0, <2>2 DEF ReplicaType
  <2> HIDE DEF new
  <2>4. ReplicaOK(new, published)
    BY <1>0, <2>3, OtherOK
  <2>5. QED
    BY <1>8, <2>1, <2>4, StepWithin, Idle DEF StatReturn
<1>9. CASE StatFetch(r)
  <2> DEFINE stat == [pc |-> "fetched", offsets |-> rep.visible]
             new == [rep EXCEPT !.stat = stat]
  <2>1. replicas' = [replicas EXCEPT ![r] = new]
    BY <1>9 DEF StatFetch, Fetched
  <2>2. stat \in [pc : {"idle", "fetched", "wait", "done"}, offsets : Offsets]
    BY <1>0 DEF ReplicaType
  <2> HIDE DEF stat
  <2>3. new \in ReplicaType /\ new.queue = rep.queue /\ new.pending = rep.pending
        /\ new.pc = rep.pc /\ new.store = rep.store /\ new.next = rep.next /\ new.txn = rep.txn
    BY <1>0, <2>2 DEF ReplicaType
  <2> HIDE DEF new
  <2>4. ReplicaOK(new, published)
    BY <1>0, <2>3, OtherOK
  <2>5. QED
    BY <1>9, <2>1, <2>4, StepWithin, Idle DEF StatFetch
<1>10. QED
  BY <1>1, <1>2, <1>3, <1>4, <1>5, <1>6, <1>7, <1>8, <1>9 DEF txnStep, Stat

\* The files remain in order as an append is played back.
LEMMA PlayedOK ==
    ASSUME Inv, NEW op \in OpType,
           op.content # None => Exact(op.content) /\ Through(op.content.offsets) \subseteq published,
           NEW new, new = Played(op)
    PROVE  /\ new \in [next : Content \cup {None}, state : Content \cup {None}]
           /\ \A c \in {new.next, new.state} :
                 c # None => c \in Content /\ Exact(c) /\ Through(c.offsets) \subseteq published
<1>1. files \in [next : Content \cup {None}, state : Content \cup {None}]
  BY DEF Inv, TypeOK
<1>2. \/ new = files
      \/ new = [files EXCEPT !.next = op.content]
      \/ new = [files EXCEPT !.next = None, !.state = files.next]
      \/ new = [files EXCEPT !.state = op.content]
  BY DEF Played
<1>3. new \in [next : Content \cup {None}, state : Content \cup {None}]
      /\ new.next \in {files.next, op.content, None}
      /\ new.state \in {files.next, files.state, op.content}
  BY <1>1, <1>2 DEF OpType
<1>4. op.content \in Content \cup {None}
  BY DEF OpType
<1>5. QED
  BY <1>3, <1>4 DEF Inv, FilesOK

\* Recovery, and commits of appends, preserve the invariant.
LEMMA JournalStep ==
    ASSUME Inv, NEW r \in Replica, completePlayback(r) \/ Appends(r)
    PROVE  Inv'
<1> DEFINE rep == replicas[r]
<1>0. /\ rep \in ReplicaType /\ ReplicaOK(rep, published) /\ kind \in Kind
      /\ replicas \in [Replica -> ReplicaType] /\ FilesOK /\ published \subseteq Message
      /\ owner \in 0..Primaries
      /\ files \in [next : Content \cup {None}, state : Content \cup {None}]
      /\ (r <= owner \/ rep = NewReplica)
      /\ Primaries \in Nat
  BY TxnAssumption DEF Inv, TypeOK, Standbys, Replica
<1>1. CASE completePlayback(r)
  <2>1. rep = NewReplica /\ owner' \in 0..Primaries /\ owner <= owner' /\ r <= owner'
    BY <1>0, <1>1 DEF completePlayback, Replica
  <2>2. FilesOK'
    BY <1>0, <1>1 DEF completePlayback, FilesOK
  <2>3. QED
    BY <1>0, <1>1, <2>1, <2>2, OpenedOK, StepOf DEF completePlayback
<1>2. ASSUME NEW msg \in Message, CommitOutput(r, msg) PROVE Inv'
  <2>1. r <= owner /\ owner <= owner /\ published' = published \cup {msg}
    BY <1>0, <1>2, Idle DEF CommitOutput
  <2>2. FilesOK'
    BY <1>0, <1>2 DEF CommitOutput, FilesOK
  <2>3. QED
    <3> DEFINE new == [rep EXCEPT !.pending = @ \ {msg}]
    <3>1. replicas' = [replicas EXCEPT ![r] = new]
      BY <1>2 DEF CommitOutput
    <3>2. ReplicaOK(new, published')
      BY <1>0, <2>1, OutputOK
    <3> HIDE DEF new
    <3>3. /\ owner' = owner /\ files' = files /\ kind' = kind /\ holds' = holds
          /\ published \subseteq published' /\ published' \subseteq Message
          /\ owner' \in 0..Primaries /\ owner <= owner' /\ r <= owner'
      BY <1>0, <1>2, <2>1 DEF CommitOutput
    <3>4. QED
      BY <1>0, <2>2, <3>1, <3>2, <3>3, StepOf
<1>3. CASE CommitLog(r)
  <2> DEFINE q == rep.queue
             new == [rep EXCEPT !.queue = Tail(q)]
  <2>1. /\ q # << >> /\ q[1].deps \cap rep.pending = {} /\ q \in Seq(OpType)
        /\ QueueOK(q, rep.pending, published)
    BY <1>0, <1>3 DEF CommitLog, ReplicaOK, ReplicaType
  <2>2. /\ Tail(q) \in Seq(OpType) /\ QueueOK(Tail(q), rep.pending, published) /\ q[1] \in OpType
        /\ q[1].content # None =>
              Exact(q[1].content) /\ Through(q[1].content.offsets) \subseteq published
    BY <2>1, TailOK
  <2>3. replicas' = [replicas EXCEPT ![r] = new]
    BY <1>3 DEF CommitLog
  <2>4. ReplicaOK(new, published)
    <3>1. /\ new \in ReplicaType /\ new.queue = Tail(q) /\ new.pending = rep.pending
          /\ new.pc = rep.pc /\ new.store = rep.store /\ new.next = rep.next /\ new.txn = rep.txn
      BY <1>0, <2>2 DEF ReplicaType
    <3> HIDE DEF new, q
    <3>2. QED
      BY <1>0, <2>2, <3>1 DEF ReplicaOK, StoreOK
  <2>5. r <= owner /\ owner <= owner
    BY <1>0, <2>1, Idle
  <2>6. files' = files \/ files' = Played(q[1])
    BY <1>3 DEF CommitLog
  <2>7. FilesOK' /\ files' \in [next : Content \cup {None}, state : Content \cup {None}]
    <3>1. published' = published
      BY <1>3 DEF CommitLog
    <3>2. CASE files' = files
      BY <1>0, <3>1, <3>2 DEF FilesOK
    <3>3. CASE files' = Played(q[1])
      BY <2>2, <3>1, <3>3, PlayedOK DEF FilesOK
    <3>4. QED
      BY <2>6, <3>2, <3>3
  <2> HIDE DEF new
  <2>8. QED
    BY <1>0, <1>3, <2>3, <2>4, <2>5, <2>7, StepOf DEF CommitLog
<1>4. QED
  BY <1>1, <1>2, <1>3 DEF Appends

\* The invariant holds initially.
LEMMA InitInv == Init => Inv
<1> SUFFICES ASSUME Init PROVE Inv
  OBVIOUS
<1>1. \A r \in Replica : replicas[r] = NewReplica
  BY DEF Init
<1>2. TypeOK
  <2>1. <<kind, holds>> \in Apps
    <3>1. PICK app \in Apps : kind = app[1] /\ holds = app[2]
      BY DEF Init
    <3>2. app = <<app[1], app[2]>>
      BY TxnAssumption
    <3>3. QED
      BY <3>1, <3>2
  <2>2. replicas \in [Replica -> ReplicaType]
    BY BlankType DEF Init
  <2>3. QED
    BY <2>1, <2>2, TxnAssumption DEF Init, TypeOK
<1>3. FilesOK
  BY DEF Init, FilesOK
<1>4. QED
  BY <1>1, <1>2, <1>3, NewReplicaOK DEF Init, Inv, Standbys

\* The invariant holds always.
THEOREM Invariant == Spec => []Inv
<1>1. Inv /\ [Next]_vars => Inv'
  <2> SUFFICES ASSUME Inv, [Next]_vars PROVE Inv'
    OBVIOUS
  <2>1. CASE UNCHANGED vars
    BY <2>1 DEF vars, Inv, TypeOK, FilesOK, Standbys, ReplicaOK, QueueOK, StoreOK
  <2>2. QED
    BY <2>1, ReplicaStep, JournalStep DEF Next
<1>2. QED
  BY <1>1, InitInv, PTL DEF Spec

\* Whoever fails or is superseded, a Store which is recovered has stepped past no message whose
\* outputs have not committed: what StrongBarrier, before store.Flush, is for.
THEOREM OutputsPrecedeOffsets == Spec => []OutputsBeforeOffsets
<1>1. Inv => OutputsBeforeOffsets
  BY RecoveredOK DEF Inv, OutputsBeforeOffsets
<1>2. QED
  BY <1>1, Invariant, PTL

\* A Store which is recovered reflects each message before its offsets exactly once, and none
\* after: across retries by other replicas, no message is lost or applied twice.
THEOREM ExactlyOnce == Spec => []AppliedOnce
<1>1. Inv => AppliedOnce
  BY RecoveredOK DEF Inv, AppliedOnce, Exact
<1>2. QED
  BY <1>1, Invariant, PTL
=============================================================================
