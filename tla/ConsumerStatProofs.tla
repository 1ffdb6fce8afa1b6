------------------------ MODULE ConsumerStatProofs ------------------------
(***************************************************************************)
(* Further proofs about consumer transactions: offsets which could be      *)
(* recovered never go back, and those which the Stat API returns are       *)
(* durable.                                                                *)
(*                                                                         *)
(* The offsets which are recovered change only as appends of the owner of  *)
(* the log are played, so the invariant says of the owner's queue that     *)
(* contents in it are ordered by their offsets, none is before those which *)
(* are recovered, and none past those of the Store (QueueOrdered, Bounded).*)
(* A rename takes effect by what was written before it, which is the next  *)
(* file if it's at the head of the queue.  Of offsets which may be         *)
(* returned by Stat, it says how many commits of the queue make them       *)
(* durable (Kept), and that they precede the barrier of Stat (Answer).     *)
(***************************************************************************)
EXTENDS ConsumerTxnProofs

\* Offsets are ordered as those of each source are.
LE(a, b) == \A s \in Source : a[s] <= b[s]

\* Contents of the queue are in order of their offsets, and not before those which are
\* recovered, R. A rename follows what it renames, or that is the next file, F.
QueueOrdered(q, R, F) ==
    /\ \A i \in 1..Len(q) :
          /\ q[i].kind \in {"next", "wal"} => q[i].content # None
          /\ q[i].content # None => LE(R, q[i].content.offsets)
          /\ q[i].kind = "rename" =>
                IF i = 1 THEN F # None /\ LE(R, F.offsets) ELSE q[i - 1].kind = "next"
    /\ \A i, j \in 1..Len(q) :
          i < j /\ q[i].content # None /\ q[j].content # None =>
              LE(q[i].content.offsets, q[j].content.offsets)
    /\ \A i \in 1..Len(q) :
          q[1].kind = "rename" /\ q[i].content # None => LE(F.offsets, q[i].content.offsets)

\* Offsets are past all in the queue, and what is recovered.
Bounded(q, R, F, o) ==
    /\ LE(R, o)
    /\ \A i \in 1..Len(q) :
          /\ q[i].content # None => LE(q[i].content.offsets, o)
          /\ q[1].kind = "rename" => LE(F.offsets, o)

\* The order of offsets is transitive.
LEMMA LETrans ==
    ASSUME NEW a \in Offsets, NEW b \in Offsets, NEW c \in Offsets, LE(a, b), LE(b, c)
    PROVE  LE(a, c)
BY DEF LE, Offsets

\* The order of offsets is reflexive.
LEMMA LERefl == ASSUME NEW a \in Offsets PROVE LE(a, a)
BY DEF LE, Offsets

\* Appends of a queue, and what they write, have their types.
LEMMA OpContent ==
    ASSUME NEW q \in Seq(OpType), NEW i \in 1..Len(q)
    PROVE  /\ q[i] \in OpType
           /\ q[i].content # None => q[i].content \in Content /\ q[i].content.offsets \in Offsets
<1>1. q[i] \in OpType
  OBVIOUS
<1>2. q[i].content # None => q[i].content \in Content
  BY <1>1 DEF OpType
<1>3. QED
  BY <1>1, <1>2 DEF Content

\* The elements of a queue after an append.
LEMMA AppendedQueue ==
    ASSUME NEW q \in Seq(OpType), NEW op \in OpType, NEW new, new = Append(q, op)
    PROVE  /\ new \in Seq(OpType) /\ Len(new) = Len(q) + 1 /\ Len(q) \in Nat
           /\ \A i \in 1..Len(q) : new[i] = q[i]
           /\ new[Len(q) + 1] = op
           /\ \A i \in 1..Len(new) : i \in 1..Len(q) \/ i = Len(q) + 1
OBVIOUS

\* An append which writes nothing keeps the order.
LEMMA OrderedBarrier ==
    ASSUME NEW q \in Seq(OpType), NEW R, NEW F, QueueOrdered(q, R, F),
           NEW op \in OpType, op.content = None, op.kind \in {"barrier", "end", "stat"}
    PROVE  /\ QueueOrdered(Append(q, op), R, F)
           /\ \A o : Bounded(q, R, F, o) => Bounded(Append(q, op), R, F, o)
<1> DEFINE new == Append(q, op)
<1>1. /\ new \in Seq(OpType) /\ Len(new) = Len(q) + 1 /\ Len(q) \in Nat
      /\ \A i \in 1..Len(q) : new[i] = q[i]
      /\ new[Len(q) + 1] = op
      /\ \A i \in 1..Len(new) : i \in 1..Len(q) \/ i = Len(q) + 1
  BY AppendedQueue
<1> HIDE DEF new
<1>2. new[1].kind = "rename" => Len(q) > 0 /\ q[1].kind = "rename"
  BY <1>1
<1>3. ASSUME NEW i \in 1..Len(new), new[i].content # None \/ new[i].kind \in {"next", "wal", "rename"}
      PROVE  /\ i \in 1..Len(q) /\ new[i] = q[i] /\ (i # 1 => new[i - 1] = q[i - 1])
  BY <1>1, <1>3
<1>4. QueueOrdered(new, R, F)
  <2>1. ASSUME NEW i \in 1..Len(new)
        PROVE  /\ new[i].kind \in {"next", "wal"} => new[i].content # None
               /\ new[i].content # None => LE(R, new[i].content.offsets)
               /\ new[i].kind = "rename" =>
                     IF i = 1 THEN F # None /\ LE(R, F.offsets) ELSE new[i - 1].kind = "next"
               /\ new[1].kind = "rename" /\ new[i].content # None => LE(F.offsets, new[i].content.offsets)
    BY <1>2, <1>3 DEF QueueOrdered
  <2>2. ASSUME NEW i \in 1..Len(new), NEW j \in 1..Len(new),
               i < j, new[i].content # None, new[j].content # None
        PROVE  LE(new[i].content.offsets, new[j].content.offsets)
    BY <1>3, <2>2 DEF QueueOrdered
  <2>3. QED
    BY <2>1, <2>2 DEF QueueOrdered
<1>5. ASSUME NEW o, Bounded(q, R, F, o) PROVE Bounded(new, R, F, o)
  <2>1. ASSUME NEW i \in 1..Len(new)
        PROVE  /\ new[i].content # None => LE(new[i].content.offsets, o)
               /\ new[1].kind = "rename" => LE(F.offsets, o)
    <3>1. 1 \in 1..Len(q) \/ Len(q) = 0
      BY <1>1
    <3>2. QED
      BY <1>2, <1>3, <1>5, <3>1 DEF Bounded
  <2>2. QED
    BY <1>5, <2>1 DEF Bounded
<1>6. QED
  BY <1>4, <1>5 DEF new

\* One which writes content that is past all before it keeps the order as well.
LEMMA OrderedContent ==
    ASSUME NEW q \in Seq(OpType), NEW R \in Offsets, NEW F, QueueOrdered(q, R, F),
           NEW o \in Offsets, Bounded(q, R, F, o), F # None => F \in Content,
           NEW op \in OpType, op.content # None, op.kind \in {"next", "wal"},
           LE(o, op.content.offsets)
    PROVE  /\ QueueOrdered(Append(q, op), R, F)
           /\ Bounded(Append(q, op), R, F, op.content.offsets)
<1> DEFINE new == Append(q, op)
           c == op.content.offsets
<1>1. /\ new \in Seq(OpType) /\ Len(new) = Len(q) + 1 /\ Len(q) \in Nat
      /\ \A i \in 1..Len(q) : new[i] = q[i]
      /\ new[Len(q) + 1] = op
      /\ \A i \in 1..Len(new) : i \in 1..Len(q) \/ i = Len(q) + 1
  BY AppendedQueue
<1>2. c \in Offsets /\ LE(R, c)
  BY LETrans DEF OpType, Content, Bounded
<1>3. ASSUME NEW i \in 1..Len(q), q[i].content # None PROVE LE(q[i].content.offsets, c)
  BY <1>2, <1>3, LETrans, OpContent DEF Bounded
<1>4. ASSUME NEW i \in 1..Len(q), q[1].kind = "rename" PROVE LE(F.offsets, c)
  <2>1. 1 \in 1..Len(q)
    BY <1>1
  <2>2. F # None /\ LE(F.offsets, o)
    BY <1>4, <2>1 DEF QueueOrdered, Bounded
  <2>3. F.offsets \in Offsets
    BY <2>2 DEF Content
  <2>4. QED
    BY <1>2, <2>2, <2>3, LETrans
<1> HIDE DEF new
<1>5. new[1].kind = "rename" => Len(q) > 0 /\ q[1].kind = "rename" /\ new[1] = q[1]
  BY <1>1
<1>6. ASSUME NEW i \in 1..Len(new)
      PROVE  /\ new[i].kind \in {"next", "wal"} => new[i].content # None
             /\ new[i].content # None => LE(R, new[i].content.offsets) /\ LE(new[i].content.offsets, c)
             /\ new[i].kind = "rename" =>
                   IF i = 1 THEN F # None /\ LE(R, F.offsets) ELSE new[i - 1].kind = "next"
             /\ new[1].kind = "rename" => LE(F.offsets, c)
             /\ new[1].kind = "rename" /\ new[i].content # None => LE(F.offsets, new[i].content.offsets)
  <2>1. CASE i \in 1..Len(q)
    <3>1. new[i] = q[i] /\ (i # 1 => new[i - 1] = q[i - 1])
      BY <1>1, <2>1
    <3>2. QED
      BY <1>3, <1>4, <1>5, <2>1, <3>1 DEF QueueOrdered
  <2>2. CASE i = Len(q) + 1
    <3>1. new[i] = op
      BY <1>1, <2>2
    <3>2. new[1].kind = "rename" => 1 \in 1..Len(q)
      BY <1>1, <1>5
    <3>3. QED
      BY <1>2, <1>4, <1>5, <3>1, <3>2, LERefl
  <2>3. QED
    BY <1>1, <2>1, <2>2
<1>7. ASSUME NEW i \in 1..Len(new), NEW j \in 1..Len(new),
             i < j, new[i].content # None, new[j].content # None
      PROVE  LE(new[i].content.offsets, new[j].content.offsets)
  <2>1. CASE j \in 1..Len(q)
    <3>1. i \in 1..Len(q) /\ new[i] = q[i] /\ new[j] = q[j]
      BY <1>1, <1>7, <2>1
    <3>2. QED
      BY <1>7, <2>1, <3>1 DEF QueueOrdered
  <2>2. CASE j = Len(q) + 1
    BY <1>1, <1>6, <1>7, <2>2
  <2>3. QED
    BY <1>1, <2>1, <2>2
<1>8. QueueOrdered(new, R, F)
  BY <1>6, <1>7 DEF QueueOrdered
<1>9. Bounded(new, R, F, c)
  BY <1>2, <1>6 DEF Bounded
<1>10. QED
  BY <1>8, <1>9 DEF new

\* So does the rename of what was just written.
LEMMA OrderedRename ==
    ASSUME NEW q \in Seq(OpType), NEW R, NEW F, QueueOrdered(q, R, F), q # << >>,
           q[Len(q)].kind = "next",
           NEW op \in OpType, op.content = None, op.kind = "rename"
    PROVE  /\ QueueOrdered(Append(q, op), R, F)
           /\ \A o : Bounded(q, R, F, o) => Bounded(Append(q, op), R, F, o)
<1> DEFINE new == Append(q, op)
<1>1. /\ new \in Seq(OpType) /\ Len(new) = Len(q) + 1 /\ Len(q) \in Nat
      /\ \A i \in 1..Len(q) : new[i] = q[i]
      /\ new[Len(q) + 1] = op
      /\ \A i \in 1..Len(new) : i \in 1..Len(q) \/ i = Len(q) + 1
  BY AppendedQueue
<1>2. Len(q) > 0
  OBVIOUS
<1> HIDE DEF new
<1>3. new[1] = q[1] /\ 1 \in 1..Len(q) /\ new[Len(q)] = q[Len(q)] /\ Len(q) + 1 - 1 = Len(q)
  BY <1>1, <1>2
<1>4. ASSUME NEW i \in 1..Len(new)
      PROVE  \/ i \in 1..Len(q) /\ new[i] = q[i] /\ (i # 1 => new[i - 1] = q[i - 1])
             \/ i # 1 /\ new[i].content = None /\ new[i].kind = "rename" /\ new[i - 1].kind = "next"
  BY <1>1, <1>2, <1>3
<1>5. QueueOrdered(new, R, F)
  <2>1. ASSUME NEW i \in 1..Len(new)
        PROVE  /\ new[i].kind \in {"next", "wal"} => new[i].content # None
               /\ new[i].content # None => LE(R, new[i].content.offsets)
               /\ new[i].kind = "rename" =>
                     IF i = 1 THEN F # None /\ LE(R, F.offsets) ELSE new[i - 1].kind = "next"
               /\ new[1].kind = "rename" /\ new[i].content # None => LE(F.offsets, new[i].content.offsets)
    BY <1>3, <1>4 DEF QueueOrdered
  <2>2. ASSUME NEW i \in 1..Len(new), NEW j \in 1..Len(new),
               i < j, new[i].content # None, new[j].content # None
        PROVE  LE(new[i].content.offsets, new[j].content.offsets)
    BY <1>4, <2>2 DEF QueueOrdered
  <2>3. QED
    BY <2>1, <2>2 DEF QueueOrdered
<1>6. ASSUME NEW o, Bounded(q, R, F, o) PROVE Bounded(new, R, F, o)
  BY <1>3, <1>4, <1>6 DEF Bounded
<1>7. QED
  BY <1>5, <1>6 DEF new

\* What is recovered and the next file, as an append is played.
PlayedOffsets(op, R, F) ==
    IF op.kind = "wal" THEN op.content.offsets ELSE IF op.kind = "rename" THEN F.offsets ELSE R
\* The next file, as an append is played.
PlayedNext(op, F) ==
    IF op.kind = "next" THEN op.content ELSE IF op.kind = "rename" THEN None ELSE F

\* Order is preserved as the first append is played, and what is recovered goes forward.
LEMMA OrderedTail ==
    ASSUME NEW q \in Seq(OpType), NEW R \in Offsets, NEW F, QueueOrdered(q, R, F), q # << >>,
           F # None => F \in Content,
           NEW R2, R2 = PlayedOffsets(q[1], R, F), NEW F2, F2 = PlayedNext(q[1], F)
    PROVE  /\ LE(R, R2)
           /\ R2 \in Offsets
           /\ QueueOrdered(Tail(q), R2, F2)
           /\ \A o : Bounded(q, R, F, o) => Bounded(Tail(q), R2, F2, o)
<1> DEFINE new == Tail(q)
<1>1. /\ new \in Seq(OpType) /\ Len(new) = Len(q) - 1 /\ Len(q) \in Nat /\ Len(q) > 0
      /\ \A i \in 1..Len(new) : new[i] = q[i + 1] /\ i + 1 \in 1..Len(q)
  OBVIOUS
<1> HIDE DEF new
<1>2. 1 \in 1..Len(q) /\ q[1] \in OpType
  BY <1>1
<1>3. LE(R, R2) /\ R2 \in Offsets
  <2>1. CASE q[1].kind = "wal"
    BY <1>2, <2>1, OpContent DEF PlayedOffsets, QueueOrdered
  <2>2. CASE q[1].kind = "rename"
    BY <1>2, <2>2 DEF PlayedOffsets, QueueOrdered, Content
  <2>3. CASE q[1].kind \notin {"wal", "rename"}
    BY <2>3, LERefl DEF PlayedOffsets
  <2>4. QED
    BY <2>1, <2>2, <2>3
<1>4. ASSUME NEW i \in 1..Len(new), new[i].content # None
      PROVE  LE(R2, new[i].content.offsets)
  <2>1. i + 1 \in 1..Len(q) /\ new[i] = q[i + 1] /\ 1 < i + 1
    BY <1>1
  <2>2. CASE q[1].kind = "wal"
    BY <1>2, <1>4, <2>1, <2>2 DEF PlayedOffsets, QueueOrdered
  <2>3. CASE q[1].kind = "rename"
    BY <1>2, <1>4, <2>1, <2>3 DEF PlayedOffsets, QueueOrdered
  <2>4. CASE q[1].kind \notin {"wal", "rename"}
    BY <1>4, <2>1, <2>4 DEF PlayedOffsets, QueueOrdered
  <2>5. QED
    BY <2>2, <2>3, <2>4
<1>5. ASSUME NEW i \in 1..Len(new), new[i].kind = "rename"
      PROVE  IF i = 1 THEN q[1].kind = "next" ELSE new[i - 1].kind = "next"
  <2>1. i + 1 \in 1..Len(q) /\ new[i] = q[i + 1] /\ i + 1 # 1 /\ i + 1 - 1 = i
    BY <1>1
  <2>2. q[i].kind = "next"
    BY <1>5, <2>1 DEF QueueOrdered
  <2>3. i # 1 => new[i - 1] = q[i]
    BY <1>1
  <2>4. QED
    BY <2>2, <2>3
<1>6. ASSUME NEW i \in 1..Len(new), new[1].kind = "rename"
      PROVE  /\ q[1].kind = "next" /\ F2 = q[1].content /\ F2 # None
             /\ LE(R2, F2.offsets)
             /\ new[i].content # None => LE(F2.offsets, new[i].content.offsets)
  <2>1. 1 \in 1..Len(new) /\ i + 1 \in 1..Len(q) /\ new[i] = q[i + 1] /\ 1 < i + 1
    BY <1>1
  <2>2. q[1].kind = "next"
    BY <1>5, <1>6, <2>1
  <2>3. F2 = q[1].content /\ F2 # None /\ R2 = R
    BY <1>2, <2>2 DEF PlayedNext, PlayedOffsets, QueueOrdered
  <2>4. QED
    BY <1>2, <2>1, <2>2, <2>3 DEF QueueOrdered
<1>7. QueueOrdered(new, R2, F2)
  <2>1. ASSUME NEW i \in 1..Len(new)
        PROVE  /\ new[i].kind \in {"next", "wal"} => new[i].content # None
               /\ new[i].content # None => LE(R2, new[i].content.offsets)
               /\ new[i].kind = "rename" =>
                     IF i = 1 THEN F2 # None /\ LE(R2, F2.offsets) ELSE new[i - 1].kind = "next"
               /\ new[1].kind = "rename" /\ new[i].content # None => LE(F2.offsets, new[i].content.offsets)
    BY <1>1, <1>4, <1>5, <1>6 DEF QueueOrdered
  <2>2. ASSUME NEW i \in 1..Len(new), NEW j \in 1..Len(new),
               i < j, new[i].content # None, new[j].content # None
        PROVE  LE(new[i].content.offsets, new[j].content.offsets)
    <3>1. i + 1 \in 1..Len(q) /\ j + 1 \in 1..Len(q) /\ i + 1 < j + 1
          /\ new[i] = q[i + 1] /\ new[j] = q[j + 1]
      BY <1>1, <2>2
    <3>2. QED
      BY <2>2, <3>1 DEF QueueOrdered
  <2>3. QED
    BY <2>1, <2>2 DEF QueueOrdered
<1>8. ASSUME NEW o, Bounded(q, R, F, o) PROVE Bounded(new, R2, F2, o)
  <2>1. LE(R2, o)
    BY <1>2, <1>8 DEF PlayedOffsets, Bounded, QueueOrdered
  <2>2. ASSUME NEW i \in 1..Len(new)
        PROVE  /\ new[i].content # None => LE(new[i].content.offsets, o)
               /\ new[1].kind = "rename" => LE(F2.offsets, o)
    BY <1>1, <1>2, <1>6, <1>8 DEF Bounded
  <2>3. QED
    BY <2>1, <2>2 DEF Bounded
<1>9. QED
  BY <1>3, <1>7, <1>8 DEF new

-----------------------------------------------------------------------------
\* The i'th append makes what is recovered as late as the offsets.
Lands(q, F, i, o) ==
    \/ q[i].kind = "wal" /\ LE(o, q[i].content.offsets)
    \/ q[i].kind = "rename" /\ LE(o, IF i = 1 THEN F.offsets ELSE q[i - 1].content.offsets)

\* After n commits, what is recovered is as late as the offsets.
Lasting(q, R, F, o, n) == LE(o, R) \/ \E i \in 1..n : Lands(q, F, i, o)

\* The outputs of what lies before the offsets are published once n appends commit.
Sent(q, P, o, n) == \A m \in Through(o) : m \in P \/ \E i \in 1..n : m \in q[i].deps

\* Both, where what is recovered matters of the log's owner alone.
Kept(q, P, own, R, F, o, n) == Sent(q, P, o, n) /\ (own => Lasting(q, R, F, o, n))

\* Offsets are durable once no append of Stat is queued any more: those before it suffice.
Answer(q, P, own, R, F, o) ==
    \A n \in 0..Len(q) :
        (\A i \in 1..Len(q) : i > n => q[i].kind # "stat") => Kept(q, P, own, R, F, o, n)

\* A further append doesn't change what earlier ones make durable.
LEMMA KeptAppend ==
    ASSUME NEW q \in Seq(OpType), NEW op \in OpType, NEW P, NEW own, NEW R, NEW F, NEW o,
           NEW n \in 0..Len(q), Kept(q, P, own, R, F, o, n)
    PROVE  /\ Kept(Append(q, op), P, own, R, F, o, n)
           /\ Kept(Append(q, op), P, own, R, F, o, n + 1)
<1> DEFINE new == Append(q, op)
<1>1. /\ new \in Seq(OpType) /\ Len(new) = Len(q) + 1 /\ Len(q) \in Nat
      /\ \A i \in 1..Len(q) : new[i] = q[i]
  BY AppendedQueue
<1> HIDE DEF new
<1>2. \A i \in 1..n : /\ new[i] = q[i] /\ i \in 1..(n + 1)
                      /\ i # 1 => new[i - 1] = q[i - 1]
  BY <1>1
<1>3. \A i \in 1..n : Lands(q, F, i, o) => Lands(new, F, i, o)
  BY <1>2 DEF Lands
<1>4. Sent(new, P, o, n) /\ Sent(new, P, o, n + 1)
  BY <1>2 DEF Sent, Kept
<1>5. own => Lasting(new, R, F, o, n) /\ Lasting(new, R, F, o, n + 1)
  BY <1>2, <1>3 DEF Lasting, Kept
<1>6. QED
  BY <1>4, <1>5 DEF Kept, new

\* Nor does it change an answer of Stat.
LEMMA AnswerAppend ==
    ASSUME NEW q \in Seq(OpType), NEW op \in OpType, NEW P, NEW own, NEW R, NEW F, NEW o,
           op.kind # "stat", Answer(q, P, own, R, F, o)
    PROVE  Answer(Append(q, op), P, own, R, F, o)
<1> DEFINE new == Append(q, op)
<1>1. /\ new \in Seq(OpType) /\ Len(new) = Len(q) + 1 /\ Len(q) \in Nat
      /\ \A i \in 1..Len(q) : new[i] = q[i]
  BY AppendedQueue
<1>2. ASSUME NEW n \in 0..Len(q), Kept(q, P, own, R, F, o, n)
      PROVE  Kept(new, P, own, R, F, o, n) /\ Kept(new, P, own, R, F, o, n + 1)
  BY <1>2, KeptAppend
<1> HIDE DEF new
<1>3. ASSUME NEW n \in 0..Len(new), \A i \in 1..Len(new) : i > n => new[i].kind # "stat"
      PROVE  Kept(new, P, own, R, F, o, n)
  <2>1. CASE n \in 0..Len(q)
    <3>1. \A i \in 1..Len(q) : i > n => q[i].kind # "stat"
      BY <1>1, <1>3
    <3>2. QED
      BY <1>2, <2>1, <3>1 DEF Answer
  <2>2. CASE n = Len(q) + 1
    <3>1. Len(q) \in 0..Len(q) /\ \A i \in 1..Len(q) : ~(i > Len(q))
      BY <1>1
    <3>2. Kept(q, P, own, R, F, o, Len(q))
      BY <3>1 DEF Answer
    <3>3. QED
      BY <1>2, <2>2, <3>1, <3>2
  <2>3. QED
    BY <1>1, <2>1, <2>2
<1>4. QED
  BY <1>3 DEF Answer, new

\* Stat's barrier follows what its offsets need.
LEMMA AnswerBegun ==
    ASSUME NEW q \in Seq(OpType), NEW op \in OpType, NEW P, NEW own, NEW R, NEW F, NEW o,
           op.kind = "stat", Kept(q, P, own, R, F, o, Len(q))
    PROVE  Answer(Append(q, op), P, own, R, F, o)
<1> DEFINE new == Append(q, op)
<1>1. /\ new \in Seq(OpType) /\ Len(new) = Len(q) + 1 /\ Len(q) \in Nat
      /\ new[Len(q) + 1] = op
  BY AppendedQueue
<1>2. Kept(new, P, own, R, F, o, Len(q) + 1)
  BY <1>1, KeptAppend
<1> HIDE DEF new
<1>3. ASSUME NEW n \in 0..Len(new), \A i \in 1..Len(new) : i > n => new[i].kind # "stat"
      PROVE  n = Len(q) + 1
  <2>1. Len(q) + 1 \in 1..Len(new)
    BY <1>1
  <2>2. ~(Len(q) + 1 > n)
    BY <1>1, <1>3, <2>1
  <2>3. QED
    BY <1>1, <2>2
<1>4. QED
  BY <1>2, <1>3 DEF Answer, new

\* As the first append commits, one fewer is needed.
LEMMA KeptTail ==
    ASSUME NEW q \in Seq(OpType), q # << >>, NEW P, q[1].deps \subseteq P, NEW own,
           NEW R \in Offsets, NEW F, own => QueueOrdered(q, R, F), F # None => F \in Content,
           NEW R2, own => R2 = PlayedOffsets(q[1], R, F),
           NEW F2, own => F2 = PlayedNext(q[1], F),
           NEW o \in Offsets, NEW n \in Nat, Kept(q, P, own, R, F, o, n + 1), n + 1 <= Len(q)
    PROVE  Kept(Tail(q), P, own, R2, F2, o, n)
<1> DEFINE new == Tail(q)
<1>1. /\ new \in Seq(OpType) /\ Len(new) = Len(q) - 1 /\ Len(q) \in Nat /\ Len(q) > 0
      /\ \A i \in 1..Len(new) : new[i] = q[i + 1] /\ i + 1 \in 1..Len(q)
  OBVIOUS
<1>2. own => LE(R, R2) /\ R2 \in Offsets
  BY OrderedTail
<1> HIDE DEF new
<1>3. Sent(new, P, o, n)
  <2>1. ASSUME NEW m, NEW i \in 1..(n + 1), m \in q[i].deps
        PROVE  m \in P \/ \E k \in 1..n : m \in new[k].deps
    <3>1. CASE i = 1
      BY <2>1, <3>1
    <3>2. CASE i # 1
      <4>1. i - 1 \in 1..n /\ new[i - 1] = q[i]
        BY <1>1, <3>2
      <4>2. QED
        BY <2>1, <4>1
    <3>3. QED
      BY <3>1, <3>2
  <2>2. QED
    BY <2>1 DEF Kept, Sent
<1>4. ASSUME own PROVE Lasting(new, R2, F2, o, n)
  <2>1. CASE LE(o, R)
    BY <1>2, <1>4, <2>1, LETrans DEF Lasting
  <2>2. ASSUME NEW i \in 1..(n + 1), Lands(q, F, i, o) PROVE Lasting(new, R2, F2, o, n)
    <3>1. CASE i = 1
      BY <1>4, <2>2, <3>1 DEF Lands, Lasting, PlayedOffsets
    <3>2. CASE i # 1
      <4>1. /\ i - 1 \in 1..n /\ new[i - 1] = q[i] /\ i \in 1..Len(q)
            /\ i - 1 # 1 => new[(i - 1) - 1] = q[i - 1]
        BY <1>1, <3>2
      <4>2. q[i].kind = "rename" /\ i - 1 = 1 => F2 = q[i - 1].content
        BY <1>4, <3>2, <4>1 DEF QueueOrdered, PlayedNext
      <4>3. Lands(new, F2, i - 1, o)
        BY <2>2, <3>2, <4>1, <4>2 DEF Lands
      <4>4. QED
        BY <4>1, <4>3 DEF Lasting
    <3>3. QED
      BY <3>1, <3>2
  <2>3. QED
    BY <1>4, <2>1, <2>2 DEF Kept, Lasting
<1>5. QED
  BY <1>3, <1>4 DEF Kept, new

\* An answer is preserved as the first append commits.
LEMMA AnswerTail ==
    ASSUME NEW q \in Seq(OpType), q # << >>, NEW P, q[1].deps \subseteq P, NEW own,
           NEW R \in Offsets, NEW F, own => QueueOrdered(q, R, F), F # None => F \in Content,
           NEW R2, own => R2 = PlayedOffsets(q[1], R, F),
           NEW F2, own => F2 = PlayedNext(q[1], F),
           NEW o \in Offsets, Answer(q, P, own, R, F, o)
    PROVE  Answer(Tail(q), P, own, R2, F2, o)
<1> DEFINE new == Tail(q)
<1>1. /\ new \in Seq(OpType) /\ Len(new) = Len(q) - 1 /\ Len(q) \in Nat /\ Len(q) > 0
      /\ \A i \in 1..Len(q) : i > 1 => q[i] = new[i - 1] /\ i - 1 \in 1..Len(new)
  OBVIOUS
<1>2. ASSUME NEW n \in 0..Len(new), \A i \in 1..Len(new) : i > n => new[i].kind # "stat"
      PROVE  Kept(new, P, own, R2, F2, o, n)
  <2> HIDE DEF new
  <2>1. n \in Nat /\ n + 1 \in 0..Len(q) /\ n + 1 <= Len(q)
    BY <1>1
  <2>2. ASSUME NEW i \in 1..Len(q), i > n + 1 PROVE q[i].kind # "stat"
    <3>1. q[i] = new[i - 1] /\ i - 1 \in 1..Len(new) /\ i - 1 > n
      BY <1>1, <2>1, <2>2
    <3>2. QED
      BY <1>2, <3>1
  <2>3. Kept(q, P, own, R, F, o, n + 1)
    BY <2>1, <2>2 DEF Answer
  <2>4. QED
    BY <2>1, <2>3, KeptTail DEF new
<1>3. QED
  BY <1>2 DEF Answer

-----------------------------------------------------------------------------
\* What NeverRewinds needs of a replica.
Ordered(rep, own, R, F) ==
    own => /\ QueueOrdered(rep.queue, R, F)
           /\ rep.pc = "primary" => Bounded(rep.queue, R, F, rep.store.offsets)

\* What StatIsDurable needs of a replica.
StatsKept(rep, own, R, F, P) ==
    /\ rep.pc # "standby" => Kept(rep.queue, P, own, R, F, rep.visible, Len(rep.queue))
    /\ rep.stat.pc = "fetched" =>
           Kept(rep.queue, P, own, R, F, rep.stat.offsets, Len(rep.queue))
    /\ rep.stat.pc \in {"wait", "done"} => Answer(rep.queue, P, own, R, F, rep.stat.offsets)

\* Both. The latter holds if no Flush of the JSON store fails, which takes offsets that it may
\* not have written.
Lasts(rep, own, R, F, P) ==
    /\ Ordered(rep, own, R, F)
    /\ "json" \notin FlushFails => StatsKept(rep, own, R, F, P)

\* It's preserved by steps which leave the queue and the Store's offsets alone.
LEMMA LastsSame ==
    ASSUME NEW rep, NEW own, NEW R, NEW F, NEW P, Lasts(rep, own, R, F, P),
           NEW new, NEW own2, own2 => own, NEW Q, P \subseteq Q,
           new.queue = rep.queue, new.visible = rep.visible, new.stat.offsets = rep.stat.offsets,
           new.stat.pc = "fetched" => rep.stat.pc = "fetched",
           new.stat.pc \in {"wait", "done"} => rep.stat.pc \in {"wait", "done"},
           rep.pc = "standby" => new.pc = "standby",
           new.pc = "primary" => rep.pc = "primary" /\ new.store.offsets = rep.store.offsets
    PROVE  Lasts(new, own2, R, F, Q)
<1>1. Ordered(new, own2, R, F)
  BY DEF Lasts, Ordered
<1>2. ASSUME NEW o, NEW n, Kept(rep.queue, P, own, R, F, o, n)
      PROVE  Kept(new.queue, Q, own2, R, F, o, n)
  BY <1>2 DEF Kept, Sent, Lasting
<1>3. ASSUME NEW o, Answer(rep.queue, P, own, R, F, o)
      PROVE  Answer(new.queue, Q, own2, R, F, o)
  BY <1>2, <1>3 DEF Answer
<1>4. StatsKept(rep, own, R, F, P) => StatsKept(new, own2, R, F, Q)
  BY <1>2, <1>3 DEF StatsKept
<1>5. QED
  BY <1>1, <1>4 DEF Lasts

\* Flush's queues, each one append longer.
LEMMA FlushOrdered ==
    ASSUME NEW rep, NEW P, ReplicaOK(rep, P), rep.pc = "primary",
           Through(rep.next) \subseteq P \cup rep.pending,
           NEW R \in Offsets, NEW F, F # None => F \in Content,
           QueueOrdered(rep.queue, R, F), Bounded(rep.queue, R, F, rep.store.offsets)
    PROVE  /\ QueueOrdered(Behind(rep), R, F) /\ Bounded(Behind(rep), R, F, rep.store.offsets)
           /\ \A q \in {NextWritten(rep), Renamed(rep), Batched(rep)} :
                 QueueOrdered(q, R, F) /\ Bounded(q, R, F, Flushing(rep).offsets)
<1> DEFINE c == Flushing(rep)
<1>1. /\ rep.queue \in Seq(OpType) /\ Behind(rep) \in Seq(OpType) /\ NextWritten(rep) \in Seq(OpType)
      /\ rep.store.offsets \in Offsets
  BY FlushQueuesOK DEF ReplicaOK, ReplicaType, Content
<1>2. c \in Content /\ c.offsets \in Offsets /\ LE(rep.store.offsets, c.offsets) /\ c # None
  BY FlushingOK, TxnAssumption DEF LE, Content
<1> HIDE DEF c
<1>3. /\ StrongBarrier(rep) \in OpType /\ StrongBarrier(rep).content = None
      /\ StrongBarrier(rep).kind = "barrier"
  BY DEF StrongBarrier, Op, OpType, ReplicaOK, ReplicaType
<1>4. QueueOrdered(Behind(rep), R, F) /\ Bounded(Behind(rep), R, F, rep.store.offsets)
  BY <1>1, <1>3, OrderedBarrier DEF Behind
<1>5. ASSUME NEW k \in {"next", "wal"}
      PROVE  LET q == Append(Behind(rep), Op(k, {}, c))
             IN  QueueOrdered(q, R, F) /\ Bounded(q, R, F, c.offsets)
  <2>1. Op(k, {}, c) \in OpType /\ Op(k, {}, c).kind = k /\ Op(k, {}, c).content = c
    BY <1>2 DEF Op, OpType
  <2>2. QED
    BY <1>1, <1>2, <1>4, <2>1, OrderedContent
<1>6. /\ QueueOrdered(NextWritten(rep), R, F) /\ Bounded(NextWritten(rep), R, F, c.offsets)
      /\ QueueOrdered(Batched(rep), R, F) /\ Bounded(Batched(rep), R, F, c.offsets)
  BY <1>5 DEF NextWritten, Batched, c
<1>7. NextWritten(rep) # << >> /\ NextWritten(rep)[Len(NextWritten(rep))].kind = "next"
  <2>1. Op("next", {}, c) \in OpType /\ Op("next", {}, c).kind = "next"
    BY <1>2 DEF Op, OpType
  <2>2. NextWritten(rep) = Append(Behind(rep), Op("next", {}, c))
    BY DEF NextWritten, c
  <2>3. QED
    BY <1>1, <2>1, <2>2
<1>8. QueueOrdered(Renamed(rep), R, F) /\ Bounded(Renamed(rep), R, F, c.offsets)
  <2>1. LET op == Op("rename", {}, None)
        IN  op \in OpType /\ op.content = None /\ op.kind = "rename"
    BY DEF Op, OpType
  <2>2. QED
    BY <1>1, <1>6, <1>7, <2>1, OrderedRename DEF Renamed
<1>9. QED
  BY <1>4, <1>6, <1>8 DEF c

\* Offsets of a Flush are durable once all it queued commits.
LEMMA FlushKept ==
    ASSUME NEW rep, NEW P, ReplicaOK(rep, P), rep.pc = "primary",
           Through(rep.next) \subseteq P \cup rep.pending,
           NEW R, NEW F, NEW own
    PROVE  \A q \in {Renamed(rep), Batched(rep)} :
               Kept(q, P, own, R, F, Flushing(rep).offsets, Len(q))
<1> DEFINE c == Flushing(rep)
           b == Behind(rep)
           nx == Op("next", {}, c)
           rn == Op("rename", {}, None)
           wal == Op("wal", {}, c)
<1>1. rep.queue \in Seq(OpType) /\ b \in Seq(OpType) /\ c \in Content /\ c.offsets \in Offsets
      /\ Through(c.offsets) \subseteq P \cup rep.pending
  BY FlushQueuesOK, FlushingOK DEF ReplicaOK, ReplicaType, Content
<1>2. Len(b) \in 1..Len(b) /\ b[Len(b)] = StrongBarrier(rep) /\ StrongBarrier(rep).deps = rep.pending
  <2>1. StrongBarrier(rep) \in OpType /\ StrongBarrier(rep).deps = rep.pending
    BY DEF StrongBarrier, Op, OpType, ReplicaOK, ReplicaType
  <2>2. QED
    BY <1>1, <2>1 DEF Behind
<1> HIDE DEF c, b
<1>3. /\ nx \in OpType /\ rn \in OpType /\ wal \in OpType
      /\ nx.content = c /\ rn.kind = "rename" /\ wal.kind = "wal" /\ wal.content = c
  BY <1>1 DEF Op, OpType
<1>4. Renamed(rep) = Append(Append(b, nx), rn) /\ Batched(rep) = Append(b, wal)
  BY DEF Renamed, Batched, NextWritten, b, c
<1> HIDE DEF nx, rn, wal
<1>5. ASSUME NEW q, \A i \in 1..Len(b) : q[i] = b[i], NEW n \in Nat, n >= Len(b)
      PROVE  Sent(q, P, c.offsets, n)
  <2>1. Len(b) \in 1..n /\ q[Len(b)].deps = rep.pending
    BY <1>1, <1>2, <1>5
  <2>2. QED
    BY <1>1, <2>1 DEF Sent
<1>6. LE(c.offsets, c.offsets)
  BY <1>1, LERefl
<1>7. Kept(Renamed(rep), P, own, R, F, c.offsets, Len(Renamed(rep)))
  <2> DEFINE q == Append(Append(b, nx), rn)
  <2>1. /\ Len(q) = Len(b) + 2 /\ q[Len(b) + 2] = rn /\ q[(Len(b) + 2) - 1] = nx
        /\ \A i \in 1..Len(b) : q[i] = b[i]
        /\ Len(b) + 2 \in 1..Len(q) /\ Len(b) + 2 # 1 /\ Len(q) \in Nat /\ Len(q) >= Len(b)
    BY <1>1, <1>3
  <2> HIDE DEF q
  <2>2. Lands(q, F, Len(b) + 2, c.offsets)
    BY <1>3, <1>6, <2>1 DEF Lands
  <2>3. QED
    BY <1>4, <1>5, <2>1, <2>2 DEF Kept, Lasting, q
<1>8. Kept(Batched(rep), P, own, R, F, c.offsets, Len(Batched(rep)))
  <2> DEFINE q == Append(b, wal)
  <2>1. /\ Len(q) = Len(b) + 1 /\ q[Len(b) + 1] = wal
        /\ \A i \in 1..Len(b) : q[i] = b[i]
        /\ Len(b) + 1 \in 1..Len(q) /\ Len(q) \in Nat /\ Len(q) >= Len(b)
    BY <1>1, <1>3
  <2> HIDE DEF q
  <2>2. Lands(q, F, Len(b) + 1, c.offsets)
    BY <1>3, <1>6, <2>1 DEF Lands
  <2>3. QED
    BY <1>4, <1>5, <2>1, <2>2 DEF Kept, Lasting, q
<1>9. QED
  BY <1>7, <1>8 DEF c

\* Flush doesn't change an answer of Stat.
LEMMA FlushAnswers ==
    ASSUME NEW rep, NEW P, ReplicaOK(rep, P), rep.pc = "primary",
           Through(rep.next) \subseteq P \cup rep.pending,
           NEW R, NEW F, NEW own, NEW o, Answer(rep.queue, P, own, R, F, o)
    PROVE  \A q \in {Behind(rep), Renamed(rep), Batched(rep)} : Answer(q, P, own, R, F, o)
<1> DEFINE c == Flushing(rep)
<1>1. rep.queue \in Seq(OpType) /\ Behind(rep) \in Seq(OpType) /\ NextWritten(rep) \in Seq(OpType)
      /\ c \in Content
  BY FlushQueuesOK, FlushingOK DEF ReplicaOK, ReplicaType
<1>2. StrongBarrier(rep) \in OpType /\ StrongBarrier(rep).kind # "stat"
  BY DEF StrongBarrier, Op, OpType, ReplicaOK, ReplicaType
<1>3. Answer(Behind(rep), P, own, R, F, o)
  BY <1>1, <1>2, AnswerAppend DEF Behind
<1>4. ASSUME NEW k \in {"next", "wal"}
      PROVE  Answer(Append(Behind(rep), Op(k, {}, c)), P, own, R, F, o)
  <2>1. Op(k, {}, c) \in OpType /\ Op(k, {}, c).kind # "stat"
    BY <1>1 DEF Op, OpType
  <2>2. QED
    BY <1>1, <1>3, <2>1, AnswerAppend
<1>5. Answer(NextWritten(rep), P, own, R, F, o) /\ Answer(Batched(rep), P, own, R, F, o)
  BY <1>4 DEF NextWritten, Batched
<1>6. Answer(Renamed(rep), P, own, R, F, o)
  <2>1. Op("rename", {}, None) \in OpType /\ Op("rename", {}, None).kind # "stat"
    BY DEF Op, OpType
  <2>2. QED
    BY <1>1, <1>5, <2>1, AnswerAppend DEF Renamed
<1>7. QED
  BY <1>3, <1>5, <1>6

\* Nor does it change what appends which were queued before it make durable.
LEMMA FlushKeeps ==
    ASSUME NEW rep, NEW P, ReplicaOK(rep, P), rep.pc = "primary",
           Through(rep.next) \subseteq P \cup rep.pending,
           NEW R, NEW F, NEW own, NEW o, Kept(rep.queue, P, own, R, F, o, Len(rep.queue))
    PROVE  \A q \in {Behind(rep), Renamed(rep), Batched(rep)} : Kept(q, P, own, R, F, o, Len(q))
<1> DEFINE c == Flushing(rep)
           b == Behind(rep)
<1>1. rep.queue \in Seq(OpType) /\ b \in Seq(OpType) /\ NextWritten(rep) \in Seq(OpType)
      /\ c \in Content
  BY FlushQueuesOK, FlushingOK DEF ReplicaOK, ReplicaType
<1>2. StrongBarrier(rep) \in OpType /\ Op("rename", {}, None) \in OpType
      /\ \A k \in {"next", "wal"} : Op(k, {}, c) \in OpType
  BY <1>1 DEF StrongBarrier, Op, OpType, ReplicaOK, ReplicaType
<1>3. ASSUME NEW q \in Seq(OpType), NEW op \in OpType, Kept(q, P, own, R, F, o, Len(q))
      PROVE  Kept(Append(q, op), P, own, R, F, o, Len(Append(q, op)))
  <2>1. Len(q) \in 0..Len(q) /\ Len(Append(q, op)) = Len(q) + 1
    OBVIOUS
  <2>2. QED
    BY <1>3, <2>1, KeptAppend
<1>4. Kept(b, P, own, R, F, o, Len(b))
  BY <1>1, <1>2, <1>3 DEF Behind
<1> HIDE DEF b, c
<1>5. /\ Kept(NextWritten(rep), P, own, R, F, o, Len(NextWritten(rep)))
      /\ Kept(Batched(rep), P, own, R, F, o, Len(Batched(rep)))
  BY <1>1, <1>2, <1>3, <1>4 DEF NextWritten, Batched, b, c
<1>6. Kept(Renamed(rep), P, own, R, F, o, Len(Renamed(rep)))
  BY <1>1, <1>2, <1>3, <1>5 DEF Renamed
<1>7. QED
  BY <1>4, <1>5, <1>6 DEF b

\* The invariant is preserved as a transaction commits.
LEMMA CommittedLasts ==
    ASSUME NEW rep, NEW P, ReplicaOK(rep, P), rep.pc = "primary", kind \in Kind,
           NEW own, NEW R \in Offsets, NEW F, F # None => F \in Content,
           Lasts(rep, own, R, F, P), NEW new, new = Committed(rep)
    PROVE  Lasts(new, own, R, F, P) /\ new.stat = rep.stat
<1> DEFINE fin == FinalizeTxn(rep)
           c == Flushing(fin)
           q == IF kind = "json" THEN Renamed(fin) ELSE Batched(fin)
           longer == Append(q, WeakBarrier("end"))
<1>1. /\ ReplicaOK(fin, P) /\ Through(fin.next) \subseteq P \cup fin.pending
      /\ fin.pc = "primary" /\ fin \in ReplicaType
      /\ fin.queue = rep.queue /\ fin.store = rep.store /\ fin.stat = rep.stat
  BY FinalizedOK DEF ReplicaOK
<1> HIDE DEF fin
<1>2. Flush(fin) = [fin EXCEPT !.store = c, !.visible = c.offsets, !.queue = q]
  BY <1>1, FlushShape
<1>3. q \in Seq(OpType) /\ q \in {Renamed(fin), Batched(fin)}
  BY <1>1, FlushQueuesOK
<1>4. /\ WeakBarrier("end") \in OpType /\ WeakBarrier("end").content = None
      /\ WeakBarrier("end").kind = "end"
  BY DEF WeakBarrier, Op, OpType
<1> HIDE DEF q, c
<1>5. /\ new.pc = "primary" /\ new.store = c /\ new.visible = c.offsets /\ new.queue = longer
      /\ new.stat = rep.stat
  <2>1. new = [Flush(fin) EXCEPT !.queue = Append(@, WeakBarrier("end")), !.txn = NewTxn(TRUE)]
    BY DEF Committed, fin
  <2>2. /\ Flush(fin).queue = q /\ Flush(fin).pc = "primary" /\ Flush(fin).store = c
        /\ Flush(fin).visible = c.offsets /\ Flush(fin).stat = rep.stat
    BY <1>1, <1>2 DEF ReplicaType
  <2>3. DOMAIN Flush(fin) = DOMAIN fin
    BY <1>2
  <2>4. QED
    BY <1>1, <2>1, <2>2, <2>3 DEF ReplicaType
<1>6. ASSUME own PROVE QueueOrdered(longer, R, F) /\ Bounded(longer, R, F, c.offsets)
  <2>1. QueueOrdered(q, R, F) /\ Bounded(q, R, F, c.offsets)
    BY <1>1, <1>3, <1>6, FlushOrdered DEF Lasts, Ordered, c
  <2>2. QED
    BY <1>3, <1>4, <2>1, OrderedBarrier
<1>7. Kept(longer, P, own, R, F, c.offsets, Len(longer))
  <2>1. Kept(q, P, own, R, F, c.offsets, Len(q))
    BY <1>1, <1>3, FlushKept DEF c
  <2>2. Len(q) \in 0..Len(q) /\ Len(longer) = Len(q) + 1
    BY <1>3, <1>4
  <2>3. QED
    BY <1>3, <1>4, <2>1, <2>2, KeptAppend
<1>8. ASSUME NEW o, Answer(rep.queue, P, own, R, F, o) PROVE Answer(longer, P, own, R, F, o)
  <2>1. Answer(q, P, own, R, F, o)
    BY <1>1, <1>3, <1>8, FlushAnswers
  <2>2. QED
    BY <1>3, <1>4, <2>1, AnswerAppend
<1>9. ASSUME NEW o, Kept(rep.queue, P, own, R, F, o, Len(rep.queue))
      PROVE  Kept(longer, P, own, R, F, o, Len(longer))
  <2>1. Kept(q, P, own, R, F, o, Len(q))
    BY <1>1, <1>3, <1>9, FlushKeeps
  <2>2. Len(q) \in 0..Len(q) /\ Len(longer) = Len(q) + 1
    BY <1>3, <1>4
  <2>3. QED
    BY <1>3, <1>4, <2>1, <2>2, KeptAppend
<1> HIDE DEF longer
<1>10. QED
  BY <1>5, <1>6, <1>7, <1>8, <1>9 DEF Lasts, Ordered, StatsKept

\* It's preserved as a Flush fails part way.
LEMMA FailedLasts ==
    ASSUME NEW rep, NEW P, ReplicaOK(rep, P), rep.pc = "primary", kind \in Kind,
           NEW own, NEW R \in Offsets, NEW F, F # None => F \in Content,
           Lasts(rep, own, R, F, P), kind \in FlushFails,
           NEW failed \in FailedFlushes(FinalizeTxn(rep)),
           NEW new, new = [failed EXCEPT !.pc = "failed"]
    PROVE  Lasts(new, own, R, F, P)
<1> DEFINE fin == FinalizeTxn(rep)
           c == Flushing(fin)
           b == Behind(fin)
<1>1. /\ ReplicaOK(fin, P) /\ Through(fin.next) \subseteq P \cup fin.pending
      /\ fin.pc = "primary" /\ fin \in ReplicaType
      /\ fin.queue = rep.queue /\ fin.store = rep.store /\ fin.stat = rep.stat
      /\ fin.visible = rep.visible
  BY FinalizedOK DEF ReplicaOK
<1> HIDE DEF fin
<1>2. PICK q \in {b, NextWritten(fin)} :
          failed = IF kind = "json"
                   THEN [fin EXCEPT !.store = c, !.visible = c.offsets, !.queue = q]
                   ELSE [fin EXCEPT !.queue = b]
  BY <1>1, FlushShape DEF fin
<1> HIDE DEF c
<1>3. /\ new.pc = "failed" /\ new.queue = (IF kind = "json" THEN q ELSE b)
      /\ kind # "json" => new.visible = rep.visible
      /\ new.stat = rep.stat
  <2>1. /\ failed.queue = (IF kind = "json" THEN q ELSE b)
        /\ kind # "json" => failed.visible = rep.visible
        /\ failed.stat = rep.stat /\ DOMAIN failed = DOMAIN fin
    BY <1>1, <1>2 DEF ReplicaType
  <2> HIDE DEF b
  <2>2. QED
    BY <1>1, <2>1 DEF ReplicaType
<1>4. Ordered(new, own, R, F)
  BY <1>1, <1>2, <1>3, FlushOrdered DEF Lasts, Ordered
<1>5. ASSUME "json" \notin FlushFails PROVE StatsKept(new, own, R, F, P)
  <2>1. kind # "json" /\ new.queue = b /\ new.visible = rep.visible
    BY <1>3, <1>5
  <2>2. rep.queue \in Seq(OpType) /\ StrongBarrier(fin) \in OpType
    BY <1>1 DEF StrongBarrier, Op, OpType, ReplicaType
  <2>3. b = Append(rep.queue, StrongBarrier(fin))
    BY <1>1 DEF Behind
  <2>4. Len(rep.queue) \in 0..Len(rep.queue) /\ Len(b) = Len(rep.queue) + 1
    BY <2>2, <2>3
  <2>5. Kept(rep.queue, P, own, R, F, rep.visible, Len(rep.queue))
    BY <1>5 DEF Lasts, StatsKept
  <2>6. ASSUME NEW o, Kept(rep.queue, P, own, R, F, o, Len(rep.queue))
        PROVE  Kept(b, P, own, R, F, o, Len(b))
    BY <2>2, <2>3, <2>4, <2>6, KeptAppend
  <2>7. ASSUME NEW o, Answer(rep.queue, P, own, R, F, o) PROVE Answer(b, P, own, R, F, o)
    BY <1>1, <2>7, FlushAnswers
  <2> HIDE DEF b
  <2>8. QED
    BY <1>3, <1>5, <2>1, <2>5, <2>6, <2>7 DEF Lasts, StatsKept
<1>6. QED
  BY <1>4, <1>5 DEF Lasts

\* A Flush which fails leaves the Stat RPC alone.
LEMMA FailedStat ==
    ASSUME NEW rep, NEW P, ReplicaOK(rep, P), rep.pc = "primary", kind \in Kind,
           NEW failed \in FailedFlushes(FinalizeTxn(rep))
    PROVE  [failed EXCEPT !.pc = "failed"].stat = rep.stat
<1> DEFINE fin == FinalizeTxn(rep)
<1>1. /\ ReplicaOK(fin, P) /\ Through(fin.next) \subseteq P \cup fin.pending
      /\ fin.pc = "primary" /\ fin \in ReplicaType /\ fin.stat = rep.stat
  BY FinalizedOK DEF ReplicaOK
<1> HIDE DEF fin
<1>2. \E q \in {Behind(fin), NextWritten(fin)} :
          failed = IF kind = "json"
                   THEN [fin EXCEPT !.store = Flushing(fin), !.visible = Flushing(fin).offsets,
                                    !.queue = q]
                   ELSE [fin EXCEPT !.queue = Behind(fin)]
  BY <1>1, FlushShape DEF fin
<1>3. failed.stat = rep.stat /\ DOMAIN failed = DOMAIN fin
  BY <1>1, <1>2 DEF ReplicaType
<1>4. QED
  BY <1>1, <1>3 DEF ReplicaType

\* It's preserved as Stat fetches offsets.
LEMMA FetchedLasts ==
    ASSUME NEW rep \in ReplicaType, NEW own, NEW R, NEW F, NEW P, Lasts(rep, own, R, F, P),
           rep.pc # "standby", NEW new, new = Fetched(rep)
    PROVE  Lasts(new, own, R, F, P)
<1>1. /\ new.queue = rep.queue /\ new.pc = rep.pc /\ new.store = rep.store
      /\ new.visible = rep.visible /\ new.stat.offsets = rep.visible /\ new.stat.pc = "fetched"
  BY DEF Fetched, ReplicaType
<1>2. QED
  BY <1>1 DEF Lasts, Ordered, StatsKept

\* It's preserved as Stat queues its barrier.
LEMMA StattingLasts ==
    ASSUME NEW rep \in ReplicaType, NEW own, NEW R, NEW F, NEW P, Lasts(rep, own, R, F, P),
           rep.stat.pc = "fetched", NEW new, new = Statting(rep)
    PROVE  Lasts(new, own, R, F, P)
<1> DEFINE op == WeakBarrier("stat")
           longer == Append(rep.queue, op)
           o == rep.stat.offsets
<1>1. op \in OpType /\ op.content = None /\ op.kind = "stat" /\ rep.queue \in Seq(OpType)
  BY DEF WeakBarrier, Op, OpType, ReplicaType
<1> HIDE DEF op
<1>2. /\ new.queue = longer /\ new.pc = rep.pc /\ new.store = rep.store
      /\ new.visible = rep.visible /\ new.stat.offsets = o /\ new.stat.pc = "wait"
  BY DEF Statting, ReplicaType, op
<1>3. own => /\ QueueOrdered(longer, R, F)
             /\ \A x : Bounded(rep.queue, R, F, x) => Bounded(longer, R, F, x)
  BY <1>1, OrderedBarrier DEF Lasts, Ordered
<1>4. ASSUME "json" \notin FlushFails
      PROVE  /\ rep.pc # "standby" => Kept(longer, P, own, R, F, rep.visible, Len(longer))
             /\ Answer(longer, P, own, R, F, o)
  <2>1. /\ rep.pc # "standby" => Kept(rep.queue, P, own, R, F, rep.visible, Len(rep.queue))
        /\ Kept(rep.queue, P, own, R, F, o, Len(rep.queue))
    BY <1>4 DEF Lasts, StatsKept
  <2>2. Len(rep.queue) \in 0..Len(rep.queue) /\ Len(longer) = Len(rep.queue) + 1
    BY <1>1
  <2>3. QED
    BY <1>1, <2>1, <2>2, KeptAppend, AnswerBegun
<1> HIDE DEF longer, o
<1>5. QED
  BY <1>2, <1>3, <1>4 DEF Lasts, Ordered, StatsKept

\* It's preserved as the first append commits, and then what is recovered doesn't go back.
LEMMA PlayedLasts ==
    ASSUME NEW rep, NEW P, ReplicaOK(rep, P), NEW own,
           NEW R \in Offsets, NEW F, F # None => F \in Content,
           Lasts(rep, own, R, F, P), rep.queue # << >>, rep.queue[1].deps \cap rep.pending = {},
           NEW R2, own => R2 = PlayedOffsets(rep.queue[1], R, F),
           NEW F2, own => F2 = PlayedNext(rep.queue[1], F),
           NEW new, new = [rep EXCEPT !.queue = Tail(@)]
    PROVE  Lasts(new, own, R2, F2, P) /\ (own => LE(R, R2))
<1> DEFINE q == rep.queue
           shorter == Tail(q)
<1>1. q \in Seq(OpType) /\ q[1].deps \subseteq P /\ rep.visible \in Offsets /\ rep.stat.offsets \in Offsets
  <2>1. q \in Seq(OpType) /\ 1 \in 1..Len(q)
    BY DEF ReplicaOK, ReplicaType
  <2>2. QED
    BY <2>1 DEF ReplicaOK, QueueOK, ReplicaType
<1>2. /\ new.queue = shorter /\ new.pc = rep.pc /\ new.store = rep.store
      /\ new.visible = rep.visible /\ new.stat = rep.stat
  BY DEF ReplicaOK, ReplicaType
<1>3. own => /\ LE(R, R2) /\ QueueOrdered(shorter, R2, F2)
             /\ \A o : Bounded(q, R, F, o) => Bounded(shorter, R2, F2, o)
  BY <1>1, OrderedTail DEF Lasts, Ordered
<1>4. own => QueueOrdered(q, R, F)
  BY DEF Lasts, Ordered
<1>5. ASSUME "json" \notin FlushFails
      PROVE  /\ rep.pc # "standby" => Kept(shorter, P, own, R2, F2, rep.visible, Len(shorter))
             /\ rep.stat.pc = "fetched" =>
                    Kept(shorter, P, own, R2, F2, rep.stat.offsets, Len(shorter))
             /\ rep.stat.pc \in {"wait", "done"} =>
                    Answer(shorter, P, own, R2, F2, rep.stat.offsets)
  <2>1. /\ rep.pc # "standby" => Kept(q, P, own, R, F, rep.visible, Len(q))
        /\ rep.stat.pc = "fetched" => Kept(q, P, own, R, F, rep.stat.offsets, Len(q))
        /\ rep.stat.pc \in {"wait", "done"} => Answer(q, P, own, R, F, rep.stat.offsets)
    BY <1>5 DEF Lasts, StatsKept
  <2>2. Len(shorter) \in Nat /\ Len(shorter) + 1 = Len(q) /\ Len(shorter) + 1 <= Len(q)
    BY <1>1
  <2>3. ASSUME NEW o \in Offsets, Kept(q, P, own, R, F, o, Len(q))
        PROVE  Kept(shorter, P, own, R2, F2, o, Len(shorter))
    <3>1. Kept(q, P, own, R, F, o, Len(shorter) + 1)
      BY <2>2, <2>3
    <3>2. QED
      BY <1>1, <1>4, <2>2, <3>1, KeptTail
  <2>4. rep.stat.pc \in {"wait", "done"} => Answer(shorter, P, own, R2, F2, rep.stat.offsets)
    BY <1>1, <1>4, <2>1, AnswerTail
  <2> HIDE DEF shorter
  <2>5. QED
    BY <1>1, <2>1, <2>3, <2>4
<1> HIDE DEF shorter, q
<1>6. Ordered(new, own, R2, F2)
  BY <1>2, <1>3 DEF Lasts, Ordered, q
<1>7. "json" \notin FlushFails => StatsKept(new, own, R2, F2, P)
  BY <1>2, <1>5 DEF StatsKept
<1>8. QED
  BY <1>3, <1>6, <1>7 DEF Lasts

\* It holds of a replica which just recovered the Store.
LEMMA OpenedLasts ==
    ASSUME FilesOK, kind \in Kind,
           NEW new, new = [NewReplica EXCEPT !.pc = "primary",
                                             !.store = Recovered,
                                             !.visible = Recovered.offsets,
                                             !.next = LowerBounded(Recovered.offsets),
                                             !.queue = OpenOps]
    PROVE  Lasts(new, TRUE, Recovered.offsets, files.next, published)
<1> DEFINE c == Recovered
           o == c.offsets
           F == files.next
<1>1. c \in Content /\ o \in Offsets /\ Through(o) \subseteq published /\ LE(o, o)
  BY RecoveredOK, LERefl DEF Content
<1>2. /\ new.pc = "primary" /\ new.store = c /\ new.visible = o /\ new.queue = OpenOps
      /\ new.stat.pc = "idle"
  BY DEF NewReplica
<1>3. QueueOrdered(OpenOps, o, F) /\ Bounded(OpenOps, o, F, o)
  <2>1. CASE OpenOps = << >>
    BY <1>1, <2>1 DEF QueueOrdered, Bounded
  <2>2. CASE kind = "json" /\ files.state # None
    <3>1. c = files.state /\ OpenOps = <<Op("next", {}, c), Op("rename", {}, None)>>
      BY <2>2 DEF OpenOps, FlushOps, Recovered
    <3>2. /\ Op("next", {}, c).kind = "next" /\ Op("next", {}, c).content = c
          /\ Op("rename", {}, None).kind = "rename" /\ Op("rename", {}, None).content = None
      BY DEF Op
    <3>3. c # None
      BY <2>2, <3>1
    <3> HIDE DEF c
    <3>4. /\ Len(OpenOps) = 2 /\ 1..Len(OpenOps) = {1, 2}
          /\ OpenOps[1].kind = "next" /\ OpenOps[1].content = c
          /\ OpenOps[2].kind = "rename" /\ OpenOps[2].content = None /\ 2 - 1 = 1
      BY <3>1, <3>2
    <3>5. QED
      BY <1>1, <3>3, <3>4 DEF QueueOrdered, Bounded
  <2>3. QED
    BY <2>1, <2>2 DEF OpenOps
<1>4. Kept(OpenOps, published, TRUE, o, F, o, Len(OpenOps))
  BY <1>1 DEF Kept, Sent, Lasting
<1> HIDE DEF c, o, F
<1>5. Lasts(new, TRUE, o, F, published)
  BY <1>2, <1>3, <1>4 DEF Lasts, Ordered, StatsKept, o
<1>6. QED
  BY <1>5 DEF o, c, F

-----------------------------------------------------------------------------
\* The inductive invariant, together with that of ConsumerTxnProofs.
LastsInv ==
    \A r \in Replica : Lasts(replicas[r], owner = r, Recovered.offsets, files.next, published)

\* Of a replica which doesn't own the log, it says nothing about what is recovered.
LEMMA Disowned ==
    ASSUME NEW rep, NEW R, NEW F, NEW P, Lasts(rep, FALSE, R, F, P), NEW R2, NEW F2
    PROVE  Lasts(rep, FALSE, R2, F2, P)
<1>1. \A o, n : Kept(rep.queue, P, FALSE, R, F, o, n) => Kept(rep.queue, P, FALSE, R2, F2, o, n)
  BY DEF Kept
<1>2. \A o : Answer(rep.queue, P, FALSE, R, F, o) => Answer(rep.queue, P, FALSE, R2, F2, o)
  BY <1>1 DEF Answer
<1>3. QED
  BY <1>1, <1>2 DEF Lasts, Ordered, StatsKept

\* What is recovered, and the next file, are contents.
LEMMA FilesType ==
    ASSUME Inv
    PROVE  /\ Recovered \in Content /\ Recovered.offsets \in Offsets
           /\ files.next # None => files.next \in Content
BY RecoveredOK DEF Inv, FilesOK, Content

\* A step of one replica which preserves its part preserves the invariant.
LEMMA LastsStepOf ==
    ASSUME Inv, LastsInv, NEW r \in Replica, NEW new, replicas' = [replicas EXCEPT ![r] = new],
           published \subseteq published', UNCHANGED <<owner, files>>,
           Lasts(new, owner = r, Recovered.offsets, files.next, published')
    PROVE  LastsInv' /\ LE(Recovered.offsets, Recovered'.offsets)
<1>1. \A q \in Replica : replicas'[q] = IF q = r THEN new ELSE replicas[q]
  BY DEF Inv, TypeOK
<1>2. Recovered' = Recovered
  BY DEF Recovered
<1>3. ASSUME NEW q \in Replica, q # r
      PROVE  Lasts(replicas[q], owner = q, Recovered.offsets, files.next, published')
  <2> DEFINE rep == replicas[q]
             own == owner = q
             R == Recovered.offsets
  <2>1. Lasts(rep, own, R, files.next, published)
    BY DEF LastsInv
  <2> HIDE DEF rep, own, R
  <2>2. Lasts(rep, own, R, files.next, published')
    BY <2>1, LastsSame
  <2>3. QED
    BY <2>2 DEF rep, own, R
<1>4. LastsInv'
  BY <1>1, <1>2, <1>3 DEF LastsInv
<1>5. QED
  BY <1>2, <1>4, FilesType, LERefl

\* ConsumeMessage leaves the queue and the Store's offsets alone.
KeepsOffsets(rep, x) ==
    /\ x.pc = rep.pc /\ x.store.offsets = rep.store.offsets
    /\ x.queue = rep.queue /\ x.visible = rep.visible /\ x.stat = rep.stat

\* A message which is consumed has no effect on what is committed.
LEMMA ConsumedSame ==
    ASSUME NEW rep \in ReplicaType, NEW s, NEW msg, NEW x, x = ConsumeMessage(rep, s, msg)
    PROVE  KeepsOffsets(rep, x)
<1> DEFINE store == [rep.store EXCEPT !.applied[msg] = @ + 1]
           next == [rep.next EXCEPT ![s] = @ + 1]
           pending == IF holds THEN rep.pending ELSE rep.pending \cup {msg}
           txn == [rep.txn EXCEPT !.held = IF holds THEN @ \cup {msg} ELSE @,
                                  !.begun = TRUE, !.offsets[s] = rep.next[s] + 1]
           new == [rep EXCEPT !.store = store, !.next = next, !.pending = pending, !.txn = txn]
<1>1. ConsumeMessage(rep, s, msg) = new
  BY DEF ConsumeMessage
<1>2. store.offsets = rep.store.offsets
  BY DEF ReplicaType, Content
<1> HIDE DEF store, next, pending, txn
<1>3. /\ new.pc = rep.pc /\ new.store = store
      /\ new.queue = rep.queue /\ new.visible = rep.visible /\ new.stat = rep.stat
  BY DEF ReplicaType
<1> HIDE DEF new
<1>4. QED
  BY <1>1, <1>2, <1>3 DEF KeepsOffsets

\* Steps of txnStep and Stat preserve the invariant.
LEMMA LastsReplicaStep ==
    ASSUME Inv, LastsInv, NEW r \in Replica, txnStep(r) \/ Stat(r)
    PROVE  LastsInv' /\ LE(Recovered.offsets, Recovered'.offsets)
<1> DEFINE rep == replicas[r]
           own == owner = r
           R == Recovered.offsets
           F == files.next
           P == published
<1>0. /\ rep \in ReplicaType /\ ReplicaOK(rep, P) /\ kind \in Kind /\ holds \in BOOLEAN
      /\ replicas \in [Replica -> ReplicaType] /\ Lasts(rep, own, R, F, P)
      /\ R \in Offsets /\ (F # None => F \in Content)
  BY TxnAssumption, FilesType DEF Inv, TypeOK, LastsInv
<1>1. published' = published /\ UNCHANGED <<owner, files>>
  BY DEF txnStep, Stat, Receive, Tick, PriorDone, Commit, CommitFails, Fail, StatFetch,
         StatBarrier, StatReturn
<1>2. ASSUME NEW new, replicas' = [replicas EXCEPT ![r] = new], Lasts(new, own, R, F, P)
      PROVE  LastsInv' /\ LE(Recovered.offsets, Recovered'.offsets)
  BY <1>1, <1>2, LastsStepOf
<1> HIDE DEF own, R, F, P
<1>3. ASSUME NEW new, replicas' = [replicas EXCEPT ![r] = new],
             new.queue = rep.queue, new.visible = rep.visible,
             new.stat.offsets = rep.stat.offsets,
             new.stat.pc = "fetched" => rep.stat.pc = "fetched",
             new.stat.pc \in {"wait", "done"} => rep.stat.pc \in {"wait", "done"},
             rep.pc = "standby" => new.pc = "standby",
             new.pc = "primary" => rep.pc = "primary" /\ new.store.offsets = rep.store.offsets
      PROVE  LastsInv' /\ LE(Recovered.offsets, Recovered'.offsets)
  <2>1. Lasts(new, own, R, F, P)
    BY <1>0, <1>3, LastsSame
  <2>2. QED
    BY <1>2, <1>3, <2>1
<1>4. ASSUME NEW s \in Source, Receive(r, s)
      PROVE  LastsInv' /\ LE(Recovered.offsets, Recovered'.offsets)
  <2> DEFINE msg == NextMessage(rep, s)
             new == ConsumeMessage(rep, s, msg)
  <2>1. replicas' = [replicas EXCEPT ![r] = new] /\ msg \in Message
    BY <1>4 DEF Receive
  <2>2. new = ConsumeMessage(rep, s, msg)
    OBVIOUS
  <2> HIDE DEF new, msg
  <2>3. /\ new.pc = rep.pc /\ new.store.offsets = rep.store.offsets
        /\ new.queue = rep.queue /\ new.visible = rep.visible /\ new.stat = rep.stat
    <3>1. rep \in ReplicaType
      BY <1>0
    <3> HIDE DEF rep
    <3>2. KeepsOffsets(rep, new)
      BY <2>2, <3>1, ConsumedSame
    <3>3. QED
      BY <3>2 DEF KeepsOffsets
  <2>4. QED
    BY <1>3, <2>1, <2>3
<1>5. CASE Tick(r) \/ PriorDone(r)
  <2>1. PICK txn : replicas' = [replicas EXCEPT ![r].txn = txn]
    <3>1. CASE Tick(r)
      <4>1. PICK max \in BOOLEAN :
                replicas' = [replicas EXCEPT ![r].txn = [@ EXCEPT !.min = TRUE, !.max = max]]
        BY <3>1 DEF Tick
      <4>2. QED
        BY <4>1
    <3>2. CASE PriorDone(r)
      BY <3>2 DEF PriorDone
    <3>3. QED
      BY <1>5, <3>1, <3>2
  <2> DEFINE new == [rep EXCEPT !.txn = txn]
  <2>2. replicas' = [replicas EXCEPT ![r] = new]
    BY <2>1
  <2>3. /\ new.pc = rep.pc /\ new.store = rep.store
        /\ new.queue = rep.queue /\ new.visible = rep.visible /\ new.stat = rep.stat
    BY <1>0 DEF ReplicaType
  <2> HIDE DEF new
  <2>4. QED
    BY <1>3, <2>2, <2>3
<1>6. CASE Commit(r)
  <2>1. replicas' = [replicas EXCEPT ![r] = Committed(rep)] /\ rep.pc = "primary"
    BY <1>6 DEF Commit, MayCommit
  <2>2. Lasts(Committed(rep), own, R, F, P)
    BY <1>0, <2>1, CommittedLasts
  <2>3. QED
    BY <1>2, <2>1, <2>2
<1>7. CASE CommitFails(r)
  <2>1. PICK failed \in FailedFlushes(FinalizeTxn(rep)) :
            replicas' = [replicas EXCEPT ![r] = [failed EXCEPT !.pc = "failed"]]
    BY <1>7 DEF CommitFails
  <2>2. rep.pc = "primary" /\ kind \in FlushFails
    BY <1>7 DEF CommitFails, MayCommit
  <2>3. Lasts([failed EXCEPT !.pc = "failed"], own, R, F, P)
    BY <1>0, <2>2, FailedLasts
  <2>4. QED
    BY <1>2, <2>1, <2>3
<1>8. CASE Fail(r)
  <2> DEFINE new == [rep EXCEPT !.pc = "failed"]
  <2>1. replicas' = [replicas EXCEPT ![r] = new] /\ rep.pc = "primary"
    BY <1>8 DEF Fail
  <2>2. /\ new.pc = "failed" /\ new.queue = rep.queue /\ new.visible = rep.visible
        /\ new.stat = rep.stat
    BY <1>0 DEF ReplicaType
  <2> HIDE DEF new
  <2>3. QED
    BY <1>3, <2>1, <2>2
<1>9. CASE StatFetch(r)
  <2>1. replicas' = [replicas EXCEPT ![r] = Fetched(rep)] /\ rep.pc # "standby"
    BY <1>9 DEF StatFetch
  <2>2. Lasts(Fetched(rep), own, R, F, P)
    BY <1>0, <2>1, FetchedLasts
  <2>3. QED
    BY <1>2, <2>1, <2>2
<1>10. CASE StatBarrier(r)
  <2>1. replicas' = [replicas EXCEPT ![r] = Statting(rep)] /\ rep.stat.pc = "fetched"
    BY <1>10 DEF StatBarrier
  <2>2. Lasts(Statting(rep), own, R, F, P)
    BY <1>0, <2>1, StattingLasts
  <2>3. QED
    BY <1>2, <2>1, <2>2
<1>11. CASE StatReturn(r)
  <2> DEFINE stat == [rep.stat EXCEPT !.pc = "done"]
             new == [rep EXCEPT !.stat = stat]
  <2>1. replicas' = [replicas EXCEPT ![r] = new] /\ rep.stat.pc = "wait"
    BY <1>11 DEF StatReturn, Returned
  <2>2. stat.offsets = rep.stat.offsets /\ stat.pc = "done"
    BY <1>0 DEF ReplicaType
  <2> HIDE DEF stat
  <2>3. /\ new.pc = rep.pc /\ new.store = rep.store
        /\ new.queue = rep.queue /\ new.visible = rep.visible /\ new.stat = stat
    BY <1>0 DEF ReplicaType
  <2> HIDE DEF new
  <2>4. QED
    BY <1>3, <2>1, <2>2, <2>3
<1>12. QED
  BY <1>4, <1>5, <1>6, <1>7, <1>8, <1>9, <1>10, <1>11 DEF txnStep, Stat

\* What is recovered once an append of the owner is played.
LEMMA RecoveredAs ==
    ASSUME Inv, NEW q \in Seq(OpType), q # << >>, QueueOrdered(q, Recovered.offsets, files.next),
           files' = Played(q[1])
    PROVE  /\ Recovered'.offsets = PlayedOffsets(q[1], Recovered.offsets, files.next)
           /\ files'.next = PlayedNext(q[1], files.next)
<1>1. files \in [next : Content \cup {None}, state : Content \cup {None}]
  BY DEF Inv, TypeOK
<1>2. 1 \in 1..Len(q)
  OBVIOUS
<1>3. CASE q[1].kind = "next"
  BY <1>1, <1>3 DEF Played, Recovered, PlayedOffsets, PlayedNext
<1>4. CASE q[1].kind = "rename"
  <2>1. files.next # None /\ files' = [files EXCEPT !.next = None, !.state = files.next]
    BY <1>2, <1>4 DEF QueueOrdered, Played
  <2>2. files'.next = None /\ files'.state = files.next
    BY <1>1, <2>1
  <2>3. QED
    BY <1>4, <2>1, <2>2 DEF Recovered, PlayedOffsets, PlayedNext
<1>5. CASE q[1].kind = "wal"
  <2>1. q[1].content # None /\ files' = [files EXCEPT !.state = q[1].content]
    BY <1>2, <1>5 DEF QueueOrdered, Played
  <2>2. files'.next = files.next /\ files'.state = q[1].content
    BY <1>1, <2>1
  <2>3. QED
    BY <1>5, <2>1, <2>2 DEF Recovered, PlayedOffsets, PlayedNext
<1>6. CASE q[1].kind \notin {"next", "rename", "wal"}
  BY <1>6 DEF Played, Recovered, PlayedOffsets, PlayedNext
<1>7. QED
  BY <1>3, <1>4, <1>5, <1>6

\* Recovery, and commits of appends, preserve the invariant.
LEMMA LastsJournalStep ==
    ASSUME Inv, LastsInv, NEW r \in Replica, completePlayback(r) \/ Appends(r)
    PROVE  LastsInv' /\ LE(Recovered.offsets, Recovered'.offsets)
<1> DEFINE rep == replicas[r]
           own == owner = r
           R == Recovered.offsets
           F == files.next
           P == published
<1>0. /\ rep \in ReplicaType /\ ReplicaOK(rep, P) /\ kind \in Kind
      /\ replicas \in [Replica -> ReplicaType] /\ Lasts(rep, own, R, F, P)
      /\ R \in Offsets /\ (F # None => F \in Content) /\ owner \in 0..Primaries
      /\ (r <= owner \/ rep = NewReplica) /\ Primaries \in Nat
  BY TxnAssumption, FilesType DEF Inv, TypeOK, LastsInv, Standbys, Replica
<1>1. CASE completePlayback(r)
  <2> DEFINE new == [NewReplica EXCEPT !.pc = "primary",
                                       !.store = Recovered,
                                       !.visible = Recovered.offsets,
                                       !.next = LowerBounded(Recovered.offsets),
                                       !.queue = OpenOps]
  <2>0. rep = NewReplica /\ owner' = r /\ owner # r
    BY <1>0, <1>1 DEF completePlayback, Replica
  <2>1. /\ rep = NewReplica /\ owner' = r /\ owner # r
        /\ UNCHANGED <<files, published>> /\ replicas' = [replicas EXCEPT ![r] = new]
    BY <1>1, <2>0 DEF completePlayback
  <2>2. Lasts(new, TRUE, R, F, P)
    BY <1>0, OpenedLasts DEF Inv
  <2>3. \A q \in Replica : replicas'[q] = IF q = r THEN new ELSE replicas[q]
    BY <1>0, <2>1
  <2>4. Recovered' = Recovered /\ files' = files /\ published' = published
    BY <2>1 DEF Recovered
  <2> HIDE DEF new, R, F, P
  <2>5. ASSUME NEW q \in Replica, q # r PROVE Lasts(replicas[q], FALSE, R, F, P)
    <3> DEFINE other == replicas[q]
               owned == owner = q
    <3>1. Lasts(other, owned, R, F, P)
      BY DEF LastsInv, R, F, P
    <3> HIDE DEF other, owned
    <3>2. Lasts(other, FALSE, R, F, P)
      BY <3>1, LastsSame
    <3>3. QED
      BY <3>2 DEF other
  <2>6. ASSUME NEW q \in Replica PROVE Lasts(replicas'[q], owner' = q, R, F, P)
    <3>1. CASE q = r
      <4>1. (owner' = q) = TRUE
        BY <2>1, <3>1
      <4>2. QED
        BY <2>2, <2>3, <3>1, <4>1
    <3>2. CASE q # r
      <4>1. (owner' = q) = FALSE
        BY <2>1, <3>2
      <4>2. QED
        BY <2>3, <2>5, <3>2, <4>1
    <3>3. QED
      BY <3>1, <3>2
  <2>7. LastsInv'
    BY <2>4, <2>6 DEF LastsInv, R, F, P
  <2>8. QED
    BY <1>0, <2>4, <2>7, LERefl DEF R
<1>2. ASSUME NEW msg \in Message, CommitOutput(r, msg)
      PROVE  LastsInv' /\ LE(Recovered.offsets, Recovered'.offsets)
  <2> DEFINE new == [rep EXCEPT !.pending = @ \ {msg}]
  <2>1. /\ replicas' = [replicas EXCEPT ![r] = new] /\ P \subseteq published'
        /\ UNCHANGED <<owner, files>>
    BY <1>2 DEF CommitOutput
  <2>2. /\ new.pc = rep.pc /\ new.store = rep.store
        /\ new.queue = rep.queue /\ new.visible = rep.visible /\ new.stat = rep.stat
    BY <1>0 DEF ReplicaType
  <2>3. Lasts(new, own, R, F, published')
    <3> HIDE DEF new, own, R, F
    <3>1. QED
      BY <1>0, <2>1, <2>2, LastsSame
  <2> HIDE DEF new
  <2>4. QED
    BY <2>1, <2>3, LastsStepOf
<1>3. CASE CommitLog(r)
  <2> DEFINE q == rep.queue
             new == [rep EXCEPT !.queue = Tail(@)]
  <2>1. /\ q # << >> /\ q[1].deps \cap rep.pending = {} /\ q \in Seq(OpType)
        /\ replicas' = [replicas EXCEPT ![r] = new]
        /\ owner' = owner /\ published' = published
        /\ files' = IF owner = r THEN Played(q[1]) ELSE files
    BY <1>0, <1>3 DEF CommitLog, ReplicaType
  <2>2. \A i \in Replica : replicas'[i] = IF i = r THEN new ELSE replicas[i]
    BY <1>0, <2>1
  <2> DEFINE R2 == Recovered'.offsets
             F2 == files'.next
  <2>3. own => R2 = PlayedOffsets(q[1], R, F) /\ F2 = PlayedNext(q[1], F)
    BY <1>0, <2>1, RecoveredAs DEF Lasts, Ordered
  <2>4. ~own => R2 = R /\ F2 = F
    BY <2>1 DEF Recovered
  <2> HIDE DEF R, F, P, R2, F2, own
  <2>5. Lasts(new, own, R2, F2, P) /\ (own => LE(R, R2))
    BY <1>0, <2>1, <2>3, PlayedLasts
  <2>6. LE(R, R2)
    BY <1>0, <2>4, <2>5, LERefl
  <2>7. ASSUME NEW i \in Replica PROVE Lasts(replicas'[i], owner = i, R2, F2, P)
    <3>1. CASE i = r
      BY <2>2, <2>5, <3>1 DEF own
    <3>2. CASE i # r
      <4>1. Lasts(replicas[i], owner = i, R, F, P)
        BY DEF LastsInv, R, F, P
      <4>2. CASE own
        <5>1. (owner = i) = FALSE
          BY <3>2, <4>2 DEF own
        <5>2. QED
          BY <2>2, <3>2, <4>1, <5>1, Disowned
      <4>3. CASE ~own
        BY <2>2, <2>4, <3>2, <4>1, <4>3
      <4>4. QED
        BY <4>2, <4>3
    <3>3. QED
      BY <3>1, <3>2
  <2>8. LastsInv'
    BY <2>1, <2>7 DEF LastsInv, R2, F2, P
  <2>9. QED
    BY <2>6, <2>8 DEF R, R2
<1>4. QED
  BY <1>1, <1>2, <1>3 DEF Appends

\* The invariant holds initially.
LEMMA InitLasts == Init => LastsInv
<1> SUFFICES ASSUME Init, NEW r \in Replica
             PROVE  Lasts(replicas[r], owner = r, Recovered.offsets, files.next, published)
  BY DEF LastsInv
<1>1. replicas[r] = NewReplica /\ owner # r
  BY TxnAssumption DEF Init, Replica
<1>2. QED
  BY <1>1, Idle DEF Lasts, Ordered, StatsKept

\* Every step preserves the invariant, and what is recovered doesn't go back.
LEMMA LastsStep ==
    ASSUME Inv, LastsInv, [Next]_vars
    PROVE  LastsInv' /\ LE(Recovered.offsets, Recovered'.offsets)
<1>1. CASE UNCHANGED vars
  <2>1. Recovered' = Recovered
    BY <1>1 DEF vars, Recovered
  <2>2. LastsInv'
    BY <1>1, <2>1 DEF vars, LastsInv
  <2>3. QED
    BY <2>1, <2>2, FilesType, LERefl
<1>2. QED
  BY <1>1, LastsReplicaStep, LastsJournalStep DEF Next

\* The invariant holds always.
THEOREM LastsInvariant == Spec => [](Inv /\ LastsInv)
<1>1. Inv /\ LastsInv /\ [Next]_vars => LastsInv'
  BY LastsStep
<1>2. QED
  BY <1>1, InitLasts, Invariant, PTL DEF Spec

\* No step makes the offsets which would be recovered go back: no message which was committed is
\* forgotten, by a crash, or by a handoff of the log (store.Flush, completePlayback).
THEOREM OffsetsNeverRewind == Spec => NeverRewinds
<1>1. Inv /\ LastsInv /\ [Next]_vars =>
          [\A s \in Source : Recovered.offsets[s] <= Recovered'.offsets[s]]_vars
  BY LastsStep DEF LE
<1>2. QED
  BY <1>1, LastsInvariant, PTL DEF Spec, NeverRewinds

\* A Stat RPC is done only as it returns.
LEMMA StatStep ==
    ASSUME Inv, LastsInv, NEW q \in Replica, NEW r \in Replica, replicas'[r].stat.pc = "done",
           completePlayback(q) \/ txnStep(q) \/ Appends(q) \/ Stat(q)
    PROVE  StatReturn(r) \/ replicas'[r].stat = replicas[r].stat
<1> DEFINE rep == replicas[q]
           R == Recovered.offsets
<1>0. /\ rep \in ReplicaType /\ ReplicaOK(rep, published) /\ kind \in Kind /\ holds \in BOOLEAN
      /\ replicas \in [Replica -> ReplicaType] /\ Lasts(rep, owner = q, R, files.next, published)
      /\ R \in Offsets /\ (files.next # None => files.next \in Content)
  BY TxnAssumption, FilesType DEF Inv, TypeOK, LastsInv
<1>1. ASSUME NEW new, replicas' = [replicas EXCEPT ![q] = new], new.stat = rep.stat
      PROVE  replicas'[r].stat = replicas[r].stat
  BY <1>0, <1>1
<1>2. CASE completePlayback(q)
  BY <1>0, <1>2 DEF completePlayback, ReplicaType
<1>3. ASSUME NEW s \in Source, Receive(q, s) PROVE replicas'[r].stat = replicas[r].stat
  <2> DEFINE msg == NextMessage(rep, s)
             new == ConsumeMessage(rep, s, msg)
  <2>1. replicas' = [replicas EXCEPT ![q] = new] /\ msg \in Message
    BY <1>3 DEF Receive
  <2>2. new = ConsumeMessage(rep, s, msg)
    OBVIOUS
  <2> HIDE DEF new, msg
  <2>3. /\ new.pc = rep.pc /\ new.store.offsets = rep.store.offsets
        /\ new.queue = rep.queue /\ new.visible = rep.visible /\ new.stat = rep.stat
    <3>1. rep \in ReplicaType
      BY <1>0
    <3> HIDE DEF rep
    <3>2. KeepsOffsets(rep, new)
      BY <2>2, <3>1, ConsumedSame
    <3>3. QED
      BY <3>2 DEF KeepsOffsets
  <2>4. QED
    BY <1>1, <2>1, <2>3
<1>4. CASE Tick(q) \/ PriorDone(q) \/ Fail(q)
  <2>1. CASE Tick(q)
    <3>1. PICK max \in BOOLEAN :
              replicas' = [replicas EXCEPT ![q].txn = [@ EXCEPT !.min = TRUE, !.max = max]]
      BY <2>1 DEF Tick
    <3>2. QED
      BY <1>0, <3>1 DEF ReplicaType
  <2>2. CASE PriorDone(q)
    BY <1>0, <2>2 DEF PriorDone, ReplicaType
  <2>3. CASE Fail(q)
    BY <1>0, <2>3 DEF Fail, ReplicaType
  <2>4. QED
    BY <1>4, <2>1, <2>2, <2>3
<1>5. CASE Commit(q)
  <2> DEFINE new == Committed(rep)
  <2>1. replicas' = [replicas EXCEPT ![q] = new] /\ rep.pc = "primary"
    BY <1>5 DEF Commit, MayCommit
  <2>2. new = Committed(rep)
    OBVIOUS
  <2> HIDE DEF new
  <2>3. Lasts(new, owner = q, R, files.next, published) /\ new.stat = rep.stat
    <3> HIDE DEF rep, R
    <3>1. QED
      BY <1>0, <2>1, <2>2, CommittedLasts
  <2>4. QED
    BY <1>1, <2>1, <2>3
<1>6. CASE CommitFails(q)
  <2>1. PICK failed \in FailedFlushes(FinalizeTxn(rep)) :
            replicas' = [replicas EXCEPT ![q] = [failed EXCEPT !.pc = "failed"]]
    BY <1>6 DEF CommitFails
  <2>2. rep.pc = "primary" /\ kind \in FlushFails
    BY <1>6 DEF CommitFails, MayCommit
  <2> DEFINE new == [failed EXCEPT !.pc = "failed"]
  <2>3. new.stat = rep.stat
    BY <1>0, <2>2, FailedStat
  <2> HIDE DEF new
  <2>4. QED
    BY <1>1, <2>1, <2>3 DEF new
<1>7. ASSUME NEW msg, CommitOutput(q, msg) PROVE replicas'[r].stat = replicas[r].stat
  BY <1>0, <1>7 DEF CommitOutput, ReplicaType
<1>8. CASE CommitLog(q)
  BY <1>0, <1>8 DEF CommitLog, ReplicaType
<1>9. CASE StatBarrier(q)
  <2>1. replicas' = [replicas EXCEPT ![q] = Statting(rep)] /\ Statting(rep).stat.pc = "wait"
    BY <1>0, <1>9 DEF StatBarrier, Statting, ReplicaType
  <2>2. QED
    BY <1>0, <2>1
<1>10. CASE StatFetch(q)
  <2>1. replicas' = [replicas EXCEPT ![q] = Fetched(rep)] /\ Fetched(rep).stat.pc = "fetched"
    BY <1>0, <1>10 DEF StatFetch, Fetched, ReplicaType
  <2>2. QED
    BY <1>0, <2>1
<1>11. CASE StatReturn(q)
  BY <1>0, <1>11 DEF StatReturn
<1>12. QED
  BY <1>2, <1>3, <1>4, <1>5, <1>6, <1>7, <1>8, <1>9, <1>10, <1>11 DEF txnStep, Appends, Stat

\* StatIsDurable is preserved by every step: as Stat returns, its barrier and so all before it
\* have committed.
LEMMA DurableStep ==
    ASSUME "json" \notin FlushFails, Inv, LastsInv, StatIsDurable, [Next]_vars
    PROVE  StatIsDurable'
<1>1. CASE UNCHANGED vars
  BY <1>1 DEF vars, StatIsDurable, Recovered
<1>2. ASSUME NEW q \in Replica, completePlayback(q) \/ txnStep(q) \/ Appends(q) \/ Stat(q),
             NEW r \in Replica, replicas'[r].stat.pc = "done"
      PROVE  /\ Through(replicas'[r].stat.offsets) \subseteq published'
             /\ owner' = r => LE(replicas'[r].stat.offsets, Recovered'.offsets)
  <2> DEFINE o == replicas[r].stat.offsets
             R == Recovered.offsets
             R2 == Recovered'.offsets
             now == replicas'[r].stat.offsets
  <2>0. o \in Offsets /\ R \in Offsets /\ R2 \in Offsets /\ LE(R, R2)
    <3>1. Inv'
      BY <1>2, ReplicaStep, JournalStep
    <3>2. Recovered' \in Content
      BY <3>1, BlankType DEF Inv, FilesOK, Recovered
    <3>3. QED
      BY <1>2, <3>2, FilesType, LastsStep DEF Inv, TypeOK, ReplicaType, Next, Content
  <2>1. published \subseteq published'
    BY <1>2 DEF completePlayback, txnStep, Appends, Stat, Receive, Tick, PriorDone, Commit,
                CommitFails, Fail, CommitOutput, CommitLog, StatFetch, StatBarrier,
                  StatReturn
  <2>2. CASE StatReturn(r)
    <3> DEFINE queue == replicas[r].queue
    <3>1. /\ replicas[r].stat.pc = "wait" /\ now = o /\ owner' = owner
          /\ \A i \in DOMAIN queue : queue[i].kind # "stat"
      BY <2>2 DEF StatReturn, Returned, Inv, TypeOK, ReplicaType
    <3>2. queue \in Seq(OpType)
      BY DEF Inv, TypeOK, ReplicaType
    <3>3. Answer(queue, published, owner = r, R, files.next, o)
      BY <3>1 DEF LastsInv, Lasts, StatsKept
    <3>4. Kept(queue, published, owner = r, R, files.next, o, 0)
      <4>1. 0 \in 0..Len(queue) /\ DOMAIN queue = 1..Len(queue)
        BY <3>2
      <4>2. QED
        BY <3>1, <3>3, <4>1 DEF Answer
    <3>5. Through(o) \subseteq published /\ (owner = r => LE(o, R))
      BY <3>4 DEF Kept, Sent, Lasting
    <3>6. QED
      BY <2>0, <2>1, <3>1, <3>5, LETrans
  <2>3. CASE replicas'[r].stat = replicas[r].stat
    <3>1. now = o /\ replicas[r].stat.pc = "done"
      BY <1>2, <2>3
    <3>2. Through(o) \subseteq published /\ (owner = r => LE(o, R))
      BY <3>1 DEF StatIsDurable, LE
    <3>3. owner' = r => owner = r
      <4>1. CASE owner' = owner
        BY <4>1
      <4>2. CASE completePlayback(q)
        <5>1. q > owner /\ owner' = q
          BY <4>2, TxnAssumption DEF completePlayback, Inv, TypeOK
        <5>2. replicas[q].stat.pc = "idle"
          BY <5>1, Idle DEF Inv, Standbys
        <5>3. QED
          BY <3>1, <5>1, <5>2
      <4>3. QED
        BY <1>2, <4>1, <4>2 DEF txnStep, Appends, Stat, Receive, Tick, PriorDone, Commit,
                  CommitFails, Fail, CommitOutput, CommitLog, StatFetch, StatBarrier,
                  StatReturn
    <3>4. QED
      BY <2>0, <2>1, <3>1, <3>2, <3>3, LETrans
  <2>4. QED
    BY <1>2, <2>2, <2>3, StatStep
<1>3. QED
  BY <1>1, <1>2 DEF Next, StatIsDurable, LE

\* Unless the JSON store's Flush fails, offsets which Stat returned are durable: all which was
\* appended in processing through them has committed, to other journals and to the recovery log
\* (shard_api.go, Stat).
THEOREM StatsAreDurable == "json" \notin FlushFails => (Spec => []StatIsDurable)
<1>1. Init => StatIsDurable
  BY Idle DEF Init, StatIsDurable
<1>2. "json" \notin FlushFails /\ Inv /\ LastsInv /\ StatIsDurable /\ [Next]_vars => StatIsDurable'
  BY DurableStep
<1>3. ASSUME "json" \notin FlushFails PROVE Spec => []StatIsDurable
  <2>1. Inv /\ LastsInv /\ StatIsDurable /\ [Next]_vars => StatIsDurable'
    BY <1>2, <1>3
  <2>2. QED
    BY <1>1, <2>1, LastsInvariant, PTL DEF Spec
<1>4. QED
  BY <1>3
=============================================================================
