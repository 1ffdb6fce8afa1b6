---------------------------- MODULE SpoolProofs ----------------------------
(***************************************************************************)
(* What the operations of Spool preserve, for every content, proposal and  *)
(* codec.  SpoolOK is what spool.go calls a consistent, valid Fragment: its *)
(* conjuncts relate the Fragment, the File and the digests of a Spool.     *)
(***************************************************************************)
EXTENDS Spool, SequenceTheorems, TLAPS

\* The Sum of a Fragment is that of the bytes committed to its File.
SumOK(s) == s.frag.sum = IF ContentLength(s.frag) = 0 THEN ZeroSum
                                                      ELSE SHA1(CommittedContent(s))

SpoolOK(s) ==
    /\ s \in SpoolType
    /\ s.frag.begin <= s.frag.end
    /\ ContentLength(s.frag) + s.delta <= Len(s.file)
    /\ s.sumState = CommittedContent(s)
    /\ s.summer = Section(s.file, 0, ContentLength(s.frag) + s.delta)
    /\ SumOK(s)

-----------------------------------------------------------------------------
(* Files.                                                                  *)

\* A section reader over the start of a file reads as many bytes as it's asked.
LEMMA SectionProperties ==
    ASSUME NEW file \in Seq(Byte), NEW n \in 0..Len(file)
    PROVE  /\ Section(file, 0, n) \in Seq(Byte)
           /\ Len(Section(file, 0, n)) = n
           /\ \A i \in 1..n : Section(file, 0, n)[i] = file[i]
<1>1. \A i \in 1..n : file[i] \in Byte
  BY ElementOfSeq, LenProperties
<1>2. n \in Int /\ 1 \in Int
  BY LenProperties
<1>3. /\ SubSeq(file, 1, n) \in Seq(Byte)
      /\ Len(SubSeq(file, 1, n)) = IF 1 <= n THEN n - 1 + 1 ELSE 0
      /\ \A i \in 1..(n - 1 + 1) : SubSeq(file, 1, n)[i] = file[1 + i - 1]
  BY <1>1, <1>2, SubSeqProperties
<1>4. Section(file, 0, n) = SubSeq(file, 1, n)
  BY <1>2 DEF Section
<1> QED
  BY <1>2, <1>3, <1>4

\* Content is written where WriteAt is told, and what is before it is kept.
LEMMA WriteAtProperties ==
    ASSUME NEW file \in Seq(Byte), NEW content \in Seq(Byte), NEW at \in 0..Len(file)
    PROVE  /\ WriteAt(file, content, at) \in Seq(Byte)
           /\ at + Len(content) <= Len(WriteAt(file, content, at))
           /\ \A i \in 1..at : WriteAt(file, content, at)[i] = file[i]
           /\ \A i \in 1..Len(content) : WriteAt(file, content, at)[at + i] = content[i]
<1> DEFINE pre == SubSeq(file, 1, at)
           post == SubSeq(file, at + Len(content) + 1, Len(file))
<1>1. Len(file) \in Nat /\ Len(content) \in Nat /\ at \in Nat
  BY LenProperties
<1>2. /\ pre \in Seq(Byte) /\ Len(pre) = at
      /\ \A i \in 1..at : pre[i] = file[i]
  BY SectionProperties, <1>1 DEF Section
<1>3. post \in Seq(Byte)
  <2>1. \A i \in (at + Len(content) + 1)..Len(file) : file[i] \in Byte
    BY <1>1, ElementOfSeq
  <2> QED
    BY <1>1, <2>1, SubSeqProperties
<1>4. /\ pre \o content \in Seq(Byte)
      /\ Len(pre \o content) = at + Len(content)
      /\ \A i \in 1..(at + Len(content)) :
            (pre \o content)[i] = IF i <= at THEN pre[i] ELSE content[i - at]
  BY <1>1, <1>2, ConcatProperties
<1>5. WriteAt(file, content, at) = (pre \o content) \o post
  BY DEF WriteAt
<1>6. Len(post) \in Nat
  BY <1>3, LenProperties
<1> DEFINE both == pre \o content
<1> HIDE DEF pre, post, both
<1>7. both \in Seq(Byte) /\ Len(both) = at + Len(content) /\ post \in Seq(Byte)
  BY <1>3, <1>4 DEF both, pre, post
<1>8. /\ both \o post \in Seq(Byte)
      /\ Len(both \o post) = Len(both) + Len(post)
      /\ \A i \in 1..(Len(both) + Len(post)) :
            (both \o post)[i] = IF i <= Len(both) THEN both[i] ELSE post[i - Len(both)]
  <2>1. both \in Seq(Byte) /\ post \in Seq(Byte)
    BY <1>7
  <2> QED
    BY ONLY <2>1, ConcatProperties
<1>9. /\ (pre \o content) \o post \in Seq(Byte)
      /\ Len((pre \o content) \o post) = at + Len(content) + Len(post)
      /\ \A i \in 1..(at + Len(content)) :
            ((pre \o content) \o post)[i] = (pre \o content)[i]
  BY <1>1, <1>6, <1>7, <1>8 DEF both
<1> QED
  BY <1>1, <1>2, <1>4, <1>5, <1>6, <1>9

\* Reading through content just written gives what was before it, and it.
LEMMA SectionOfWriteAt ==
    ASSUME NEW file \in Seq(Byte), NEW content \in Seq(Byte), NEW at \in 0..Len(file),
           NEW n \in 0..at
    PROVE  /\ Section(WriteAt(file, content, at), 0, n) = Section(file, 0, n)
           /\ Section(WriteAt(file, content, at), 0, at + Len(content))
                = Section(file, 0, at) \o content
<1> DEFINE w == WriteAt(file, content, at)
<1>1. Len(file) \in Nat /\ Len(content) \in Nat /\ at \in Nat /\ n \in Nat
  BY LenProperties
<1>2. /\ w \in Seq(Byte)
      /\ at + Len(content) <= Len(w) /\ Len(w) \in Nat
      /\ \A i \in 1..at : w[i] = file[i]
      /\ \A i \in 1..Len(content) : w[at + i] = content[i]
  BY WriteAtProperties, LenProperties
<1> HIDE DEF w
<1>3. Section(w, 0, n) = Section(file, 0, n)
  <2>0. n \in 0..Len(w)
    BY <1>1, <1>2
  <2>1. /\ Section(w, 0, n) \in Seq(Byte) /\ Len(Section(w, 0, n)) = n
        /\ \A i \in 1..n : Section(w, 0, n)[i] = w[i]
    BY <1>2, <2>0, SectionProperties
  <2>2. /\ Section(file, 0, n) \in Seq(Byte) /\ Len(Section(file, 0, n)) = n
        /\ \A i \in 1..n : Section(file, 0, n)[i] = file[i]
    BY <1>1, SectionProperties
  <2>3. \A i \in 1..n : Section(w, 0, n)[i] = Section(file, 0, n)[i]
    BY <1>1, <1>2, <2>1, <2>2
  <2> QED
    BY <2>1, <2>2, <2>3, SeqEqual
<1>4. Section(w, 0, at + Len(content)) = Section(file, 0, at) \o content
  <2> DEFINE l == Section(w, 0, at + Len(content))
             f == Section(file, 0, at)
             r == f \o content
  <2>0. at + Len(content) \in 0..Len(w)
    BY <1>1, <1>2
  <2>1. /\ l \in Seq(Byte) /\ Len(l) = at + Len(content)
        /\ \A i \in 1..(at + Len(content)) : l[i] = w[i]
    BY <1>2, <2>0, SectionProperties
  <2>2. /\ f \in Seq(Byte) /\ Len(f) = at
        /\ \A i \in 1..at : f[i] = file[i]
    BY <1>1, SectionProperties
  <2> HIDE DEF f
  <2>3. /\ r \in Seq(Byte) /\ Len(r) = at + Len(content)
        /\ \A i \in 1..(at + Len(content)) :
              r[i] = IF i <= at THEN f[i] ELSE content[i - at]
    BY <1>1, <2>2, ConcatProperties, Zenon
  <2> HIDE DEF l, r
  <2>4. ASSUME NEW i \in 1..(at + Len(content)) PROVE l[i] = r[i]
    <3>1. CASE i <= at
      <4>1. i \in 1..at
        BY <1>1, <3>1
      <4>2. w[i] = file[i] /\ f[i] = file[i]
        BY <1>2, <2>2, <4>1
      <4> QED
        BY <2>1, <2>3, <3>1, <4>2
    <3>2. CASE i > at
      <4>1. i - at \in 1..Len(content) /\ at + (i - at) = i
        BY <1>1, <3>2
      <4>2. w[i] = content[i - at]
        BY <1>2, <4>1
      <4> QED
        BY <1>1, <2>1, <2>3, <3>2, <4>2
    <3> QED
      BY <1>1, <3>1, <3>2
  <2> QED
    BY <2>1, <2>3, <2>4, SeqEqual, Zenon DEF l, r, f
<1> QED
  BY <1>3, <1>4 DEF w

-----------------------------------------------------------------------------
(* Types of the parts of a Spool.                                          *)

\* Where a Fragment's content, and what was spooled after it, lie in its File.
LEMMA LengthBounds ==
    ASSUME NEW begin \in Nat, NEW end \in Nat, NEW delta \in Nat, NEW len \in Nat,
           begin <= end, (end - begin) + delta <= len
    PROVE  /\ end - begin \in Nat
           /\ end - begin \in 0..len
           /\ (end - begin) + delta \in 0..len
           /\ (end + delta) - end = delta
           /\ (end + delta) - begin = (end - begin) + delta
           /\ begin <= end + delta
           /\ (begin = end + delta) <=> ((end - begin) + delta = 0)
  OBVIOUS

\* The fields of a Spool, and the bounds which index its File.
LEMMA SpoolFields ==
    ASSUME NEW s, SpoolOK(s)
    PROVE  /\ s.frag \in Fragment /\ s.file \in Seq(Byte) /\ s.delta \in Nat
           /\ s.summer \in Seq(Byte) /\ s.sumState \in Seq(Byte)
           /\ s.compressor \in Optional(Seq(Byte))
           /\ s.frag.begin \in Nat /\ s.frag.end \in Nat
           /\ s.frag.sum \in Sum /\ s.frag.codec \in Codec
           /\ Len(s.file) \in Nat
           /\ ContentLength(s.frag) \in Nat
           /\ ContentLength(s.frag) = s.frag.end - s.frag.begin
           /\ ContentLength(s.frag) \in 0..Len(s.file)
           /\ ContentLength(s.frag) + s.delta \in 0..Len(s.file)
<1>1. /\ s.frag \in Fragment /\ s.file \in Seq(Byte) /\ s.delta \in Nat
      /\ s.summer \in Seq(Byte) /\ s.sumState \in Seq(Byte)
      /\ s.compressor \in Optional(Seq(Byte))
  BY DEF SpoolOK, SpoolType
<1>2. /\ s.frag.begin \in Nat /\ s.frag.end \in Nat
      /\ s.frag.sum \in Sum /\ s.frag.codec \in Codec
  BY <1>1 DEF Fragment
<1>3. Len(s.file) \in Nat
  BY <1>1, LenProperties
<1>4. /\ ContentLength(s.frag) = s.frag.end - s.frag.begin
      /\ s.frag.begin <= s.frag.end
      /\ ContentLength(s.frag) + s.delta <= Len(s.file)
  BY DEF SpoolOK, ContentLength
<1>5. /\ ContentLength(s.frag) \in Nat
      /\ ContentLength(s.frag) \in 0..Len(s.file)
      /\ ContentLength(s.frag) + s.delta \in 0..Len(s.file)
  <2> DEFINE begin == s.frag.begin
             end == s.frag.end
             len == Len(s.file)
             delta == s.delta
             length == ContentLength(s.frag)
  <2>1. begin \in Nat /\ end \in Nat /\ len \in Nat /\ delta \in Nat
    BY <1>1, <1>2, <1>3
  <2>2. length = end - begin /\ begin <= end /\ length + delta <= len
    BY <1>4
  <2> HIDE DEF begin, end, len, delta, length
  <2>3. length \in Nat /\ length \in 0..len /\ length + delta \in 0..len
    BY ONLY <2>1, <2>2, LengthBounds
  <2> QED
    BY <2>3 DEF len, delta, length
<1> QED
  BY <1>1, <1>2, <1>3, <1>4, <1>5

\* Zero or one of something.
LEMMA OptionalProperties ==
    ASSUME NEW S
    PROVE  /\ <<>> \in Optional(S)
           /\ \A x \in S : <<x>> \in Optional(S) /\ <<x>> # <<>>
           /\ \A q \in Optional(S) : q # <<>> => q[1] \in S
<1>1. <<>> \in Optional(S)
  BY EmptySeq DEF Optional
<1>2. ASSUME NEW x \in S PROVE <<x>> \in Optional(S) /\ <<x>> # <<>>
  BY <1>2 DEF Optional
<1>3. ASSUME NEW q \in Optional(S), q # <<>> PROVE q[1] \in S
  <2>1. q \in Seq(S) /\ Len(q) \in Nat \ {0}
    BY <1>3, EmptySeq DEF Optional
  <2> QED
    BY <2>1, ElementOfSeq
<1> QED
  BY <1>1, <1>2, <1>3

\* A new, empty Spool is consistent.
LEMMA EmptiedOK ==
    ASSUME NEW f \in Fragment, f.begin = f.end, f.sum = ZeroSum
    PROVE  SpoolOK(Emptied(f))
<1> DEFINE s == Emptied(f)
<1>1. /\ s.frag = f /\ s.file = <<>> /\ s.delta = 0
      /\ s.summer = <<>> /\ s.sumState = <<>> /\ s.compressor = <<>>
  BY DEF Emptied
<1>2. s \in SpoolType
  BY EmptySeq, OptionalProperties DEF Emptied, SpoolType
<1>3. f.begin \in Nat /\ f.end \in Nat
  BY DEF Fragment
<1>4. ContentLength(f) = 0 /\ ContentLength(f) + 0 = 0
  BY <1>3 DEF ContentLength
<1>5. Section(<<>>, 0, 0) = <<>>
  BY SubSeqEmpty DEF Section
<1>6. Len(<<>>) = 0
  BY EmptySeq
<1> HIDE DEF s
<1>7. SpoolOK(s)
  BY <1>1, <1>2, <1>3, <1>4, <1>5, <1>6 DEF SpoolOK, SumOK, CommittedContent
<1> QED
  BY <1>7 DEF s

\* A proposal of an empty Fragment is well formed.
LEMMA EmptyAtProperties ==
    ASSUME NEW offset \in Nat, NEW codec \in Codec
    PROVE  /\ EmptyAt(offset, codec) \in Fragment
           /\ EmptyAt(offset, codec).begin = offset
           /\ EmptyAt(offset, codec).end = offset
           /\ EmptyAt(offset, codec).sum = ZeroSum
           /\ EmptyAt(offset, codec).codec = codec
           /\ ContentLength(EmptyAt(offset, codec)) = 0
<1>1. ZeroSum \in Sum
  BY OptionalProperties DEF ZeroSum, Sum
<1> QED
  BY <1>1 DEF EmptyAt, Fragment, ContentLength

-----------------------------------------------------------------------------
(* applyContent and applyCommit.                                           *)

\* Spooling content keeps the Fragment and its committed bytes.
LEMMA ApplyContentOK ==
    ASSUME NEW s, SpoolOK(s), NEW content \in Seq(Byte)
    PROVE  /\ SpoolOK(applyContent(s, content))
           /\ applyContent(s, content).frag = s.frag
           /\ applyContent(s, content).compressor = s.compressor
           /\ CommittedContent(applyContent(s, content)) = CommittedContent(s)
<1> DEFINE t == applyContent(s, content)
           n == ContentLength(s.frag)
           at == n + s.delta
<1>1. /\ s.file \in Seq(Byte) /\ s.delta \in Nat /\ s.summer \in Seq(Byte)
      /\ n \in Nat /\ n \in 0..at /\ at \in 0..Len(s.file) /\ at \in Nat
      /\ Len(content) \in Nat
  BY SpoolFields, LenProperties
<1>2. /\ t.frag = s.frag /\ t.compressor = s.compressor /\ t.sumState = s.sumState
      /\ t.file = WriteAt(s.file, content, at)
      /\ t.summer = s.summer \o content
      /\ t.delta = s.delta + Len(content)
  BY DEF applyContent, SpoolOK, SpoolType
<1>3. t \in SpoolType
  <2>1. WriteAt(s.file, content, at) \in Seq(Byte)
    BY <1>1, WriteAtProperties
  <2>2. s.summer \o content \in Seq(Byte)
    BY <1>1, ConcatProperties
  <2>3. s.delta + Len(content) \in Nat
    BY <1>1
  <2>4. s \in SpoolType
    BY DEF SpoolOK
  <2> QED
    BY <2>1, <2>2, <2>3, <2>4, Zenon DEF applyContent, SpoolType
<1>4. at + Len(content) <= Len(t.file)
  BY <1>1, <1>2, WriteAtProperties
<1>5. /\ Section(t.file, 0, n) = Section(s.file, 0, n)
      /\ Section(t.file, 0, at + Len(content)) = Section(s.file, 0, at) \o content
  <2>1. /\ Section(WriteAt(s.file, content, at), 0, n) = Section(s.file, 0, n)
        /\ Section(WriteAt(s.file, content, at), 0, at + Len(content))
              = Section(s.file, 0, at) \o content
    BY ONLY <1>1, content \in Seq(Byte), SectionOfWriteAt, Zenon
  <2> QED
    BY <1>2, <2>1
<1>6. n + t.delta = at + Len(content)
  BY <1>1, <1>2
<1>7. CommittedContent(t) = CommittedContent(s)
  BY <1>2, <1>5 DEF CommittedContent
<1> HIDE DEF t
<1>8. SpoolOK(t)
  BY <1>2, <1>3, <1>4, <1>5, <1>6, <1>7 DEF SpoolOK, SumOK
<1> QED
  BY <1>2, <1>7, <1>8 DEF t

\* A roll leaves the Spool as it was, or empty and consistent at the proposal.
LEMMA RolledOK ==
    ASSUME NEW s, SpoolOK(s), NEW proposal \in Fragment
    PROVE  /\ SpoolOK(Rolled(s, proposal))
           /\ ~MustRoll(s, proposal) => Rolled(s, proposal) = s
           /\ MustRoll(s, proposal) =>
                /\ Rolled(s, proposal).frag = EmptyAt(proposal.end, proposal.codec)
                /\ Rolled(s, proposal).compressor = <<>>
                /\ Rolled(s, proposal).delta = 0
<1>1. proposal.end \in Nat /\ proposal.codec \in Codec
  BY DEF Fragment
<1>2. CASE MustRoll(s, proposal)
  <2> DEFINE f == EmptyAt(proposal.end, proposal.codec)
  <2>1. f \in Fragment /\ f.begin = f.end /\ f.sum = ZeroSum
    BY <1>1, EmptyAtProperties
  <2> HIDE DEF f
  <2>2. SpoolOK(Emptied(f))
    BY <2>1, EmptiedOK
  <2>3. Emptied(f).frag = f /\ Emptied(f).compressor = <<>> /\ Emptied(f).delta = 0
    BY DEF Emptied
  <2>4. Rolled(s, proposal) = Emptied(f)
    BY <1>2 DEF Rolled, f
  <2> QED
    BY <1>2, <2>2, <2>3, <2>4 DEF f
<1>3. CASE ~MustRoll(s, proposal)
  BY <1>3 DEF Rolled
<1> QED
  BY <1>2, <1>3

\* Rolling back partial content keeps the Fragment and its committed bytes.
LEMMA RolledBackOK ==
    ASSUME NEW s, SpoolOK(s)
    PROVE  /\ SpoolOK(RolledBack(s))
           /\ RolledBack(s).frag = s.frag /\ RolledBack(s).file = s.file
           /\ RolledBack(s).compressor = s.compressor
<1> DEFINE t == RolledBack(s)
<1>1. /\ t.frag = s.frag /\ t.file = s.file /\ t.compressor = s.compressor
      /\ t.sumState = s.sumState /\ t.summer = s.sumState /\ t.delta = 0
  BY DEF RolledBack, SpoolOK, SpoolType
<1>2. t \in SpoolType
  BY Zenon DEF RolledBack, SpoolOK, SpoolType
<1>3. /\ ContentLength(s.frag) \in Nat /\ s.delta \in Nat /\ Len(s.file) \in Nat
      /\ ContentLength(s.frag) + 0 = ContentLength(s.frag)
      /\ ContentLength(s.frag) + s.delta <= Len(s.file)
  BY SpoolFields DEF SpoolOK
<1> HIDE DEF t
<1>4. SpoolOK(t)
  BY <1>1, <1>2, <1>3 DEF SpoolOK, SumOK, CommittedContent
<1> QED
  BY <1>1, <1>4 DEF t

\* The next Fragment ends with the content which was spooled.
LEMMA NextFragmentProperties ==
    ASSUME NEW s, SpoolOK(s)
    PROVE  /\ NextFragment(s) \in Fragment
           /\ NextFragment(s).begin = s.frag.begin
           /\ NextFragment(s).end = s.frag.end + s.delta
           /\ NextFragment(s).codec = s.frag.codec
           /\ NextFragment(s).sum = IF s.frag.begin = s.frag.end + s.delta
                                    THEN ZeroSum ELSE SHA1(s.summer)
           /\ ContentLength(NextFragment(s)) = ContentLength(s.frag) + s.delta
<1>1. /\ s.frag \in Fragment /\ s.delta \in Nat /\ s.summer \in Seq(Byte)
      /\ s.frag.begin \in Nat /\ s.frag.end \in Nat
  BY SpoolFields
<1>2. s.frag.end + s.delta \in Nat
  BY <1>1
<1>3. ZeroSum \in Sum /\ SHA1(s.summer) \in Sum
  BY <1>1, OptionalProperties DEF ZeroSum, SHA1, Sum
<1>4. /\ NextFragment(s) \in Fragment
      /\ NextFragment(s).begin = s.frag.begin
      /\ NextFragment(s).end = s.frag.end + s.delta
      /\ NextFragment(s).codec = s.frag.codec
      /\ NextFragment(s).sum = IF s.frag.begin = s.frag.end + s.delta
                               THEN ZeroSum ELSE SHA1(s.summer)
  BY <1>1, <1>2, <1>3, Zenon DEF NextFragment, Fragment
<1> QED
  BY <1>1, <1>4 DEF ContentLength

\* The compressor, if there is one, was fed exactly the committed bytes.
CompressorOK(s) ==
    \/ s.compressor = <<>>
    \/ s.frag.codec # NONE /\ s.compressor = <<CommittedContent(s)>>

\* Compressing through an offset only changes the compressor, which was then fed
\* the file through that offset, whether it was extended or rebuilt.
LEMMA CompressThroughOK ==
    ASSUME NEW s, SpoolOK(s), NEW ioErr \in BOOLEAN
    PROVE  LET t == compressThrough(s, s.frag.end + s.delta, ioErr)
           IN  /\ t \in SpoolType
               /\ t.frag = s.frag /\ t.file = s.file /\ t.delta = s.delta
               /\ t.summer = s.summer /\ t.sumState = s.sumState
               /\ CompressorOK(s) =>
                    t.compressor = <<Section(s.file, 0, ContentLength(s.frag) + s.delta)>>
<1> DEFINE end == s.frag.end + s.delta
           t == compressThrough(s, end, ioErr)
           more == SubSeq(s.file, ContentLength(s.frag) + 1, ContentLength(s.frag) + s.delta)
           all == Section(s.file, 0, ContentLength(s.frag) + s.delta)
<1>1. /\ s.file \in Seq(Byte) /\ Len(s.file) \in Nat /\ s.delta \in Nat
      /\ s.frag.begin \in Nat /\ s.frag.end \in Nat
      /\ ContentLength(s.frag) = s.frag.end - s.frag.begin
      /\ ContentLength(s.frag) \in Nat
      /\ ContentLength(s.frag) + s.delta \in 0..Len(s.file)
      /\ s.compressor \in Optional(Seq(Byte))
      /\ s \in SpoolType
  BY SpoolFields DEF SpoolOK
<1>2. end - s.frag.end = s.delta /\ end - s.frag.begin = ContentLength(s.frag) + s.delta
  <2>1. s.frag.begin <= s.frag.end /\ ContentLength(s.frag) + s.delta <= Len(s.file)
    BY DEF SpoolOK
  <2> QED
    BY ONLY <1>1, <2>1, LengthBounds
<1>3. Section(s.file, ContentLength(s.frag), end - s.frag.end) = more
  BY <1>2, Zenon DEF Section
<1>4. Section(s.file, 0, end - s.frag.begin) = all
  BY <1>2
<1>5. all \in Seq(Byte)
  BY <1>1, SectionProperties
<1>6. more \in Seq(Byte)
  <2>1. \A i \in (ContentLength(s.frag) + 1)..(ContentLength(s.frag) + s.delta) :
            s.file[i] \in Byte
    BY <1>1, ElementOfSeq
  <2> QED
    BY <1>1, <2>1, SubSeqProperties
<1>7. CommittedContent(s) \o more = all
  <2>1. /\ 1 \in 1..(Len(s.file) + 1)
        /\ ContentLength(s.frag) \in (1 - 1)..Len(s.file)
        /\ ContentLength(s.frag) + s.delta \in ContentLength(s.frag)..Len(s.file)
    BY <1>1
  <2>2. SubSeq(s.file, 1, ContentLength(s.frag)) \o more
          = SubSeq(s.file, 1, ContentLength(s.frag) + s.delta)
    BY <1>1, <2>1, ConcatAdjacentSubSeq, Zenon
  <2>3. /\ CommittedContent(s) = SubSeq(s.file, 1, ContentLength(s.frag))
        /\ all = SubSeq(s.file, 1, ContentLength(s.frag) + s.delta)
    BY <1>1 DEF CommittedContent, Section
  <2> QED
    BY <2>2, <2>3, Zenon
<1>8. CASE s.compressor # <<>> /\ ~ioErr
  <2>1. t = [s EXCEPT !.compressor = <<s.compressor[1] \o more>>]
    BY <1>3, <1>8, Zenon DEF compressThrough
  <2>2. s.compressor[1] \in Seq(Byte)
    BY <1>1, <1>8, OptionalProperties
  <2>3. s.compressor[1] \o more \in Seq(Byte)
    BY <1>6, <2>2, ConcatProperties
  <2>4. <<s.compressor[1] \o more>> \in Optional(Seq(Byte))
    BY <2>3, OptionalProperties, Zenon
  <2>5. /\ t \in SpoolType
        /\ t.frag = s.frag /\ t.file = s.file /\ t.delta = s.delta
        /\ t.summer = s.summer /\ t.sumState = s.sumState
        /\ t.compressor = <<s.compressor[1] \o more>>
    BY <1>1, <2>1, <2>4, Zenon DEF SpoolType
  <2>6. CompressorOK(s) => s.compressor[1] = CommittedContent(s)
    BY <1>8 DEF CompressorOK
  <2> QED
    BY <1>7, <2>5, <2>6, Zenon
<1>9. CASE ~(s.compressor # <<>> /\ ~ioErr)
  <2>1. t = [s EXCEPT !.compressor = <<all>>]
    BY <1>4, <1>9 DEF compressThrough
  <2>2. <<all>> \in Optional(Seq(Byte))
    BY <1>5, OptionalProperties
  <2> QED
    BY <1>1, <2>1, <2>2, Zenon DEF SpoolType
<1> QED
  BY <1>8, <1>9

\* A commit extends the Fragment over the bytes which were spooled.  A primary
\* compresses them too; a peer must not have a compressor open.
LEMMA CommittedOK ==
    ASSUME NEW s, SpoolOK(s), NEW primary \in BOOLEAN, NEW ioErr \in BOOLEAN
    PROVE  LET t == Committed(s, primary, ioErr)
           IN  /\ SpoolOK(t)
               /\ t.frag = NextFragment(s) /\ t.file = s.file
               /\ ~primary => t.compressor = s.compressor
               /\ CompressorOK(s) /\ (primary \/ s.compressor = <<>>) => CompressorOK(t)
<1> DEFINE c == IF primary /\ s.frag.codec # NONE
                THEN compressThrough(s, NextFragment(s).end, ioErr) ELSE s
           t == Committed(s, primary, ioErr)
           all == Section(s.file, 0, ContentLength(s.frag) + s.delta)
<1>1. /\ NextFragment(s) \in Fragment
      /\ NextFragment(s).begin = s.frag.begin
      /\ NextFragment(s).end = s.frag.end + s.delta
      /\ NextFragment(s).codec = s.frag.codec
      /\ NextFragment(s).sum = IF s.frag.begin = s.frag.end + s.delta
                               THEN ZeroSum ELSE SHA1(s.summer)
      /\ ContentLength(NextFragment(s)) = ContentLength(s.frag) + s.delta
  BY NextFragmentProperties
<1>2. /\ c \in SpoolType
      /\ c.frag = s.frag /\ c.file = s.file /\ c.summer = s.summer
      /\ primary /\ s.frag.codec # NONE /\ CompressorOK(s) => c.compressor = <<all>>
      /\ ~(primary /\ s.frag.codec # NONE) => c.compressor = s.compressor
  <2>1. CASE primary /\ s.frag.codec # NONE
    <3>1. c = compressThrough(s, s.frag.end + s.delta, ioErr)
      BY <1>1, <2>1
    <3> HIDE DEF c
    <3>2. /\ c \in SpoolType
          /\ c.frag = s.frag /\ c.file = s.file /\ c.summer = s.summer
          /\ CompressorOK(s) => c.compressor = <<all>>
      BY <3>1, CompressThroughOK
    <3> QED
      BY <2>1, <3>2
  <2>2. CASE ~(primary /\ s.frag.codec # NONE)
    BY <2>2 DEF SpoolOK
  <2> QED
    BY <2>1, <2>2
<1>3. t = [c EXCEPT !.frag = NextFragment(s), !.delta = 0, !.sumState = s.summer]
  BY DEF Committed
<1> HIDE DEF c, t, all
<1>4. s.summer \in Seq(Byte)
  BY SpoolFields
<1>5. /\ t \in SpoolType
      /\ t.frag = NextFragment(s) /\ t.delta = 0 /\ t.sumState = s.summer
      /\ t.file = s.file /\ t.summer = s.summer /\ t.compressor = c.compressor
  BY <1>1, <1>2, <1>3, <1>4, Zenon DEF SpoolType
<1>6. /\ ContentLength(s.frag) \in Nat /\ s.delta \in Nat /\ Len(s.file) \in Nat
      /\ s.frag.begin \in Nat /\ s.frag.end \in Nat
      /\ ContentLength(s.frag) = s.frag.end - s.frag.begin
      /\ ContentLength(s.frag) + s.delta <= Len(s.file)
      /\ s.summer = all
  BY SpoolFields DEF SpoolOK, all
<1>7. /\ ContentLength(t.frag) = ContentLength(s.frag) + s.delta
      /\ ContentLength(t.frag) + t.delta = ContentLength(s.frag) + s.delta
      /\ t.frag.begin <= t.frag.end
      /\ (s.frag.begin = s.frag.end + s.delta) <=> (ContentLength(t.frag) = 0)
  <2>1. s.frag.begin <= s.frag.end
    BY DEF SpoolOK
  <2>2. /\ s.frag.begin <= s.frag.end + s.delta
        /\ (s.frag.begin = s.frag.end + s.delta) <=> (ContentLength(s.frag) + s.delta = 0)
    <3> DEFINE begin == s.frag.begin
               end == s.frag.end
               len == Len(s.file)
               delta == s.delta
               length == ContentLength(s.frag)
    <3>1. /\ begin \in Nat /\ end \in Nat /\ len \in Nat /\ delta \in Nat
          /\ length = end - begin /\ begin <= end /\ length + delta <= len
      BY <1>6, <2>1
    <3> HIDE DEF begin, end, len, delta, length
    <3>2. begin <= end + delta /\ ((begin = end + delta) <=> (length + delta = 0))
      BY ONLY <3>1, LengthBounds
    <3> QED
      BY <3>2 DEF begin, end, delta, length
  <2>3. (ContentLength(s.frag) + s.delta) + 0 = ContentLength(s.frag) + s.delta
    BY <1>6
  <2> QED
    BY ONLY <1>1, <1>5, <2>2, <2>3
<1>8. CommittedContent(t) = all
  BY <1>5, <1>7 DEF CommittedContent, all
<1>9. SumOK(t)
  BY <1>1, <1>5, <1>6, <1>7, <1>8 DEF SumOK
<1>10. SpoolOK(t)
  BY <1>5, <1>6, <1>7, <1>8, <1>9 DEF SpoolOK, all
<1>11. CompressorOK(s) /\ (primary \/ s.compressor = <<>>) => CompressorOK(t)
  BY <1>1, <1>2, <1>5, <1>8 DEF CompressorOK
<1> QED
  BY <1>2, <1>5, <1>10, <1>11 DEF t

\* applyCommit keeps the Spool consistent, whatever is proposed.  The compressor
\* stays in step with it unless a peer commits while a compressor is open.
LEMMA ApplyCommitOK ==
    ASSUME NEW s, SpoolOK(s), NEW proposal \in Fragment,
           NEW primary \in BOOLEAN, NEW ioErr \in BOOLEAN
    PROVE  LET t == applyCommit(s, proposal, primary, ioErr)
           IN  /\ SpoolOK(t)
               /\ ~primary /\ s.compressor = <<>> => t.compressor = <<>>
               /\ /\ CompressorOK(s)
                  /\ primary \/ s.compressor = <<>> \/ RollsBack(s, proposal)
                  => CompressorOK(t)
<1> DEFINE r == Rolled(s, proposal)
           t == applyCommit(s, proposal, primary, ioErr)
<1>1. SpoolOK(r)
  BY RolledOK
<1>2. /\ s.compressor = <<>> => r.compressor = <<>>
      /\ CompressorOK(s) => CompressorOK(r)
  BY RolledOK DEF CompressorOK
<1>3. CASE RollsBack(s, proposal)
  <2>1. t = RolledBack(r)
    BY <1>3 DEF applyCommit, Commits
  <2> HIDE DEF r, t
  <2>2. /\ SpoolOK(t) /\ t.frag = r.frag /\ t.file = r.file
        /\ t.compressor = r.compressor
    BY <1>1, <2>1, RolledBackOK
  <2>3. CompressorOK(r) => CompressorOK(t)
    BY <2>2 DEF CompressorOK, CommittedContent
  <2> QED
    BY <1>2, <2>2, <2>3 DEF t
<1>4. CASE ~RollsBack(s, proposal) /\ Commits(s, proposal)
  <2>1. t = Committed(r, primary, ioErr)
    BY <1>4 DEF applyCommit
  <2> HIDE DEF r, t
  <2>2. /\ SpoolOK(t)
        /\ ~primary => t.compressor = r.compressor
        /\ CompressorOK(r) /\ (primary \/ r.compressor = <<>>) => CompressorOK(t)
    BY <1>1, <2>1, CommittedOK
  <2> QED
    BY <1>2, <1>4, <2>2 DEF t
<1>5. CASE ~RollsBack(s, proposal) /\ ~Commits(s, proposal)
  <2>1. t = r
    BY <1>5 DEF applyCommit
  <2> QED
    BY <1>1, <1>2, <2>1
<1> QED
  BY <1>3, <1>4, <1>5

-----------------------------------------------------------------------------
(* Proposals which a Spool never refuses.                                  *)

\* An empty Fragment is the one which a roll at its End makes.
LEMMA EmptyFragment ==
    ASSUME NEW s, SpoolOK(s), ContentLength(s.frag) = 0
    PROVE  s.frag = EmptyAt(s.frag.end, s.frag.codec)
<1>1. s.frag \in Fragment /\ s.frag.begin = s.frag.end
  BY SpoolFields
<1>2. s.frag.sum = ZeroSum
  BY DEF SpoolOK, SumOK
<1> QED
  BY <1>1, <1>2 DEF EmptyAt, Fragment

\* Proposing the Spool's own Fragment rolls its partial content back.
LEMMA OwnFragmentRollsBack ==
    ASSUME NEW s, SpoolOK(s)
    PROVE  RollsBack(s, s.frag)
<1>1. s.frag \in Fragment
  BY SpoolFields
<1>2. CASE MustRoll(s, s.frag)
  <2>1. ContentLength(s.frag) = 0
    BY <1>2, SpoolFields DEF MustRoll
  <2> QED
    BY <1>1, <1>2, <2>1, RolledOK, EmptyFragment DEF RollsBack
<1>3. CASE ~MustRoll(s, s.frag)
  BY <1>1, <1>3, RolledOK DEF RollsBack
<1> QED
  BY <1>2, <1>3

\* The next Fragment commits, or changes nothing when nothing was spooled.
LEMMA NextFragmentApplies ==
    ASSUME NEW s, SpoolOK(s)
    PROVE  CommitOK(s, NextFragment(s))
<1> DEFINE p == NextFragment(s)
<1>1. /\ p \in Fragment /\ p.end = s.frag.end + s.delta /\ p.codec = s.frag.codec
      /\ ContentLength(p) = ContentLength(s.frag) + s.delta
  BY NextFragmentProperties
<1>2. /\ s.delta \in Nat /\ s.frag.end \in Nat /\ ContentLength(s.frag) \in Nat
  BY SpoolFields
<1>3. CASE MustRoll(s, p)
  <2>1. s.delta = 0 /\ ContentLength(s.frag) = 0 /\ p.end = s.frag.end
    BY <1>1, <1>2, <1>3 DEF MustRoll
  <2>2. Rolled(s, p).frag = s.frag
    BY <1>1, <1>3, <2>1, RolledOK, EmptyFragment
  <2>3. s.frag.begin = s.frag.end + s.delta
    BY <1>2, <2>1, SpoolFields
  <2>4. p.sum = ZeroSum /\ p.begin = s.frag.begin
    BY <2>3, NextFragmentProperties
  <2>5. s.frag \in Fragment /\ s.frag.sum = ZeroSum
    BY <2>1, SpoolFields DEF SpoolOK, SumOK
  <2> HIDE DEF p
  <2>6. p = s.frag
    BY <1>1, <2>1, <2>4, <2>5 DEF Fragment
  <2> QED
    BY <2>2, <2>6 DEF CommitOK, RollsBack, p
<1>4. CASE ~MustRoll(s, p)
  BY <1>1, <1>4, RolledOK DEF CommitOK, Commits, RollsBack
<1> QED
  BY <1>3, <1>4

\* A roll at the Fragment's End always applies, and one beyond it does when no
\* content is being spooled.
LEMMA RollApplies ==
    ASSUME NEW s, SpoolOK(s), NEW offset \in Nat, NEW codec \in Codec,
           offset = s.frag.end \/ (s.delta = 0 /\ offset > s.frag.end)
    PROVE  RollsBack(s, EmptyAt(offset, codec))
<1> DEFINE p == EmptyAt(offset, codec)
<1>1. p \in Fragment /\ p.end = offset /\ p.codec = codec /\ ContentLength(p) = 0
  BY EmptyAtProperties
<1>2. s.frag.end \in Nat /\ s.delta \in Nat
  BY SpoolFields
<1> HIDE DEF p
<1>3. MustRoll(s, p)
  BY <1>1, <1>2 DEF MustRoll
<1>4. Rolled(s, p).frag = EmptyAt(p.end, p.codec)
  BY <1>1, <1>3, RolledOK
<1> QED
  BY <1>1, <1>4 DEF RollsBack, p

\* What is persisted of a Spool whose compressor is in step is what it committed.
LEMMA PersistedIsCommitted ==
    ASSUME NEW s, SpoolOK(s), CompressorOK(s)
    PROVE  PersistedContent(s) = CommittedContent(s)
BY DEF CompressorOK, PersistedContent, finishCompression, CommittedContent
=============================================================================
