----------------------------- MODULE AppendLog -----------------------------
(***************************************************************************)
(* What one replica of a journal promises: an append-only log of bytes     *)
(* addressed by offset.  The log grows at its end, or skips forward over   *)
(* offsets it does not hold (those of other replicas, or of the fragment   *)
(* store).  A written offset is never written again.                       *)
(***************************************************************************)
EXTENDS Integers, Sequences

CONSTANT Byte

VARIABLES
    log,   \* set of <<offset, byte>> pairs which have been written
    end    \* offset of the next byte to be written

Written(content, offset) ==
    {<<offset + i - 1, content[i]>> : i \in 1..Len(content)}

LogInit == log = {} /\ end = 0

Extend ==
    /\ end' \in Nat /\ end' >= end
    /\ \E content \in [1..(end' - end) -> Byte] :
            log' = log \cup Written(content, end)

SkipForward == end' \in Nat /\ end' > end /\ log' = log

LogNext == Extend \/ SkipForward

LogSpec == LogInit /\ [][LogNext]_<<log, end>>
=============================================================================
