---------------------------- MODULE AppendBuffer ----------------------------
(***************************************************************************)
(* The appendBuffer of an AsyncAppend (v2/pkg/client/append_service.go): a *)
(* bufio.Writer over a temporary file, which is overwritten in place after *)
(* a roll-back and whose writes may fail part way.                         *)
(***************************************************************************)
EXTENDS Sequences, Integers

CONSTANTS
    Unit,       \* what clients write; a Write isn't split between units
    BufferSize  \* units which the bufio.Writer holds (appendBufferSize)

ASSUME BufferAssumption == BufferSize \in Nat \ {0}

\* `offset` is where the file is written next.  `failed` is the sticky error of the
\* bufio.Writer, by which it refuses further writes.
NewBuffer == [file |-> <<>>, offset |-> 0, buf |-> <<>>, failed |-> FALSE]

\* The file, once `data` is written to it at `offset`.
Overwritten(file, offset, data) ==
    SubSeq(file, 1, offset) \o data \o SubSeq(file, offset + Len(data) + 1, Len(file))

\* The first `n` buffered units are written to the file.
Drained(fb, n) ==
    [fb EXCEPT !.file = Overwritten(@, fb.offset, SubSeq(fb.buf, 1, n)),
               !.offset = @ + n,
               !.buf = SubSeq(@, n + 1, Len(@))]

flush(fb) == [Drained(fb, Len(fb.buf)) EXCEPT !.failed = FALSE]

\* A flush which fails after n units.  It clears the error and keeps the rest.
PartlyFlushed(fb, n) == [Drained(fb, n) EXCEPT !.failed = FALSE]

\* Writes of k units u to the bufio.Writer, which a Write drains first if it's full.
WriteUnits(fb, u, k) ==
    LET all  == fb.buf \o [i \in 1..k |-> u]
        full == IF all = <<>> THEN 0 ELSE (Len(all) - 1) \div BufferSize
    IN  IF fb.failed THEN fb ELSE Drained([fb EXCEPT !.buf = all], full * BufferSize)

\* A Write which must drain a full buffer, and fails to after n units of it.
DrainFails(fb, n) == [Drained(fb, n) EXCEPT !.failed = TRUE]

\* Content is addressed through here once a client releases it.
Written(fb) == fb.offset + Len(fb.buf)

\* Faulty variant of RolledBack: goes on where the file was last written.
RolledBackNowhere(fb, checkpoint) == flush(fb)

\* rollback, after its flush: `seek` returns the file to the checkpoint.
RolledBack(fb, checkpoint) == [flush(fb) EXCEPT !.offset = checkpoint]

\* What the Append RPC sends of a flushed buffer.
Content(fb, checkpoint) == SubSeq(fb.file, 1, checkpoint)
=============================================================================
