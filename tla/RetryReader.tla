---------------------------- MODULE RetryReader ----------------------------
(***************************************************************************)
(* How clients read messages of a journal: a Reader of one Read RPC or of  *)
(* a Fragment URL (v2/pkg/client/reader.go), the RetryReader which restarts *)
(* it (retry_reader.go), the bufio.Reader over that, and the framing which *)
(* unpacks messages from the buffer for pumpMessages                       *)
(* (v2/pkg/message/fixed_framing.go, v2/pkg/consumer/lifecycle.go) or seeks *)
(* within it, as players of recovery logs do.  The byte at an offset is    *)
(* that offset, so that content which lands elsewhere is told apart.       *)
(***************************************************************************)
EXTENDS SequencesExt, FiniteSetsExt, Integers

CONSTANTS
    Ends,        \* end offsets of the journal's messages, in order
    Fragments,   \* its Fragments, <<begin, end>>, which hold whole messages
    HeaderLen,   \* bytes of a frame's header, which holds its length
    BufferSize,  \* bytes which the bufio.Reader holds
    MaxErrors,   \* bounds RPCs and fetches which break
    MaxRemoved,  \* bounds Fragments which are removed from the store
    RemovesRead, \* whether a Fragment may be removed while it's being read
    MaxSeeks     \* bounds seeks of the client

Begins == <<0>> \o Front(Ends)
Message == DOMAIN Ends

\* Frames hold at least their header.  Fragments begin and end with an append, which
\* writes whole messages.
ReaderAssumption ==
    /\ HeaderLen \in Nat \ {0} /\ BufferSize \in Nat /\ BufferSize >= HeaderLen
    /\ \A m \in Message : Ends[m] >= Begins[m] + HeaderLen
    /\ \A f \in Fragments : f[1] \in ToSet(Begins) /\ f[2] \in ToSet(Ends)

VARIABLES
    reader,   \* the current Reader
    buf,      \* content of the bufio.Reader
    unpack,   \* where Unpack is: "header", "body" or "full"
    frame,    \* what io.ReadFull of Unpack read so far
    size,     \* length of the frame being unpacked
    want,     \* offset which the client is to read next
    last,     \* the last message handed on
    removed,  \* Fragments which were removed
    errors, seeks

vars == <<reader, buf, unpack, frame, size, want, last, removed, errors, seeks>>

Bytes(from, to) == [i \in 1..(to - from) |-> from + i - 1]

\* serveRead is at offset of a Fragment with that end, or 0 if it must query next.
Stream(offset) == [offset |-> offset, end |-> 0, closing |-> FALSE]

\* A Reader of no stream.  resp is the offset and length of the content of the last
\* response, url the end of a Fragment it named the URL of, and direct the end of that
\* Fragment once opened; both are 0 otherwise.
NewReader(offset) ==
    [offset |-> offset, stream |-> <<>>, resp |-> <<0, 0>>, url |-> 0, direct |-> 0]

Init ==
    /\ reader = NewReader(0)
    /\ buf = <<>> /\ unpack = "header" /\ frame = <<>> /\ size = 0
    /\ want = 0 /\ last = <<>>
    /\ removed = {} /\ errors = 0 /\ seeks = 0

-----------------------------------------------------------------------------
(* Unpack, and the bufio.Reader. *)

\* Unpack needs content which isn't buffered.
Reads ==
    \/ unpack = "header" /\ Len(buf) < HeaderLen
    \/ unpack = "body" /\ Len(buf) < size /\ Len(buf) < BufferSize
    \/ unpack = "full" /\ buf = <<>> /\ Len(frame) < size

\* bufio.Reader reads at least its own size directly into the frame.
IntoFrame == unpack = "full" /\ size - Len(frame) >= BufferSize

\* The most that Read of the RetryReader may return.
Room == IF IntoFrame THEN size - Len(frame) ELSE BufferSize - Len(buf)

\* Read returns `data`.
Returned(data) ==
    /\ IF IntoFrame THEN frame' = frame \o data /\ UNCHANGED buf
                    ELSE buf' = buf \o data /\ UNCHANGED frame
    /\ UNCHANGED <<unpack, size>>

\* Read returns ErrOffsetJump.  Peek of the header and io.ReadFull surface it, and
\* pumpMessages unpacks anew; Peek of the body has it dropped.
Jumped ==
    /\ unpack' = IF unpack = "body" THEN "full" ELSE "header"
    /\ frame' = <<>>
    /\ UNCHANGED <<buf, size>>

\* The message whose header is at an offset.  Unpack hands on bytes which aren't one.
Starting(offset) == {m \in Message : Begins[m] = offset}

PeekHeader ==
    /\ unpack = "header" /\ Len(buf) >= HeaderLen
    /\ unpack' = "body"
    /\ size' = IF Starting(Head(buf)) = {} THEN 1
               ELSE Ends[CHOOSE m \in Starting(Head(buf)) : TRUE] - Head(buf)
    /\ UNCHANGED <<reader, buf, frame, want, last, removed, errors, seeks>>

\* Faulty variant of AdjustedOffset: disregards what's buffered.
AdjustedOffsetOfReader(offset, b) == offset

AdjustedOffset(offset, b) == offset - Len(b)

\* Unpack returns a frame, and pumpMessages sends it with the offset at which the
\* buffer goes on.
HandOn(f, b) ==
    /\ last' = [want |-> want, frame |-> f, next |-> AdjustedOffset(reader.offset, b)]
    /\ want' = Last(f) + 1
    /\ buf' = b
    /\ unpack' = "header" /\ frame' = <<>> /\ size' = 0
    /\ UNCHANGED <<reader, removed, errors, seeks>>

PeekBody ==
    /\ unpack = "body" /\ Len(buf) >= size
    /\ HandOn(SubSeq(buf, 1, size), SubSeq(buf, size + 1, Len(buf)))

\* The frame exceeds the buffer.
PeekFull ==
    /\ unpack = "body" /\ Len(buf) < size /\ Len(buf) = BufferSize
    /\ unpack' = "full"
    /\ UNCHANGED <<reader, buf, frame, size, want, last, removed, errors, seeks>>

\* A Read of io.ReadFull takes what's buffered.
ReadBuffered ==
    /\ unpack = "full" /\ buf # <<>> /\ Len(frame) < size
    /\ LET n == Min({Len(buf), size - Len(frame)}) IN
       /\ frame' = frame \o SubSeq(buf, 1, n)
       /\ buf' = SubSeq(buf, n + 1, Len(buf))
    /\ UNCHANGED <<reader, unpack, size, want, last, removed, errors, seeks>>

ReadFull ==
    /\ unpack = "full" /\ Len(frame) = size
    /\ HandOn(frame, buf)

-----------------------------------------------------------------------------
(* Read of the RetryReader, and the Reader it calls. *)

client == <<want, last, removed, seeks>>
Quiet == UNCHANGED <<buf, unpack, frame, size>>

\* Faulty variant of Restarted: keeps the Fragment which was opened.
RestartedDirect(r, n) == [NewReader(r.offset + n) EXCEPT !.direct = r.direct]

\* The Reader which replaces one that failed after Read of n bytes.
Restarted(r, n) == NewReader(r.offset + n)

\* An error which isn't expected, and which is retried.
Errs == errors < MaxErrors /\ errors' = errors + 1

\* Read of the opened Fragment, which ends with the Fragment or fails.
ReadDirect ==
    /\ Reads /\ reader.direct # 0
    /\ \E n \in 0..Min({Room, reader.direct - reader.offset}) :
       /\ Returned(Bytes(reader.offset, reader.offset + n))
       /\ \/ /\ n > 0
             /\ reader' = [reader EXCEPT !.offset = @ + n]
             /\ UNCHANGED errors
          \/ /\ reader.offset + n = reader.direct
             /\ reader' = Restarted(reader, n)
             /\ UNCHANGED errors
          \/ /\ reader.offset + n < reader.direct
             /\ reader' = Restarted(reader, n)
             /\ Errs
    /\ UNCHANGED client

\* Content of the last response which was not returned yet.
Remaining(r) ==
    IF r.resp[2] > r.offset - r.resp[1]
    THEN SubSeq(Bytes(r.resp[1], r.resp[1] + r.resp[2]), r.offset - r.resp[1] + 1, r.resp[2])
    ELSE <<>>

ReadRemaining ==
    /\ Reads /\ reader.direct = 0 /\ Remaining(reader) # <<>>
    /\ LET data == Remaining(reader)
           n == Min({Room, Len(data)})
       IN  /\ Returned(SubSeq(data, 1, n))
           /\ reader' = [reader EXCEPT !.offset = @ + n]
    /\ UNCHANGED <<errors, client>>

Receives == Reads /\ reader.direct = 0 /\ Remaining(reader) = <<>>

StartRead ==
    /\ Receives /\ reader.stream = <<>>
    /\ reader' = [reader EXCEPT !.stream = Stream(reader.offset)]
    /\ Quiet /\ UNCHANGED <<errors, client>>

\* The stream or its dial breaks.
Break ==
    /\ Receives
    /\ Errs
    /\ reader' = Restarted(reader, 0)
    /\ Quiet /\ UNCHANGED client

\* Read of a response of status OK: of an error if its offset is behind, and of
\* ErrOffsetJump if it's ahead.
Received(resp, url, stream) ==
    IF resp[1] < reader.offset
    THEN reader' = Restarted(reader, 0) /\ Quiet
    ELSE /\ reader' = [reader EXCEPT !.offset = resp[1], !.resp = resp, !.url = url,
                                   !.stream = stream]
         /\ IF reader.offset < resp[1] THEN Jumped ELSE Quiet

Available == Fragments \ removed

\* The server is to query its index next.
Querying == reader.stream # <<>> /\ reader.stream.end = 0 /\ ~reader.stream.closing

\* Query of the server's index, which waits for a Fragment at or after the offset.
\* The response has no content.  If the Fragment is remote it has its URL, and is the
\* last, as DoNotProxy is set.
ReceiveFragment ==
    /\ Receives /\ Querying
    /\ \E f \in Available, remote \in BOOLEAN :
       /\ f[2] > reader.stream.offset
       /\ \A g \in Available : g[2] > reader.stream.offset => g[1] >= f[1]
       /\ LET offset == Max({reader.stream.offset, f[1]})
              Else0(cond) == IF cond THEN f[2] ELSE 0
          IN  Received(<<offset, 0>>, Else0(remote),
                       [offset |-> offset, end |-> Else0(~remote), closing |-> remote])
    /\ UNCHANGED <<errors, client>>

\* The server is no longer a broker of the journal.
ReceiveStatus ==
    /\ Receives /\ Querying
    /\ Errs
    /\ reader' = Restarted(reader, 0)
    /\ Quiet /\ UNCHANGED client

\* A chunk of the Fragment.
ReceiveContent ==
    /\ Receives /\ reader.stream # <<>> /\ reader.stream.end # 0
    /\ LET s == reader.stream IN
       \E n \in 1..(s.end - s.offset) :
          Received(<<s.offset, n>>, 0,
                   [s EXCEPT !.offset = @ + n, !.end = IF s.offset + n = @ THEN 0 ELSE @])
    /\ UNCHANGED <<errors, client>>

\* The stream closes, and the Reader opens the Fragment URL.
OpenFragmentURL ==
    /\ Receives /\ reader.stream # <<>> /\ reader.stream.closing
    /\ reader' = IF \E f \in Available : f[2] = reader.url
                 THEN [reader EXCEPT !.direct = reader.url] ELSE Restarted(reader, 0)
    /\ Quiet /\ UNCHANGED <<errors, client>>

-----------------------------------------------------------------------------
\* Reader.Seek skips content of an opened Fragment, unless that fails.
Seeked(r, offset) ==
    {Restarted(r, offset - r.offset)} \cup
    IF r.direct = 0 \/ offset < r.offset \/ offset >= r.direct THEN {}
    ELSE {[r EXCEPT !.offset = offset]}

\* AdjustedSeek to a message, of a client between two messages.
AdjustedSeek ==
    /\ unpack = "header" /\ seeks < MaxSeeks
    /\ seeks' = seeks + 1
    /\ \E m \in Message :
       LET delta == Begins[m] - AdjustedOffset(reader.offset, buf) IN
       /\ IF 0 <= delta /\ delta <= Len(buf)
          THEN buf' = SubSeq(buf, delta + 1, Len(buf)) /\ UNCHANGED reader
          ELSE buf' = <<>> /\ reader' \in Seeked(reader, Begins[m])
       /\ want' = Begins[m]
    /\ UNCHANGED <<unpack, frame, size, last, removed, errors>>

\* The reader has opened Fragment f, or is part way through it.
Within(f) ==
    /\ f[1] <= reader.offset /\ reader.offset < f[2]
    /\ \/ f[1] < reader.offset \/ reader.direct = f[2]
       \/ reader.stream # <<>> /\ reader.stream.end = f[2]

\* A Fragment is removed from the journal.
RemoveFragment(f) ==
    /\ f \in Available /\ Cardinality(removed) < MaxRemoved
    /\ RemovesRead \/ ~Within(f)
    /\ removed' = removed \cup {f}
    /\ UNCHANGED <<reader, buf, unpack, frame, size, want, last, errors, seeks>>

Unpacks == PeekHeader \/ PeekBody \/ PeekFull \/ ReadBuffered \/ ReadFull

Receive ==
    \/ ReadDirect \/ ReadRemaining \/ StartRead \/ Break \/ ReceiveFragment
    \/ ReceiveStatus \/ ReceiveContent \/ OpenFragmentURL

Next == Unpacks \/ Receive \/ AdjustedSeek \/ \E f \in Fragments : RemoveFragment(f)

Spec == Init /\ [][Next]_vars

\* The client's goroutine and the server run, and errors are transient.
FairSpec == Spec /\ WF_vars(Unpacks \/ Receive)

-----------------------------------------------------------------------------
\* The types of the variables.
TypeOK ==
    /\ reader.offset \in 0..Last(Ends)
    /\ {reader.url, reader.direct} \subseteq {0} \cup ToSet(Ends)
    /\ reader.stream # <<>> =>
          reader.stream.offset \in 0..Last(Ends) /\ reader.stream.closing \in BOOLEAN
    /\ unpack \in {"header", "body", "full"}
    /\ Len(buf) <= BufferSize /\ Len(frame) <= size
    /\ want \in ToSet(Begins) \cup ToSet(Ends)
    /\ removed \subseteq Fragments
    /\ errors \in 0..MaxErrors /\ seeks \in 0..MaxSeeks

\* Each message handed on is, whole, one which was written, and it's handed on with the
\* offset at which it ends, where a consumer which recovers will go on reading.  It's handed
\* on once and in order, after the last one or where the client sought to: those in between
\* were removed with their Fragments.
MessagesInOrder ==
    last # <<>> =>
        /\ \E m \in Message : last.frame = Bytes(Begins[m], Ends[m]) /\ last.next = Ends[m]
        /\ Head(last.frame) >= last.want
        /\ \A m \in Message :
              last.want <= Begins[m] /\ Begins[m] < Head(last.frame) =>
                  \E f \in removed : f[1] <= Begins[m] /\ Ends[m] <= f[2]

\* However RPCs break and Fragments move or are removed, the client reads each message
\* which stays.
ReadsAll ==
    <>(\A f \in Fragments : f \in removed \/ want >= f[2])
=============================================================================
