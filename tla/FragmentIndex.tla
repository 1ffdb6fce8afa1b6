--------------------------- MODULE FragmentIndex ---------------------------
(***************************************************************************)
(* The fragment index of a journal replica (v2/pkg/fragment/index.go), as  *)
(* its Spool commits to it, listings of the fragment stores replace its    *)
(* remote Fragments, and Read RPCs query it (v2/pkg/broker/read_api.go).   *)
(***************************************************************************)
EXTENDS CoverSet

CONSTANTS
    Fragments,    \* Fragments, as [begin, end], which brokers' Spools may commit
    StoreCount,   \* number of fragment stores of the JournalSpec
    Reads,        \* Read RPCs
    MaxOffset,    \* bound: greatest offset of the journal
    MaxStored     \* bound: Fragments which are persisted

FragmentIndexAssumption ==
    /\ MaxOffset \in Nat /\ MaxStored \in Nat /\ StoreCount \in Nat \ {0}
    /\ \A f \in Fragments : 0 <= f.begin /\ f.begin < f.end /\ f.end <= MaxOffset

VARIABLES
    set,     \* Fragments of the index
    local,   \* those of its Fragments which have a local File
    spool,   \* range of the Fragment of the replica's Spool
    stores,  \* Fragments in each of the stores
    walk,    \* the listing of the stores which is underway
    reads    \* Read RPCs

vars == <<set, local, spool, stores, walk, reads>>

\* A local Fragment has a File; a remote one has a ModTime.
Local(f) == [begin |-> f.begin, end |-> f.end, file |-> TRUE]
Remote(f) == [begin |-> f.begin, end |-> f.end, file |-> FALSE]

Nowhere == [begin |-> -1, end |-> -1]

\* `listing` is what was listed so far, up to `last` of the store `at`, and `held`
\* what that store held as its listing began.  There's no listing underway if `at`
\* is zero.
NoWalk == [listing |-> <<>>, at |-> 0, held |-> {}, last |-> Nowhere]

\* `offset` is that of the next byte to read; the zero offset of an idle read
\* has no meaning.  `frag` is the Fragment it's reading from.
Idle == [pc |-> "idle", block |-> FALSE, offset |-> 0, frag |-> Nowhere]

Init ==
    /\ set = <<>> /\ local = <<>>
    /\ spool = [begin |-> 0, end |-> 0]
    /\ stores = [n \in 1..StoreCount |-> {}]
    /\ walk = NoWalk
    /\ reads = [r \in Reads |-> Idle]

\* wakeBlockedQueries: those which wait on the condition channel look again.
Woken == [r \in Reads |-> IF reads[r].pc = "wait" THEN [reads[r] EXCEPT !.pc = "query"]
                                                  ELSE reads[r]]

-----------------------------------------------------------------------------
(* The Spool commits, rolls forward, and is persisted; as are those of the *)
(* journal's other brokers.                                                *)

SpoolCommit(f) ==
    /\ f.begin = spool.begin /\ f.end > spool.end
    /\ spool' = f
    /\ set' = Add(set, Local(f)).set
    /\ local' = Add(local, Local(f)).set
    /\ reads' = Woken
    /\ UNCHANGED <<stores, walk>>

Roll(begin) ==
    /\ begin >= spool.end /\ begin > spool.begin
    /\ spool' = [begin |-> begin, end |-> begin]
    /\ UNCHANGED <<set, local, stores, walk, reads>>

Stored == UNION {stores[n] : n \in DOMAIN stores}

\* A completed Spool of this broker, or of another, is uploaded.
Persist(f, n) ==
    /\ f \notin Stored /\ Cardinality(Stored) < MaxStored
    /\ stores' = [stores EXCEPT ![n] = @ \cup {f}]
    /\ UNCHANGED <<set, local, spool, walk, reads>>

-----------------------------------------------------------------------------
(* A refresh: WalkAllStores lists each store in turn, in the order of the  *)
(* Fragments' names, which begin with Begin and End.  Spools are committed *)
(* and persisted while it does; a store may or may not list a Fragment     *)
(* which was persisted after its listing began.                            *)

Before(f, g) == f.begin < g.begin \/ (f.begin = g.begin /\ f.end < g.end)

\* The Fragments which the store has yet to list.
Unlisted == {f \in walk.held : Before(walk.last, f)}

\* The walk, as it begins with the store n.
AtStore(w, n) == [w EXCEPT !.at = n, !.held = stores[n], !.last = Nowhere]

StartWalk ==
    /\ walk.at = 0
    /\ walk' = AtStore(walk, 1)
    /\ UNCHANGED <<set, local, spool, stores, reads>>

ListFragment ==
    /\ walk.at # 0
    /\ \E f \in stores[walk.at] :
         /\ Before(walk.last, f)
         /\ \A g \in Unlisted \ {f} : Before(f, g)
         /\ walk' = [walk EXCEPT !.listing = Add(@, Remote(f)).set, !.last = f]
    /\ UNCHANGED <<set, local, spool, stores, reads>>

ListNextStore ==
    /\ walk.at \in 1..(StoreCount - 1)
    /\ Unlisted = {}
    /\ walk' = AtStore(walk, walk.at + 1)
    /\ UNCHANGED <<set, local, spool, stores, reads>>

\* A store fails to list, and the index is left as it was.
FailWalk ==
    /\ walk.at # 0
    /\ walk' = NoWalk
    /\ UNCHANGED <<set, local, spool, stores, reads>>

Listed == walk.at = StoreCount /\ Unlisted = {}

\* The listing, extended with local Fragments; and whether all were added.
Extended(listing, frags) ==
    LET step(acc, f) == [set |-> Add(acc.set, f).set,
                         updated |-> acc.updated /\ Add(acc.set, f).updated]
    IN  FoldLeft(step, Updated(listing), frags)

\* ReplaceRemote panics if a local Fragment it keeps isn't added.
Replaces == Extended(walk.listing, CoverSetDifference(local, walk.listing))

\* Faulty variant of ReplaceRemote: leaves blocked queries waiting.
ReplaceRemoteSilently ==
    /\ Listed /\ Replaces.updated
    /\ local' = CoverSetDifference(local, walk.listing)
    /\ set' = Replaces.set
    /\ walk' = NoWalk
    /\ UNCHANGED <<spool, stores, reads>>

ReplaceRemote ==
    /\ Listed /\ Replaces.updated
    /\ local' = CoverSetDifference(local, walk.listing)
    /\ set' = Replaces.set
    /\ walk' = NoWalk
    /\ reads' = Woken
    /\ UNCHANGED <<spool, stores>>

-----------------------------------------------------------------------------
(* Read RPCs: serveRead queries the index, sends what the Fragment holds   *)
(* from the offset on, and queries for what is next.                       *)

StartRead(r) ==
    /\ reads[r].pc = "idle"
    /\ \E offset \in -1..MaxOffset, block \in BOOLEAN :
         reads' = [reads EXCEPT ![r] = [Idle EXCEPT !.pc = "query", !.block = block,
                                                    !.offset = offset]]
    /\ UNCHANGED <<set, local, spool, stores, walk>>

\* A read at the write head, -1, is one at the end of the index.
QueryOffset(r) == IF reads[r].offset = -1 THEN EndOffset(set) ELSE reads[r].offset

\* Faulty variant of Jumps: also from an offset which was found.
JumpsAnyway(offset) ==
    LET ind == Longest(set, offset)
    IN  ind <= Len(set) /\ ~set[ind].file

\* Whether a query of the offset may skip forward to the next Fragment, which
\* it does if that was also persisted long enough ago.
Jumps(offset) ==
    LET ind == Longest(set, offset)
    IN  ~Found(set, offset) /\ ind <= Len(set) /\ ~set[ind].file

\* An answer is taken from the Fragment at index `ind`.
Answered(r, offset, ind) ==
    reads' = [reads EXCEPT ![r] = [@ EXCEPT !.pc = "send", !.offset = offset, !.frag = set[ind]]]

\* Query, until it answers or waits.  The condition channel it waits on is that
\* which it read under the lock, so that it doesn't miss an update.
Query(r) ==
    /\ reads[r].pc = "query"
    /\ LET offset == QueryOffset(r)
           ind    == Longest(set, offset)
       IN  \/ Jumps(offset) /\ Answered(r, set[ind].begin, ind)
           \/ Found(set, offset) /\ Answered(r, offset, ind)
           \/ /\ ~Found(set, offset)
              /\ reads' = [reads EXCEPT ![r].offset = offset,
                                        ![r].pc = IF reads[r].block THEN "wait" ELSE "end"]
    /\ UNCHANGED <<set, local, spool, stores, walk>>

\* The content of the Fragment is sent from the offset on, through its end.
SendContent(r) ==
    /\ reads[r].pc = "send"
    /\ reads' = [reads EXCEPT ![r].pc = "query", ![r].offset = reads[r].frag.end,
                              ![r].frag = Nowhere]
    /\ UNCHANGED <<set, local, spool, stores, walk>>

\* The RPC ends: it's cancelled, fails to read, or wanted only metadata.
EndRead(r) ==
    /\ reads[r].pc \in {"query", "wait", "send"}
    /\ reads' = [reads EXCEPT ![r].pc = "end"]
    /\ UNCHANGED <<set, local, spool, stores, walk>>

-----------------------------------------------------------------------------
Next ==
    \/ \E f \in Fragments : SpoolCommit(f)
    \/ \E begin \in {f.begin : f \in Fragments} \cup {MaxOffset} : Roll(begin)
    \/ \E f \in Fragments, n \in 1..StoreCount : Persist(f, n)
    \/ StartWalk \/ ListFragment \/ ListNextStore \/ FailWalk \/ ReplaceRemote
    \/ \E r \in Reads : StartRead(r) \/ Query(r) \/ SendContent(r) \/ EndRead(r)

\* Each RPC has a goroutine, which runs while it can.
Fairness == \A r \in Reads : WF_vars(Query(r))

Spec == Init /\ [][Next]_vars /\ Fairness

-----------------------------------------------------------------------------
(* Properties.                                                             *)

Frags(s) == {s[i] : i \in DOMAIN s}

\* Sets hold non-empty Fragments, of which those of `local` have a File.  A read
\* which has queried the index knows its offset, if it asked for the write head.
TypeOK ==
    LET IndexFragment == {f \in [begin : 0..MaxOffset, end : 0..MaxOffset, file : BOOLEAN] :
                            f.begin < f.end}
    IN  /\ Frags(set) \subseteq IndexFragment
        /\ Frags(local) \subseteq {f \in IndexFragment : f.file}
        /\ Frags(walk.listing) \subseteq {f \in IndexFragment : ~f.file}
        /\ walk.at \in 0..StoreCount
        /\ \A r \in Reads : /\ reads[r].pc \in {"idle", "query", "wait", "send", "end"}
                            /\ reads[r].offset \in -1..MaxOffset
                            /\ reads[r].pc \in {"wait", "send"} => reads[r].offset # -1

\* The sets of the index are strictly ordered on End, however Fragments of
\* stores and of the Spool came to be added: what the binary searches of Add and
\* LongestOverlappingFragment need, and what makes EndOffset the greatest End.
SearchSorted ==
    \A s \in {set, local, walk.listing} : \A i, j \in DOMAIN s : i < j => s[i].end < s[j].end

\* LongestOverlappingFragment finds a Fragment at every offset which is covered,
\* and it's the one with the most content from there on, as its comment says.  No run
\* checks it: it isn't so for Fragments which nest and overlap (see the README).
FindsCovered ==
    \A offset \in Covered(set) :
       /\ Found(set, offset)
       /\ LET f == set[Longest(set, offset)]
          IN  offset \in Span(f) /\ \A g \in Frags(set) : offset \in Span(g) => g.end <= f.end

\* ReplaceRemote doesn't panic: CoverSetDifference keeps no local Fragment which
\* Add then finds to be covered already.
ReplacesCleanly == Listed => Replaces.updated

\* No step takes an offset out of the index.  A refresh drops a local Fragment,
\* and lets its File be collected, only if the listing covers all of it; though
\* Spools were committed, completed and persisted since the listing began.
NeverForgets == [][Covered(set) \subseteq Covered(set')]_vars

\* A read gets content in order.  What a query answers is at the offset that was
\* asked for, or is after it and skips only offsets which aren't in the index.
ReadsForward ==
    [][\A r \in Reads : reads[r].pc = "query" /\ reads'[r].pc = "send" =>
         LET asked == QueryOffset(r)
         IN  /\ reads'[r].offset >= asked
             /\ (asked..(reads'[r].offset - 1)) \cap Covered(set) = {}
             /\ reads'[r].offset \in Span(reads'[r].frag)]_vars

\* A read of an offset which is in the index, or comes to be while it waits, is
\* answered, or ends.
ReadsAnswered ==
    \A r \in Reads :
       (reads[r].pc \in {"query", "wait"} /\ reads[r].offset \in Covered(set))
          ~> reads[r].pc \in {"send", "end"}
=============================================================================
