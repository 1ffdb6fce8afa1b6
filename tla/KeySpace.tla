------------------------------ MODULE KeySpace ------------------------------
(***************************************************************************)
(* A KeySpace (v2/pkg/keyspace/key_space.go and key_values.go): the mirror *)
(* of a prefix of Etcd, which applies batches of watch responses by one    *)
(* merge over its ordered key/values, and ignores values which don't       *)
(* decode.                                                                 *)
(***************************************************************************)
EXTENDS SequencesExt, Integers

CONSTANTS
    Key,        \* keys of the KeySpace, as naturals in their order; other keys are Outside
    Outside,    \* a key which isn't under the KeySpace's prefix
    MaxRev,     \* bound: revisions of Etcd
    MaxQueue,   \* bound: watch responses which queue before they're applied
    MaxNotify   \* bound: progress notifications

KeySpaceAssumption ==
    /\ Key \subseteq Nat /\ Outside \notin Key
    /\ MaxRev \in Nat /\ MaxQueue \in Nat /\ MaxNotify \in Nat

VARIABLES
    etcd,       \* the event of each revision of Etcd
    sent,       \* revision through which the watch was sent events
    notified,   \* number of progress notifications it was sent
    queue,      \* watch responses which await the apply timer
    header,     \* Header.Revision
    kvs,        \* KeyValues
    status,     \* "new", "watch", or "failed" once Watch returned an error
    waiter      \* a goroutine in WaitForRevision

vars == <<etcd, sent, notified, queue, header, kvs, status, waiter>>

\* An event puts a value, puts one which doesn't decode ("bad"), or deletes the key.
Types == {"put", "bad", "delete"}
Event(type, k, create, mod) == [type |-> type, key |-> k, create |-> create, mod |-> mod]

\* The events of a key through a revision.
EventsOf(k, rev) == SelectSeq(SubSeq(etcd, 1, rev), LAMBDA e : e.key = k)
Exists(es) == es # <<>> /\ Last(es).type # "delete"

Init ==
    /\ etcd = <<>> /\ sent = 0 /\ notified = 0 /\ queue = <<>>
    /\ header = 0 /\ kvs = <<>> /\ status = "new"
    /\ waiter = [for |-> 0, closed |-> FALSE]

\* Etcd puts or deletes a key, in a revision of its own.
Mutate(type, k) ==
    LET es == EventsOf(k, Len(etcd))
        rev == Len(etcd) + 1
    IN  /\ rev <= MaxRev
        /\ type = "delete" => Exists(es)
        /\ k = Outside => type = "put"
        /\ etcd' = Append(etcd, Event(type, k, IF Exists(es) THEN Last(es).create ELSE rev, rev))
        /\ UNCHANGED <<sent, notified, queue, header, kvs, status, waiter>>
-----------------------------------------------------------------------------
\* Search: the index of the first key/value which isn't of a lesser key.
Search(kv, k) == 1 + Len(SelectSeq(kv, LAMBDA e : e.key < k))
Found(kv, k) == Search(kv, k) <= Len(kv) /\ kv[Search(kv, k)].key = k

\* Load: each key/value of a revision which decodes, in order.
Loaded(rev) ==
    LET last == {Last(EventsOf(k, rev)) : k \in {key \in Key : Exists(EventsOf(key, rev))}}
    IN  SetToSortSeq({e \in last : e.type = "put"}, LAMBDA e, f : e.key < f.key)

\* Faulty variant of updateKeyValuesTail: a deletion of a key which isn't the tail is taken
\* for a deletion of the tail.
updateKeyValuesTailAnyKey(kv, e) ==
    CASE e.type = "bad" -> kv
      [] e.type = "delete" -> IF kv = <<>> THEN kv ELSE Front(kv)
      [] kv # <<>> /\ Last(kv).key = e.key -> Append(Front(kv), e)
      [] OTHER -> Append(kv, e)

\* updateKeyValuesTail.  The event is of the last key of kv, or of a key after it.
updateKeyValuesTail(kv, e) ==
    LET isTail == kv # <<>> /\ Last(kv).key = e.key
    IN  CASE isTail /\ Last(kv).mod >= e.mod -> kv
          [] e.type = "bad" -> kv
          [] e.type = "delete" -> IF isTail THEN Front(kv) ELSE kv
          [] OTHER -> Append(IF isTail THEN Front(kv) ELSE kv, e)

\* Less of watchResponseHeap, on (key, ModRevision).
Less(e, f) == e.key < f.key \/ (e.key = f.key /\ e.mod < f.mod)

\* The events of all responses, in the order in which the heap pops them.
Popped(responses) ==
    LET events == UNION {ToSet(responses[i].events) : i \in DOMAIN responses}
    IN  SetToSortSeq(events, Less)

\* One iteration over the heap: `current` is copied to `next` through the event's key, which is
\* then updated at the tail of `next`.
Merge(acc, e) ==
    LET n == Search(acc.current, e.key) - (IF Found(acc.current, e.key) THEN 0 ELSE 1)
    IN  [next |-> updateKeyValuesTail(acc.next \o SubSeq(acc.current, 1, n), e),
         current |-> SubSeq(acc.current, n + 1, Len(acc.current))]

Applied(kv, responses) ==
    LET acc == FoldLeft(Merge, [next |-> <<>>, current |-> kv], Popped(responses))
    IN  acc.next \o acc.current

\* Revisions of the responses of a batch must increase.
Increasing(responses) ==
    \A i \in 1..(Len(responses) - 1) : responses[i].rev < responses[i + 1].rev

\* The exception which Apply makes for a lone progress notification.  Apply has popped the events
\* of any other response by then, so that it takes each for one.
expectSameRevision(responses) == Len(responses) = 1 /\ responses[1].rev = header

patchHeader(responses) ==
    /\ Increasing(responses)
    /\ header < Last(responses).rev \/ expectSameRevision(responses)
-----------------------------------------------------------------------------
\* onUpdate closes updateCh, for all goroutines which wait on it.
onUpdate == [waiter EXCEPT !.closed = TRUE]

\* Load of the KeySpace at a revision.  The watch starts with the next.
Load(rev) ==
    /\ status = "new" /\ rev <= Len(etcd)
    /\ status' = "watch" /\ header' = rev /\ sent' = rev
    /\ kvs' = Loaded(rev)
    /\ waiter' = onUpdate
    /\ UNCHANGED <<etcd, notified, queue>>

\* The watch receives the events of one or more revisions.
Receive(rev) ==
    LET events == SelectSeq(SubSeq(etcd, sent + 1, rev), LAMBDA e : e.key \in Key)
    IN  /\ status = "watch" /\ Len(queue) < MaxQueue
        /\ sent < rev /\ rev <= Len(etcd) /\ events # <<>>
        /\ queue' = Append(queue, [rev |-> rev, events |-> events])
        /\ sent' = rev
        /\ UNCHANGED <<etcd, notified, header, kvs, status, waiter>>

\* Etcd notifies the watch, which was sent all events, of its progress.
Notify ==
    /\ status = "watch" /\ Len(queue) < MaxQueue /\ notified < MaxNotify
    /\ \A i \in (sent + 1)..Len(etcd) : etcd[i].key = Outside
    /\ queue' = Append(queue, [rev |-> Len(etcd), events |-> <<>>])
    /\ sent' = Len(etcd) /\ notified' = notified + 1
    /\ UNCHANGED <<etcd, header, kvs, status, waiter>>

\* The apply timer fires.  Watch returns an error of Apply, and nothing is applied.
Apply ==
    /\ status = "watch" /\ queue # <<>>
    /\ IF patchHeader(queue)
       THEN /\ header' = Last(queue).rev
            /\ kvs' = Applied(kvs, queue)
            /\ waiter' = onUpdate
            /\ UNCHANGED status
       ELSE status' = "failed" /\ UNCHANGED <<header, kvs, waiter>>
    /\ queue' = <<>>
    /\ UNCHANGED <<etcd, sent, notified>>

\* WaitForRevision blocks on updateCh, if the revision isn't there yet.
WaitForRevision(rev) ==
    /\ status = "watch" /\ waiter.for = 0 /\ rev > header
    /\ waiter' = [for |-> rev, closed |-> FALSE]
    /\ UNCHANGED <<etcd, sent, notified, queue, header, kvs, status>>

\* It's woken, and returns or blocks on the next updateCh.
Resume ==
    /\ waiter.for # 0 /\ waiter.closed
    /\ waiter' = [for |-> IF header >= waiter.for THEN 0 ELSE waiter.for, closed |-> FALSE]
    /\ UNCHANGED <<etcd, sent, notified, queue, header, kvs, status>>

Next ==
    \/ \E type \in Types, k \in Key \union {Outside} : Mutate(type, k)
    \/ \E rev \in 0..MaxRev : Load(rev) \/ Receive(rev) \/ WaitForRevision(rev)
    \/ Notify \/ Apply \/ Resume

Spec == Init /\ [][Next]_vars
-----------------------------------------------------------------------------
\* The types of the variables.
TypeOK ==
    /\ Len(etcd) <= MaxRev /\ sent \in 0..Len(etcd) /\ header \in 0..sent
    /\ notified \in 0..MaxNotify
    /\ Len(queue) <= MaxQueue
    /\ status \in {"new", "watch", "failed"}
    /\ waiter \in [for : 0..MaxRev, closed : BOOLEAN]

\* The KeySpace is Etcd at its Header.Revision, whichever way responses were batched: keys are
\* unique and in order, a key which was deleted isn't there, and a key with a value which
\* decodes has it, with its revisions.  A key whose last value doesn't decode may be missing, or
\* have an earlier value since its creation.
MirrorsEtcd ==
    /\ \A i \in 1..(Len(kvs) - 1) : kvs[i].key < kvs[i + 1].key
    /\ \A k \in Key :
         LET es == EventsOf(k, header)
             has == {e \in ToSet(kvs) : e.key = k}
         IN  IF ~Exists(es) THEN has = {}
             ELSE IF Last(es).type = "put" THEN has = {Last(es)}
             ELSE \A e \in has : e \in ToSet(es) /\ e.type = "put" /\ e.create = Last(es).create

\* No wake-up is lost: a goroutine whose revision was reached has been woken.
WaitersWoken == waiter.for # 0 /\ header >= waiter.for => waiter.closed
=============================================================================
