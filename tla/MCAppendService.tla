-------------------------- MODULE MCAppendService --------------------------
(* AppendService on few clients, journals and calls, and the order in which a
   journal receives appends. *)
EXTENDS AppendService, SequencesExt

MCUnit == 1..MaxCalls
MCUnits == [n \in 1..MaxCalls |-> 2 - (n % 2)]
Symmetric == Permutations(Client) \cup Permutations(Journal)

\* Calls in the order of their first commit to a journal.
InOrderOfCommit(j) ==
    LET add(seq, n) == IF n \in Range(seq) THEN seq ELSE Append(seq, n)
        units       == FlattenSeq([i \in DOMAIN journals[j] |-> journals[j][i].content])
    IN  FoldLeft(add, <<>>, units)

\* The appends of a journal which were released and wrote something, in order.
Released(j) ==
    SelectSeq([n \in DOMAIN calls |-> n],
              LAMBDA n : calls[n].journal = j /\ calls[n].state = "released" /\ Units[n] > 0)

\* "In all cases, relative order of Appends is preserved": a journal receives its
\* appends in the order they were released, without gaps, and none which was rolled
\* back; whichever RPCs fail, are retried and are committed late.  An RPC is all or
\* nothing of each append in it: content which a roll-back or a failed write left in
\* the buffer isn't sent.
OrderPreserved ==
    \A j \in Journal :
       /\ IsPrefix(InOrderOfCommit(j), Released(j))
       /\ \A i \in DOMAIN journals[j] :
            LET content == journals[j][i].content
            IN  \A n \in Range(content) :
                  Cardinality({k \in DOMAIN content : content[k] = n}) = Units[n]

\* Not so of this code, and no part of a run: StartAppend returns.  A client which waits for
\* the mutex of a chain which ended waits forever if another one found the tombstone first.
StartsReturn == ENABLED Progress \/ \A c \in Client : clients[c].pc # "lock"
=============================================================================
