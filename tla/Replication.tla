---------------------------- MODULE Replication ----------------------------
(***************************************************************************)
(* Replicated appends to one journal (v2/pkg/broker).  Brokers follow the  *)
(* journal's assignments in Etcd, each at its own pace.  The primary runs  *)
(* a pipeline of Replicate streams to its peers, synchronizes their Spools *)
(* when it is built, and pipelines Append RPCs and health checks through   *)
(* it.  Streams break, brokers crash or lose their lease, and the          *)
(* allocator moves the journal between brokers meanwhile.                  *)
(***************************************************************************)
EXTENDS Spool, FiniteSets

CONSTANTS
    Broker,
    Nobody,         \* in place of a Broker: a Route without primary
    Appends,        \* Append RPCs; each appends one byte, itself
    ResetAppends,   \* the Appends which give an explicit offset
    Pings,          \* health checks of maintenanceLoop
    R,              \* JournalSpec.Replication
    SpecCodec,      \* JournalSpec.Fragment.CompressionCodec
    InitMembers,    \* brokers to which the journal is first assigned
    InitPrimary,
    InitRefreshed,  \* bound: of these, the ones which start after their index's
                    \* first refresh, of stores which are still empty
    MayReassign,    \* whether a broker the journal was removed from may be
                    \* assigned it again
    MaxRev,         \* bound: Etcd revisions
    MaxPipelines,   \* bound: pipelines built
    Budgets,        \* bounds: `issued` operations, `cancels` of them, `breaks` of streams,
                    \* and `crashes` or lost leases of brokers
    Fallible        \* bound: brokers which may crash or lose their lease

ASSUME ReplicationAssumption ==
    /\ Byte = Appends /\ ResetAppends \subseteq Appends
    /\ IsFiniteSet(Broker) /\ Nobody \notin Broker
    /\ R \in Nat \ {0}
    /\ SpecCodec \in Codec
    /\ InitMembers \subseteq Broker /\ InitPrimary \in InitMembers
    /\ InitRefreshed \subseteq InitMembers
    /\ Cardinality(InitMembers) >= R
    /\ Fallible \subseteq Broker
    /\ \A b \in Budgets : b.issued \subseteq Appends \cup Pings

VARIABLES
    etcd,     \* the journal's assignments, by Etcd revision
    leased,   \* brokers whose Etcd lease is live
    live,     \* brokers which are running
    view,     \* revision of each broker's KeySpace
    local,    \* resolver.replicas: index of each broker's current replica
    rep,      \* replicas, by broker and index
    pipes,    \* pipelines, in order of creation
    ops,      \* Append RPCs and health checks
    acked,    \* Append responses of status OK: the append, its offset and the Route
    store,    \* the fragment store
    budget    \* what is issued, and failures which may still happen

vars == <<etcd, leased, live, view, local, rep, pipes, ops, acked, store, budget>>
etcdVars == <<etcd, leased>>
brokerVars == <<live, view, local>>

Op == Appends \cup Pings

-----------------------------------------------------------------------------
(* Etcd.  A revision maps the journal to its assigned brokers, its primary *)
(* (slot 0), and the Route stored as the value of each assignment.         *)

NoRoute == [members |-> {}, primary |-> Nobody]
RouteOf(e) == [members |-> e.members, primary |-> e.primary]
Route(rev) == RouteOf(etcd[rev])
Latest == etcd[Len(etcd)]

\* JournalSpec.IsConsistent.
IsConsistent(e) == \A b \in e.members : e.value[b] = RouteOf(e)

\* The assignments of `rev`, and their values, have not been touched since.
Unmodified(rev) ==
    \A n \in rev..Len(etcd), b \in etcd[rev].members :
        /\ b \in etcd[n].members
        /\ (b = etcd[n].primary) = (b = etcd[rev].primary)
        /\ etcd[n].value[b] = etcd[rev].value[b]

Put(e) == Len(etcd) < MaxRev /\ etcd' = Append(etcd, e)

-----------------------------------------------------------------------------
(* Replicas (replica.go).  `spoolCh` and `plnCh` are the replica's two     *)
(* channels: whether the Spool is in its channel, and what is in the other *)
(* one, a pipeline, nil, a revision to read through, or nothing as some    *)
(* goroutine owns it.  `commitEnd` and `remoteEnd` are the extents of the  *)
(* local and remote fragments of its index.                                *)

Taken == <<"taken">>
Nil == <<"nil">>
Pln(p) == <<"pipeline", p>>
ReadThrough(rev) == <<"readThroughRev", rev>>

newReplica ==
    [spool |-> NewSpool, commitEnd |-> 0, remoteEnd |-> -1, queued |-> {},
     spoolCh |-> TRUE, plnCh |-> Nil, down |-> "no", downPln |-> 0]

EndOffset(r) == IF r.remoteEnd > r.commitEnd THEN r.remoteEnd ELSE r.commitEnd

\* Faulty variant of Propose: a peer rolls back what it's to commit.
ProposeOnlyAsPrimary(r, proposal, primary) ==
    [r EXCEPT !.spool = IF Commits(@, proposal) /\ ~primary THEN RolledBack(@)
                        ELSE applyCommit(@, proposal, primary, FALSE),
              !.queued = IF Completes(r.spool, proposal)
                         THEN @ \cup {Completion(r.spool)} ELSE @]

\* Spool.Apply of a proposal, with its SpoolCommit and SpoolComplete callbacks.
Propose(r, proposal, primary) ==
    [r EXCEPT !.spool = applyCommit(@, proposal, primary, FALSE),
              !.commitEnd = IF Commits(r.spool, proposal) /\ proposal.end > @
                            THEN proposal.end ELSE @,
              !.queued = IF Completes(r.spool, proposal)
                         THEN @ \cup {Completion(r.spool)} ELSE @]

\* Faulty variant of ReleaseSpool: the Spool is not returned.
ReleaseSpoolForgets(r) == Propose(r, r.spool.frag, FALSE)

\* Spool.Apply of content.
WithContent(r, content) == [r EXCEPT !.spool = applyContent(@, content)]

\* MustApply of the current Fragment, and the return of the Spool.
ReleaseSpool(r) == [Propose(r, r.spool.frag, FALSE) EXCEPT !.spoolCh = TRUE]

-----------------------------------------------------------------------------
(* Pipelines (pipeline.go) and their Replicate streams.  A stream is the   *)
(* requests in flight, the responses in flight, whether the primary closed *)
(* its send-side, whether it is broken, and the state of the peer's RPC.   *)

NewStream == [reqs |-> <<>>, resps |-> <<>>, closed |-> FALSE, broken |-> FALSE,
              srv |-> "start", index |-> 0]

newPipeline(b, index, rev, unreachable) ==
    [broker |-> b, index |-> index, rev |-> rev,
     streams |-> [m \in Route(rev).members \ ({b} \cup unreachable) |->
                    [NewStream EXCEPT !.broken = m \notin live]],
     sendErrs |-> unreachable, recvErrs |-> {},
     readers |-> <<>>,          \* operations awaiting the read barrier, in order
     stopping |-> FALSE,        \* `go pln.shutdown(false)` was started
     closed |-> FALSE]          \* closeSend has returned the Spool

Peers(pln) == DOMAIN pln.streams
WithStream(pln, m, st) == [pln EXCEPT !.streams = [@ EXCEPT ![m] = st]]

\* Faulty variant of Proposal: asks for every acknowledgement.
ProposalAlwaysAcked(f, ack) == [frag |-> f, ack |-> TRUE]

Proposal(f, ack) == [frag |-> f, ack |-> ack]
Content(o) == [content |-> <<o>>, delta |-> 0]

\* The send-side of scatter, where sends to `errs` fail.
Send(pln, msg, errs) ==
    [pln EXCEPT !.sendErrs = @ \cup errs,
                !.streams = [m \in Peers(pln) |->
                    IF m \in pln.sendErrs \cup errs THEN pln.streams[m]
                    ELSE [pln.streams[m] EXCEPT !.reqs = Append(@, msg)]]]

closeSend(pln) ==
    [pln EXCEPT !.closed = TRUE,
                !.streams = [m \in Peers(pln) |-> [pln.streams[m] EXCEPT !.closed = TRUE]]]

\* A stream which will deliver no further response.
Ended(stream) == stream.srv = "end" \/ stream.broken
\* Sends over such a stream may fail, or may still be buffered.
MayFail(pln) == {m \in Peers(pln) \ pln.sendErrs : Ended(pln.streams[m])}

\* RecvMsg doesn't block for any of the pipeline's streams.
Gatherable(pln) == \A m \in Peers(pln) \ pln.recvErrs :
    pln.streams[m].resps # <<>> \/ Ended(pln.streams[m])

\* gather: receive one response, or an error, from every unfailed stream.
Received(pln) == {m \in Peers(pln) \ pln.recvErrs : pln.streams[m].resps # <<>>}
Response(pln, m) == Head(pln.streams[m].resps)

gather(pln, rejected) ==
    [pln EXCEPT !.recvErrs = (Peers(pln) \ Received(pln)) \cup rejected,
                !.streams = [m \in Peers(pln) |-> IF m \in Received(pln)
                    THEN [pln.streams[m] EXCEPT !.resps = Tail(@)] ELSE pln.streams[m]]]

gatherOK(pln) ==
    gather(pln, {m \in Received(pln) : Response(pln, m).status # "OK"})

\* gatherEOF has nothing left to wait for.
AllEOF(pln) == \A m \in Peers(pln) \ pln.recvErrs : Ended(pln.streams[m])

-----------------------------------------------------------------------------
(* Operations: Append RPCs and health checks, as goroutines of the broker  *)
(* which is primary.                                                       *)

Idle == [pc |-> "idle", broker |-> Nobody, index |-> 0, rev |-> 0, pln |-> 0,
         frag |-> NewSpool.frag,   \* proposal of the current round of synchronize
         offset |-> -1,            \* offset of the appended content
         sendErr |-> FALSE]
Done == [Idle EXCEPT !.pc = "done"]

SetRep(b, i, r) == rep' = [rep EXCEPT ![b] = [@ EXCEPT ![i] = r]]
Replica(o) == rep[ops[o].broker][ops[o].index]
SetReplica(o, r) == SetRep(ops[o].broker, ops[o].index, r)
SetOp(o, op) == ops' = [ops EXCEPT ![o] = op]
SetPipe(p, pln) == pipes' = [pipes EXCEPT ![p] = pln]
SetStream(p, m, st) == SetPipe(p, WithStream(pipes[p], m, st))

\* resolver.resolve(requirePrimary, requireFullAssignment) at broker b is OK,
\* with a local replica.
ResolvesPrimary(b) ==
    /\ Route(view[b]).primary = b
    /\ Cardinality(Route(view[b]).members) >= R
    /\ local[b] # 0

\* Append and maintenanceLoop begin with a resolution, at no less than the
\* revision they were last told to read through.
Resolve(o, b) ==
    /\ ops[o].pc = "idle" /\ o \in budget.issued
    /\ b \in live
    /\ ops[o].broker \in {Nobody, b}
    /\ view[b] >= ops[o].rev
    /\ IF ResolvesPrimary(b)
       THEN SetOp(o, [Idle EXCEPT !.pc = "acquire", !.broker = b,
                                  !.index = local[b], !.rev = view[b]])
       ELSE ops[o].broker = b /\ SetOp(o, Done)
    /\ UNCHANGED <<etcdVars, brokerVars, rep, pipes, acked, store, budget>>

\* acquirePipeline, through its receive from pipelineCh (of a replica which is
\* not cancelled) and the decision which it takes.  An Append first waits for
\* the first refresh of the index.
AcquirePipeline(o) ==
    /\ ops[o].pc = "acquire"
    /\ Replica(o).plnCh # Taken /\ Replica(o).down # "done"
    /\ o \in Appends => Replica(o).remoteEnd # -1
    /\ LET ch == Replica(o).plnCh
           stale(p) == /\ Route(pipes[p].rev) # Route(ops[o].rev)
                       /\ pipes[p].rev < ops[o].rev
           take(pc, p) ==
                /\ SetOp(o, [ops[o] EXCEPT !.pc = pc, !.pln = p])
                /\ SetReplica(o, [Replica(o) EXCEPT !.plnCh = Taken])
       IN  \* A pipeline which may be used.
           \/ /\ ch[1] = "pipeline" /\ ~stale(ch[2])
              /\ take("serve", ch[2])
              /\ UNCHANGED pipes
           \* A pipeline of an older Route: tear it down, build another.
           \/ /\ ch[1] = "pipeline" /\ stale(ch[2])
              /\ take("spool", 0)
              /\ SetPipe(ch[2], [pipes[ch[2]] EXCEPT !.stopping = TRUE])
           \* No pipeline, or a placeholder we've read through.
           \/ /\ ch = Nil \/ (ch[1] = "readThroughRev" /\ ch[2] <= ops[o].rev)
              /\ take("spool", 0)
              /\ UNCHANGED pipes
           \* A placeholder which directs us to read through its revision.
           \/ /\ ch[1] = "readThroughRev" /\ ch[2] > ops[o].rev
              /\ SetOp(o, IF o \in Appends
                          THEN [Idle EXCEPT !.broker = ops[o].broker, !.rev = ch[2]]
                          ELSE Done)
              /\ UNCHANGED <<rep, pipes>>
    /\ UNCHANGED <<etcdVars, brokerVars, acked, store, budget>>

\* acquireSpool, newPipeline, and the first scatter of synchronize.  Dials of
\* brokers which are down may fail at once.
BuildPipeline(o) ==
    /\ ops[o].pc = "spool"
    /\ Replica(o).spoolCh /\ Replica(o).down # "done"
    /\ Len(pipes) < MaxPipelines
    /\ LET b == ops[o].broker
           f == Replica(o).spool.frag
       IN  \E unreachable \in SUBSET (Route(ops[o].rev).members \ ({b} \cup live)) :
             LET pln == newPipeline(b, ops[o].index, ops[o].rev, unreachable)
             IN  pipes' = Append(pipes, Send(pln, Proposal(f, TRUE), {}))
           /\ SetReplica(o, [Propose(Replica(o), f, TRUE) EXCEPT !.spoolCh = FALSE])
           /\ SetOp(o, [ops[o] EXCEPT !.pc = "sync", !.pln = Len(pipes) + 1, !.frag = f])
    /\ UNCHANGED <<etcdVars, brokerVars, acked, store, budget>>

\* A goroutine blocked in acquirePipeline ends when its replica is shut down.
AbortAcquire(o) ==
    /\ ops[o].pc = "acquire" /\ Replica(o).down = "done"
    /\ SetOp(o, Done)
    /\ UNCHANGED <<etcdVars, brokerVars, rep, pipes, acked, store, budget>>

\* Faulty variant of CancelAcquire: keeps pipelineCh.
CancelAcquireLeaksPipeline(o) ==
    /\ ops[o].pc \in {"acquire", "spool"}
    /\ budget.cancels > 0
    /\ budget' = [budget EXCEPT !.cancels = @ - 1]
    /\ SetOp(o, Done)
    /\ UNCHANGED <<etcdVars, brokerVars, rep, pipes, acked, store>>

\* It also ends when its RPC is cancelled or its health check times out.  Then
\* it gives back its ownership of the pipeline channel.
CancelAcquire(o) ==
    /\ ops[o].pc \in {"acquire", "spool"}
    /\ budget.cancels > 0
    /\ budget' = [budget EXCEPT !.cancels = @ - 1]
    /\ SetOp(o, Done)
    /\ IF ops[o].pc = "spool" THEN SetReplica(o, [Replica(o) EXCEPT !.plnCh = Nil])
                              ELSE UNCHANGED rep
    /\ UNCHANGED <<etcdVars, brokerVars, pipes, acked, store>>

-----------------------------------------------------------------------------
(* synchronize: one round of gatherSync, over the responses of all peers.  *)

Mismatched(pln) == {m \in Received(pln) : Response(pln, m).status = "FRAGMENT_MISMATCH"}
WrongRoute(pln) == {m \in Received(pln) : Response(pln, m).status = "WRONG_ROUTE"}

\* Peers at a greater offset, or which hold none of the proposed content, have
\* the pipeline roll to their End.
RollPeers(pln, proposal) == {m \in Mismatched(pln) :
    LET f == Response(pln, m).frag
    IN  f.end > proposal.end \/ (f.end = proposal.end /\ ContentLength(f) = 0)}
\* Peers of a different Route at a later revision have us read through it.
LaterPeers(pln) == {m \in WrongRoute(pln) :
    LET rev == Response(pln, m).rev
    IN  Route(rev) # Route(pln.rev) /\ rev > pln.rev}

MaxOf(S) == CHOOSE n \in S : \A k \in S : k <= n

gatherSync(pln, proposal) ==
    gather(pln, {m \in Received(pln) : Response(pln, m).status # "OK"}
                    \ (RollPeers(pln, proposal) \cup LaterPeers(pln)))
rollToOffset(pln, proposal) ==
    MaxOf({0} \cup {Response(pln, m).frag.end : m \in RollPeers(pln, proposal)})
readThroughRev(pln) ==
    MaxOf({0} \cup {Response(pln, m).rev : m \in LaterPeers(pln)})

\* closeSend within the goroutine of operation o, which keeps pipelineCh.
CloseSync(o, pln, pc, rev) ==
    /\ SetPipe(ops[o].pln, closeSend(pln))
    /\ SetReplica(o, ReleaseSpool(Replica(o)))
    /\ SetOp(o, [ops[o] EXCEPT !.pc = pc, !.rev = rev, !.frag = Idle.frag])

Synchronize(o) ==
    /\ ops[o].pc = "sync"
    /\ Gatherable(pipes[ops[o].pln])
    /\ LET pln  == pipes[ops[o].pln]
           next == gatherSync(pln, ops[o].frag)
           roll == rollToOffset(pln, ops[o].frag)
           through == readThroughRev(pln)
           f == EmptyAt(roll, ops[o].frag.codec)
       IN  \/ /\ next.recvErrs # {} \/ next.sendErrs # {}
              /\ CloseSync(o, next, "failSync", ops[o].rev)
           \/ /\ next.recvErrs = {} /\ next.sendErrs = {} /\ roll # 0
              /\ \E errs \in SUBSET MayFail(next) :
                    SetPipe(ops[o].pln, Send(next, Proposal(f, TRUE), errs))
              /\ SetReplica(o, Propose(Replica(o), f, TRUE))
              /\ SetOp(o, [ops[o] EXCEPT !.frag = f])
           \/ /\ next.recvErrs = {} /\ next.sendErrs = {} /\ roll = 0 /\ through # 0
              /\ CloseSync(o, next, "readThrough", through)
           \/ /\ next.recvErrs = {} /\ next.sendErrs = {} /\ roll = 0 /\ through = 0
              /\ SetPipe(ops[o].pln, next)
              /\ SetOp(o, [ops[o] EXCEPT !.pc = "serve", !.frag = Idle.frag])
              /\ UNCHANGED rep
    /\ UNCHANGED <<etcdVars, brokerVars, acked, store, budget>>

\* The end of synchronize's shutdown, once all peers have closed their streams.
\* The pipeline channel gets nil, or a placeholder of the revision to read; an
\* Append told of a revision resolves again.
EndSynchronize(o) ==
    /\ ops[o].pc \in {"failSync", "readThrough"}
    /\ AllEOF(pipes[ops[o].pln])
    /\ IF ops[o].pc = "failSync"
       THEN /\ SetReplica(o, [Replica(o) EXCEPT !.plnCh = Nil])
            /\ SetOp(o, Done)
       ELSE /\ SetReplica(o, [Replica(o) EXCEPT !.plnCh = ReadThrough(ops[o].rev)])
            /\ SetOp(o, IF o \in Appends
                        THEN [Idle EXCEPT !.broker = ops[o].broker, !.rev = ops[o].rev]
                        ELSE Done)
    /\ UNCHANGED <<etcdVars, brokerVars, pipes, acked, store, budget>>

-----------------------------------------------------------------------------
(* serveAppend and checkHealth: the messages which they scatter through a  *)
(* pipeline they own, and its release to the next owner.                   *)

\* nextProposal: an empty Fragment, or one at the start of the journal, is
\* rolled.  So is one over its target length or flush interval (`flush`).
nextProposal(s, flush) ==
    IF ContentLength(s.frag) = 0 \/ s.frag.begin = 0 \/ flush
    THEN EmptyAt(s.frag.end, SpecCodec) ELSE s.frag

\* Scatter a proposal without acknowledgement to the peers, and apply it to the
\* primary's Spool: `x` is the replica and its pipeline.
Scatter(x, f, errs) ==
    IF f = x.r.spool.frag THEN x
    ELSE [r   |-> Propose(x.r, f, TRUE),
          pln |-> Send(x.pln, Proposal(f, FALSE), errs)]

\* An explicit offset rolls the Fragment to it, and nextProposal may do so again.
RollFragment(x, flush, errs) ==
    LET y == IF EndOffset(x.r) > x.r.spool.frag.end
             THEN Scatter(x, EmptyAt(EndOffset(x.r), x.r.spool.frag.codec), errs) ELSE x
    IN  Scatter(y, nextProposal(y.r.spool, flush), errs)

\* releasePipelineAndGatherResponse, up to its read barrier: `pln` and `r` are
\* the pipeline and replica after the operation's sends, `offset` where it has
\* appended its content.
ReleasePipeline(o, pln, r, offset) ==
    LET failed == pln.sendErrs # {}
        queued == [pln EXCEPT !.readers = Append(@, o)]
    IN  /\ SetPipe(ops[o].pln, IF failed THEN closeSend(queued) ELSE queued)
        /\ SetReplica(o, IF failed THEN [ReleaseSpool(r) EXCEPT !.plnCh = Nil]
                                   ELSE [r EXCEPT !.plnCh = Pln(ops[o].pln)])
        /\ SetOp(o, [ops[o] EXCEPT !.pc = "gather", !.offset = offset,
                                    !.sendErr = failed])

\* An append is refused if the index holds a greater offset, unless it gives an
\* explicit offset; and if it gives one other than the greatest offset.
RefuseAppend(o) ==
    /\ ops[o].pc = "serve" /\ o \in Appends
    /\ o \in ResetAppends \/ EndOffset(Replica(o)) > Replica(o).spool.frag.end
    /\ SetReplica(o, [Replica(o) EXCEPT !.plnCh = Pln(ops[o].pln)])
    /\ SetOp(o, Done)
    /\ UNCHANGED <<etcdVars, brokerVars, pipes, acked, store, budget>>

\* serveAppend: roll the Fragment if need be (to an explicit offset first),
\* stream the content, then commit it, or roll it back if the client failed.
\* `errs` are the peers to which the sends of rolls, of content, and of the last
\* proposal fail.  The first two end the append before that proposal; an error
\* which only the proposal meets comes too late to stop the other replicas.
ServeAppend(o) ==
    /\ ops[o].pc = "serve" /\ o \in Appends
    /\ o \in ResetAppends \/ EndOffset(Replica(o)) <= Replica(o).spool.frag.end
    /\ \E errs \in [1..3 -> SUBSET MayFail(pipes[ops[o].pln])] :
       \E flush, commit \in BOOLEAN :
         LET x   == RollFragment([r |-> Replica(o), pln |-> pipes[ops[o].pln]], flush, errs[1])
             r   == WithContent(x.r, <<o>>)
             pln == Send(x.pln, Content(o), errs[2])
             f   == IF commit THEN NextFragment(r.spool) ELSE r.spool.frag
         IN  \/ /\ pln.sendErrs # {} /\ ~commit /\ errs[3] = {}
                /\ ReleasePipeline(o, pln, r, -1)
             \/ /\ pln.sendErrs = {}
                /\ ReleasePipeline(o, Send(pln, Proposal(f, TRUE), errs[3]), Propose(r, f, TRUE),
                                   IF commit THEN r.spool.frag.end ELSE -1)
    /\ UNCHANGED <<etcdVars, brokerVars, acked, store, budget>>

\* checkHealth: scatter a no-op, or a roll of the Fragment, to be acknowledged.
ServePing(o) ==
    /\ ops[o].pc = "serve" /\ o \in Pings
    /\ \E errs \in SUBSET MayFail(pipes[ops[o].pln]) : \E flush \in BOOLEAN :
         LET f == nextProposal(Replica(o).spool, flush)
         IN  ReleasePipeline(o, Send(pipes[ops[o].pln], Proposal(f, TRUE), errs),
                             Propose(Replica(o), f, TRUE), -1)
    /\ UNCHANGED <<etcdVars, brokerVars, acked, store, budget>>

\* Having passed the read barrier, gather the expected response of every peer,
\* and after a send error the end of all streams.  If no error was met an
\* Append is acknowledged, unless it was its client that failed.
Gather(o) ==
    /\ ops[o].pc = "gather"
    /\ LET p    == ops[o].pln
           next == gatherOK(pipes[p])
           ok   == next.recvErrs = {} /\ ~ops[o].sendErr
       IN  /\ pipes[p].readers # <<>> /\ Head(pipes[p].readers) = o
           /\ Gatherable(pipes[p])
           /\ ops[o].sendErr => AllEOF(next)
           /\ SetPipe(p, [next EXCEPT !.readers = Tail(@)])
           /\ acked' = IF ok /\ o \in Appends /\ ops[o].offset # -1
                       THEN acked \cup {[op |-> o, offset |-> ops[o].offset,
                                          members |-> Route(pipes[p].rev).members]}
                       ELSE acked
           /\ SetOp(o, IF ok /\ o \in Pings THEN [ops[o] EXCEPT !.pc = "update"]
                                            ELSE Done)
    /\ UNCHANGED <<etcdVars, brokerVars, rep, store, budget>>

\* Faulty variant of AdvertiseRoute: of assignments changed since.
AdvertiseRouteOfLatest(rev) ==
    Put([Latest EXCEPT !.value =
            [b \in Broker |-> IF b \in Latest.members THEN RouteOf(Latest) ELSE Latest.value[b]]])

\* Put the Route of `rev` as the value of each of its assignments.
AdvertiseRoute(rev) ==
    /\ Unmodified(rev)
    /\ Put([Latest EXCEPT !.value =
            [b \in Broker |-> IF b \in Route(rev).members THEN Route(rev) ELSE Latest.value[b]]])

\* updateAssignments: a transaction over the assignments of the resolution.
\* It's skipped if they're consistent, and may lose to another one or fail.
UpdateAssignments(o) ==
    /\ ops[o].pc = "update"
    /\ SetOp(o, Done)
    /\ \/ UNCHANGED etcd
       \/ ~IsConsistent(etcd[ops[o].rev]) /\ AdvertiseRoute(ops[o].rev)
    /\ UNCHANGED <<leased, brokerVars, rep, pipes, acked, store, budget>>

-----------------------------------------------------------------------------
(* Replicate (replicate_api.go), by the peer m of pipeline p.              *)

\* Replicate's resolution, which first reads through the primary's revision.
\* It requires that m be assigned and the journal fully so, and that the Route
\* be that of the request.
StartReplicate(p, m) ==
    /\ m \in live
    /\ pipes[p].streams[m].srv = "start" /\ pipes[p].streams[m].reqs # <<>>
    /\ view[m] >= pipes[p].rev
    /\ LET rt == Route(view[m])
           st == pipes[p].streams[m]
           refused(status) ==
              [st EXCEPT !.srv = "end", !.reqs = <<>>,
                         !.resps = <<[status |-> status, rev |-> view[m]]>>]
       IN  SetStream(p, m,
              IF m \notin rt.members \/ Cardinality(rt.members) < R
              THEN refused("NOT_JOURNAL_BROKER")
              ELSE IF rt # Route(pipes[p].rev) THEN refused("WRONG_ROUTE")
              ELSE [st EXCEPT !.srv = "acquire", !.index = local[m]])
    /\ UNCHANGED <<etcdVars, brokerVars, rep, ops, acked, store, budget>>

\* One iteration of serveReplicate: apply the next request to the Spool of
\* replica i, and respond to it if asked to.  A chunk of an unexpected delta,
\* or an unacknowledged proposal which doesn't apply, ends the RPC.
ServeRequest(p, m, i) ==
    LET st  == pipes[p].streams[m]
        req == Head(st.reqs)
        r   == [rep[m][i] EXCEPT !.spoolCh = FALSE]
        isContent == "content" \in DOMAIN req
        ok == IF isContent THEN ContentOK(r.spool, req.delta) ELSE CommitOK(r.spool, req.frag)
        applied == IF ~isContent THEN Propose(r, req.frag, FALSE)
                   ELSE IF ok THEN WithContent(r, req.content) ELSE r
        resp == IF ok THEN [status |-> "OK"]
                ELSE [status |-> "FRAGMENT_MISMATCH", frag |-> applied.spool.frag]
        acks == ~isContent /\ req.ack
        ends == ~ok /\ ~acks
    IN  /\ st.reqs # <<>>
        /\ SetRep(m, i, IF ends THEN ReleaseSpool(applied) ELSE applied)
        /\ SetStream(p, m,
                [st EXCEPT !.reqs = IF ends THEN <<>> ELSE Tail(@),
                           !.resps = IF acks /\ ~st.broken THEN Append(@, resp) ELSE @,
                           !.srv = IF ends THEN "end" ELSE "serve"])
        /\ UNCHANGED <<etcdVars, brokerVars, ops, acked, store, budget>>

\* Replicate acquires the Spool of the replica it resolved, and then serves.
AcquireSpool(p, m) ==
    /\ pipes[p].streams[m].srv = "acquire"
    /\ rep[m][pipes[p].streams[m].index].spoolCh
    /\ ServeRequest(p, m, pipes[p].streams[m].index)

Serve(p, m) ==
    /\ pipes[p].streams[m].srv = "serve"
    /\ ServeRequest(p, m, pipes[p].streams[m].index)

\* Replicate ends on the EOF of its stream, or its break.  It may then have yet
\* to read requests of a broken stream.  The Spool is rolled back and returned.
EndReplicate(p, m) ==
    LET st == pipes[p].streams[m]
    IN  /\ m \in live
        /\ \/ st.srv \in {"start", "acquire", "serve"} /\ st.broken
           \/ st.srv \in {"start", "serve"} /\ st.closed /\ st.reqs = <<>>
           \/ st.srv = "acquire" /\ rep[m][st.index].down = "done"
        /\ SetStream(p, m, [st EXCEPT !.srv = "end", !.reqs = <<>>])
        /\ IF st.srv = "serve"
           THEN SetRep(m, st.index, ReleaseSpool(rep[m][st.index])) ELSE UNCHANGED rep
        /\ UNCHANGED <<etcdVars, brokerVars, ops, acked, store, budget>>

\* `go pln.shutdown(false)` reaches closeSend, and returns the primary's Spool.
\* Its gathering of EOFs has no further effect.
ShutDownPipeline(p) ==
    /\ pipes[p].broker \in live
    /\ pipes[p].stopping /\ ~pipes[p].closed
    /\ SetPipe(p, closeSend(pipes[p]))
    /\ LET b == pipes[p].broker
           i == pipes[p].index
       IN  SetRep(b, i, ReleaseSpool(rep[b][i]))
    /\ UNCHANGED <<etcdVars, brokerVars, ops, acked, store, budget>>

-----------------------------------------------------------------------------
(* The resolver follows the KeySpace (updateResolutions), and shuts down   *)
(* replicas which are no longer assigned (shutDownReplica).                *)

StartReplica(b, rev) ==
    /\ b \in Route(rev).members /\ local[b] = 0
    /\ rep' = [rep EXCEPT ![b] = Append(@, newReplica)]
    /\ local' = [local EXCEPT ![b] = Len(rep[b]) + 1]

CancelReplica(b, rev) ==
    /\ b \notin Route(rev).members /\ local[b] # 0
    /\ SetRep(b, local[b], [rep[b][local[b]] EXCEPT !.down = "pipeline"])
    /\ local' = [local EXCEPT ![b] = 0]

KeepReplica(b, rev) ==
    /\ (b \in Route(rev).members) = (local[b] # 0)
    /\ UNCHANGED <<rep, local>>

\* Watched revisions are applied in batches, and observed once for each batch.
Observe(b, rev) ==
    /\ b \in live
    /\ rev \in (view[b] + 1)..Len(etcd)
    /\ view' = [view EXCEPT ![b] = rev]
    /\ StartReplica(b, rev) \/ CancelReplica(b, rev) \/ KeepReplica(b, rev)
    /\ UNCHANGED <<etcdVars, live, pipes, ops, acked, store, budget>>

SetDown(b, i, r) ==
    /\ SetRep(b, i, r)
    /\ UNCHANGED <<etcdVars, brokerVars, ops, acked, store, budget>>

\* Take the pipeline, and close it.
DrainPipeline(b, i) ==
    LET r == rep[b][i]
    IN  /\ r.down = "pipeline" /\ r.plnCh # Taken
        /\ \/ /\ r.plnCh[1] = "pipeline"
              /\ SetPipe(r.plnCh[2], closeSend(pipes[r.plnCh[2]]))
              /\ SetDown(b, i, [ReleaseSpool(r) EXCEPT !.plnCh = Taken, !.down = "eof",
                                                       !.downPln = r.plnCh[2]])
           \/ /\ r.plnCh[1] # "pipeline"
              /\ UNCHANGED pipes
              /\ SetDown(b, i, [r EXCEPT !.plnCh = Taken, !.down = "spool"])

\* All operations have gathered their responses, and all streams have ended.
DrainStreams(b, i) ==
    LET r == rep[b][i]
    IN  /\ r.down = "eof"
        /\ pipes[r.downPln].readers = <<>> /\ AllEOF(pipes[r.downPln])
        /\ UNCHANGED pipes
        /\ SetDown(b, i, [r EXCEPT !.down = "spool", !.downPln = 0])

\* Take the Spool, and roll it forward to persist its current Fragment.
DrainSpool(b, i) ==
    LET r == rep[b][i]
    IN  /\ r.down = "spool" /\ r.spoolCh
        /\ UNCHANGED pipes
        /\ SetDown(b, i, [Propose(r, EmptyAt(r.spool.frag.end, r.spool.frag.codec), FALSE)
                            EXCEPT !.spoolCh = FALSE, !.down = "done"])

\* The Persister stores a completed Spool.
Persist(b, i, c) ==
    /\ c \in rep[b][i].queued
    /\ store' = store \cup {c}
    /\ SetRep(b, i, [rep[b][i] EXCEPT !.queued = @ \ {c}])
    /\ UNCHANGED <<etcdVars, brokerVars, pipes, ops, acked, budget>>

\* maintenanceLoop refreshes the remote fragments of the index, in background.
\* The listing of stores which is applied may be older than the store is now.
RefreshFragments(b) ==
    /\ local[b] # 0
    /\ \E end \in {0} \cup {c.frag.end : c \in store} :
          /\ end > rep[b][local[b]].remoteEnd
          /\ SetRep(b, local[b], [rep[b][local[b]] EXCEPT !.remoteEnd = end])
    /\ UNCHANGED <<etcdVars, brokerVars, pipes, ops, acked, store, budget>>

-----------------------------------------------------------------------------
(* The allocator (v2/pkg/allocator/item_state.go), for this one item: its  *)
(* max-flow solution may desire any R brokers.  Slots other than 0 aren't  *)
(* told apart, and so packing them is no step.                             *)

\* Faulty variant of constrainRemovals: of an inconsistent item.
constrainRemovalsIgnoresConsistency(e) ==
    IF Cardinality(e.members) > R THEN Cardinality(e.members) - R ELSE 0

\* At least R consistent assignments must remain.
constrainRemovals(e) ==
    IF IsConsistent(e) /\ Cardinality(e.members) > R THEN Cardinality(e.members) - R ELSE 0

Evicted == (UNION {etcd[n].members : n \in 1..Len(etcd)}) \ Latest.members

\* Assign all desired brokers, with empty values; remove undesired ones while
\* at least R consistent ones remain; if the primary is gone, promote one.
Converge(desired) ==
    LET e   == Latest
        add == desired \ e.members
        spare == constrainRemovals(e)
    IN  /\ desired \subseteq leased
        /\ Cardinality(desired) = R \/ (Cardinality(desired) < R /\ desired = leased)
        /\ MayReassign \/ add \cap Evicted = {}
        /\ \E remove \in SUBSET (e.members \ desired) :
             LET keep == e.members \ remove
             IN  /\ \/ Cardinality(remove) = spare
                    \/ remove = e.members \ desired /\ Cardinality(remove) < spare
                 /\ \E primary \in
                        IF e.primary \in keep THEN {e.primary}
                        ELSE IF keep # {} THEN keep ELSE add :
                      LET n == [members |-> keep \cup add, primary |-> primary,
                                value |-> [b \in Broker |-> IF b \in keep THEN e.value[b] ELSE NoRoute]]
                      IN  n # e /\ Put(n)
        /\ UNCHANGED <<leased, brokerVars, rep, pipes, ops, acked, store, budget>>

-----------------------------------------------------------------------------
(* Failures.                                                               *)

\* A stream breaks.  Responses which are in flight may or may not be lost.
Break(p, m) ==
    /\ budget.breaks > 0
    /\ ~Ended(pipes[p].streams[m])
    /\ \E lost \in BOOLEAN :
         SetStream(p, m, [pipes[p].streams[m] EXCEPT !.broken = TRUE,
                                                     !.resps = IF lost THEN <<>> ELSE @])
    /\ budget' = [budget EXCEPT !.breaks = @ - 1]
    /\ UNCHANGED <<etcdVars, brokerVars, rep, ops, acked, store>>

\* A pipeline once broker b is gone: of b itself, or with a stream to b.
Severed(pln, b) ==
    IF pln.broker = b
    THEN [pln EXCEPT !.readers = <<>>, !.closed = TRUE, !.streams =
            [m \in Peers(pln) |-> [pln.streams[m] EXCEPT !.broken = TRUE, !.resps = <<>>]]]
    ELSE [pln EXCEPT !.streams = [m \in Peers(pln) |->
            IF m = b THEN [pln.streams[m] EXCEPT !.broken = TRUE, !.reqs = <<>>, !.srv = "end"]
                     ELSE pln.streams[m]]]

\* A broker crashes, losing its Spools, its operations, and all streams from
\* and to it.
Crash(b) ==
    /\ b \in live \cap Fallible /\ budget.crashes > 0
    /\ live' = live \ {b}
    /\ local' = [local EXCEPT ![b] = 0]
    /\ rep' = [rep EXCEPT ![b] = <<>>]
    /\ pipes' = [p \in DOMAIN pipes |-> Severed(pipes[p], b)]
    /\ ops' = [o \in Op |-> IF ops[o].broker = b THEN Done ELSE ops[o]]
    /\ budget' = [budget EXCEPT !.crashes = @ - 1]
    /\ UNCHANGED <<etcdVars, view, acked, store>>

\* Etcd expires the lease of a broker, and with it its assignment.  The broker
\* has crashed, or is only cut off from Etcd (which counts as a crash).
ExpireLease(b) ==
    /\ b \in leased \cap Fallible
    /\ b \in live => budget.crashes > 0
    /\ budget' = IF b \in live THEN [budget EXCEPT !.crashes = @ - 1] ELSE budget
    /\ leased' = leased \ {b}
    /\ IF b \in Latest.members
       THEN Put([members |-> Latest.members \ {b},
                 primary |-> IF Latest.primary = b THEN Nobody ELSE Latest.primary,
                 value |-> [Latest.value EXCEPT ![b] = NoRoute]])
       ELSE UNCHANGED etcd
    /\ UNCHANGED <<brokerVars, rep, pipes, ops, acked, store>>

-----------------------------------------------------------------------------

Init ==
    /\ etcd = <<[members |-> InitMembers, primary |-> InitPrimary,
                 value |-> [b \in Broker |-> NoRoute]]>>
    /\ leased = Broker
    /\ live = Broker
    /\ view = [b \in Broker |-> 1]
    /\ local = [b \in Broker |-> IF b \in InitMembers THEN 1 ELSE 0]
    /\ rep = [b \in Broker |->
                 IF b \in InitRefreshed    THEN <<[newReplica EXCEPT !.remoteEnd = 0]>>
                 ELSE IF b \in InitMembers THEN <<newReplica>>
                 ELSE <<>>]
    /\ pipes = <<>>
    /\ ops = [o \in Op |-> Idle]
    /\ acked = {}
    /\ store = {}
    /\ budget \in Budgets

OpStep(o) ==
    \/ \E b \in Broker : Resolve(o, b)
    \/ AcquirePipeline(o)
    \/ BuildPipeline(o)
    \/ AbortAcquire(o)
    \/ Synchronize(o)
    \/ EndSynchronize(o)
    \/ RefuseAppend(o)
    \/ ServeAppend(o)
    \/ ServePing(o)
    \/ Gather(o)
    \/ UpdateAssignments(o)

StreamStep(p, m) ==
    \/ StartReplicate(p, m)
    \/ AcquireSpool(p, m)
    \/ Serve(p, m)
    \/ EndReplicate(p, m)

ReplicaStep(b, i) ==
    \/ DrainPipeline(b, i)
    \/ DrainStreams(b, i)
    \/ DrainSpool(b, i)
    \/ \E c \in rep[b][i].queued : Persist(b, i, c)

BrokerStep(b) ==
    \/ \E rev \in 1..Len(etcd) : Observe(b, rev)
    \/ RefreshFragments(b)

Environment ==
    \/ \E desired \in SUBSET Broker : Converge(desired)
    \/ \E o \in Op : CancelAcquire(o)
    \/ \E p \in DOMAIN pipes : \E m \in Peers(pipes[p]) : Break(p, m)
    \/ \E b \in Broker : Crash(b)
    \/ \E b \in Broker : ExpireLease(b)

Next ==
    \/ \E o \in Op : OpStep(o)
    \/ \E p \in DOMAIN pipes : ShutDownPipeline(p)
    \/ \E p \in DOMAIN pipes : \E m \in Peers(pipes[p]) : StreamStep(p, m)
    \/ \E b \in Broker : BrokerStep(b)
    \/ \E b \in Broker : \E i \in DOMAIN rep[b] : ReplicaStep(b, i)
    \/ Environment

Spec == Init /\ [][Next]_vars

\* Steps of goroutines, of streams, and of Etcd's watches.  An operation needn't begin, and
\* nothing of the Environment need happen.
Runs ==
    \/ \E o \in Op : ops[o] # Idle /\ OpStep(o)
    \/ \E p \in DOMAIN pipes : ShutDownPipeline(p)
    \/ \E p \in DOMAIN pipes : \E m \in Peers(pipes[p]) : StreamStep(p, m)
    \/ \E b \in Broker : BrokerStep(b)
    \/ \E b \in Broker : \E i \in DOMAIN rep[b] : ReplicaStep(b, i)

\* The scheduler runs a goroutine which isn't blocked, and the network and Etcd deliver.
FairSpec == Spec /\ WF_vars(Runs)

-----------------------------------------------------------------------------
(* Types.                                                                  *)

RouteType == [members : SUBSET Broker, primary : Broker \cup {Nobody}]
Assigned == [members : SUBSET Broker, primary : Broker \cup {Nobody},
             value : [Broker -> RouteType]]
Completed == [frag : Fragment, content : Seq(Byte)]
Channel == {Taken, Nil} \cup ({"pipeline", "readThroughRev"} \X Nat)

ReplicaType ==
    [spool : SpoolType, commitEnd : Nat, remoteEnd : Nat \cup {-1},
     queued : SUBSET Completed, spoolCh : BOOLEAN, plnCh : Channel,
     down : {"no", "pipeline", "eof", "spool", "done"}, downPln : Nat]

Request == [frag : Fragment, ack : BOOLEAN] \cup [content : Seq(Byte), delta : Nat]
Reply == [status : {"OK"}]
    \cup [status : {"FRAGMENT_MISMATCH"}, frag : Fragment]
    \cup [status : {"NOT_JOURNAL_BROKER", "WRONG_ROUTE"}, rev : Nat]
Stream == [reqs : Seq(Request), resps : Seq(Reply), closed : BOOLEAN,
           broken : BOOLEAN, srv : {"start", "acquire", "serve", "end"}, index : Nat]
Streams == UNION {[peers -> Stream] : peers \in SUBSET Broker}
Pipeline ==
    [broker : Broker, index : Nat, rev : Nat, streams : Streams,
     sendErrs : SUBSET Broker, recvErrs : SUBSET Broker, readers : Seq(Op),
     stopping : BOOLEAN, closed : BOOLEAN]

OpType ==
    [pc : {"idle", "acquire", "spool", "sync", "failSync", "readThrough",
           "serve", "gather", "update", "done"},
     broker : Broker \cup {Nobody}, index : Nat, rev : Nat, pln : Nat,
     frag : Fragment, offset : Nat \cup {-1}, sendErr : BOOLEAN]

TypeOK ==
    /\ etcd \in Seq(Assigned)
    /\ leased \subseteq Broker /\ live \subseteq Broker
    /\ view \in [Broker -> Nat] /\ local \in [Broker -> Nat]
    /\ rep \in [Broker -> Seq(ReplicaType)]
    /\ pipes \in Seq(Pipeline)
    /\ ops \in [Op -> OpType]
    /\ acked \subseteq [op : Appends, offset : Nat, members : SUBSET Broker]
    /\ store \subseteq Completed

-----------------------------------------------------------------------------
(* Safety.                                                                 *)

\* Whether content starting at `begin` has the byte of append op at an offset.
Holds(content, begin, offset, op) ==
    /\ offset \in begin..(begin + Len(content) - 1)
    /\ content[offset - begin + 1] = op

\* Broker b holds the append in a Spool, or in one it has yet to persist.
HeldBy(b, x) == \E i \in DOMAIN rep[b] :
    \/ /\ rep[b][i].down # "done"
       /\ Holds(CommittedContent(rep[b][i].spool), rep[b][i].spool.frag.begin, x.offset, x.op)
    \/ \E c \in rep[b][i].queued : Holds(c.content, c.frag.begin, x.offset, x.op)

\* An offset of the journal is acknowledged (serveAppend) to one Append at most,
\* over any hand-off of the journal between primaries.
AckedOnce == \A x, y \in acked : x.offset = y.offset => x = y

\* An acknowledged append is in the fragment store, or is still held by all the
\* brokers of the Route it was replicated to but for those that have failed; and
\* these were as many as the JournalSpec's Replication asks.
AckedDurable == \A x \in acked :
    \/ \E c \in store : Holds(c.content, c.frag.begin, x.offset, x.op)
    \/ Cardinality(x.members) >= R /\ \A b \in x.members \cap live : HeldBy(b, x)

\* What was acknowledged stays: no other append is acknowledged at its offset, and
\* it isn't lost.
AckedSafely == AckedOnce /\ AckedDurable

\* The fragment store has no other content at the offset of an acknowledged
\* append: what a primary commits locally of an append it fails, and persists
\* when it's shut down, isn't at an offset which another then acknowledges.  No run
\* checks it: it isn't so once a stream breaks or a lease is lost (see the README).
StoredIsAcked == \A x \in acked : \A c \in store : \A op \in Appends :
    Holds(c.content, c.frag.begin, x.offset, op) => op = x.op

\* If the assignments advertise a consistent Route (updateAssignments) then any
\* one of its members knows of all acknowledged appends.  The allocator relies
\* on it to remove the others.
ConsistentMeansCaughtUp ==
    IsConsistent(Latest) => \A b \in Latest.members \cap live : \A x \in acked :
        local[b] # 0 /\ rep[b][local[b]].spool.frag.end > x.offset

\* The goroutines which hold the Spool of a replica, and those which hold the
\* send-side of its pipeline.
SpoolHolders(b, i) ==
    {<<"pipeline", p>> : p \in {q \in DOMAIN pipes :
        pipes[q].broker = b /\ pipes[q].index = i /\ ~pipes[q].closed}}
    \cup {<<"Replicate", p>> : p \in {q \in DOMAIN pipes :
        /\ b \in Peers(pipes[q])
        /\ pipes[q].streams[b].srv = "serve" /\ pipes[q].streams[b].index = i}}
    \cup {h \in {<<"shutDownReplica", i>>} : rep[b][i].down = "done"}

PipelineHolders(b, i) ==
    {o \in Op : /\ ops[o].broker = b /\ ops[o].index = i
                /\ ops[o].pc \in {"spool", "sync", "failSync", "readThrough", "serve"}}
    \cup {h \in {"shutDownReplica"} : rep[b][i].down \in {"eof", "spool", "done"}}

\* Ownership: a replica's Spool is in spoolCh or has exactly one holder, and so
\* for its pipeline and pipelineCh, through failures, tear-downs and shut-downs.
\* No send to either channel (of capacity one) ever blocks.
OwnedOnce == \A b \in Broker : \A i \in DOMAIN rep[b] :
    /\ Cardinality(SpoolHolders(b, i)) = IF rep[b][i].spoolCh THEN 0 ELSE 1
    /\ Cardinality(PipelineHolders(b, i)) = IF rep[b][i].plnCh = Taken THEN 1 ELSE 0

\* Responses of a peer are matched with operations by order alone.  While no
\* error has been met, a peer has as many acknowledgements on their way as there
\* are operations waiting for one at the read barrier.
ResponsesInOrder == \A p \in DOMAIN pipes :
    LET pln == pipes[p]
        syncing == {o \in Op : ops[o].pc = "sync" /\ ops[o].pln = p}
        pending(st) == Len(st.resps) + Cardinality({n \in DOMAIN st.reqs :
                            "ack" \in DOMAIN st.reqs[n] /\ st.reqs[n].ack})
    IN  pln.sendErrs = {} => \A m \in Peers(pln) \ pln.recvErrs :
            Ended(pln.streams[m]) \/
            pending(pln.streams[m]) = Len(pln.readers) + Cardinality(syncing)

-----------------------------------------------------------------------------
(* Liveness.                                                               *)

\* An Append or health check which has resolved the journal eventually returns:
\* none is blocked forever by one which holds the Spool or the pipeline.
\* (An operation isn't begun again, so that each which did is done for good.)
OpsFinish == <>[](\A o \in Op : ops[o].pc \in {"idle", "done"})
=============================================================================
