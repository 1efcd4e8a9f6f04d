------------------------- MODULE InventoryPipeline -------------------------
(***************************************************************************)
(* From one kind of object in a cluster to the inventory: the informer of  *)
(* each generation of the kind (inventory_informer.go), the manager that   *)
(* starts and stops them, and the writer that batches what they send       *)
(* (inventory_writer.go).  Events, LIST snapshots and removals reach the   *)
(* writer over three channels, and it picks among the ready ones freely.   *)
(*                                                                         *)
(* The cluster is the log of its changes; a resource version is a place in *)
(* the log, and a UID that was deleted never comes back.  An object's      *)
(* inventory name is made from its UID, so the inventory is kept by UID.   *)
(* Edges go to a sink that drops them and are left out.                    *)
(***************************************************************************)
EXTENDS Naturals, Sequences, FiniteSets, FiniteSetsExt, SequencesExt

CONSTANTS
    UIDs,
    Unreadable,     \* versions of objects whose extraction fails
    MaxChanges,     \* bound on the changes in the cluster
    MaxGeneration,  \* bound on the generations of one process
    MaxFailures,    \* bound on the batches that fail all their retries
    MaxBreaks,      \* bound on the watches and LISTs that fail
    MaxRestarts     \* bound on the ends of the process

ASSUME PipelineAssumption ==
    /\ {MaxChanges, MaxGeneration, MaxFailures, MaxBreaks, MaxRestarts} \subseteq Nat
    /\ Unreadable \subseteq Nat /\ IsFiniteSet(UIDs)

None == 0
Versions == 0 .. MaxChanges
Generations == 1 .. MaxGeneration

VARIABLES
    log,       \* the changes of the cluster, oldest first
    inf,       \* the informer of generation running
    running,   \* the generation in m.stoppers, or None
    nextGen,   \* m.nextGen
    eventCh, resyncCh, removeCh,
    w,         \* the writer's memory
    store,     \* the inventory: the stored version of each UID, or None
    used,      \* how much of each bound is used up
    lost,      \* history: UIDs whose pending work a late removal dropped
    left       \* history: UIDs whose row no LIST of this generation accounts for

vars == <<log, inf, running, nextGen, eventCh, resyncCh, removeCh, w, store,
          used, lost, left>>

Changes == [uid : UIDs, gone : BOOLEAN]

\* The version of an object as of the n-th change of the log l.
VersionAt(l, u, n) ==
    LET S == {i \in 1 .. n : l[i].uid = u}
    IN  IF S = {} \/ l[Max(S)].gone THEN None ELSE Max(S)
At(u, n) == VersionAt(log, u, n)
Now(u) == At(u, Len(log))
Live(n) == {u \in UIDs : At(u, n) # None}
Deleted(u) == \E i \in DOMAIN log : log[i].uid = u /\ log[i].gone

NoInformer == [pc |-> "none", cursor |-> 0, ack |-> "none"]
NoResync == [gen |-> None, rev |-> 0, stale |-> {}, names |-> {}]
\* gen None: no gvrState.
NoMemory == [gen |-> None, reported |-> {}, closed |-> None,
             up |-> [u \in UIDs |-> None], del |-> {},
             sent |-> [u \in UIDs |-> None], retained |-> NoResync]

TypeOK ==
    /\ log \in Seq(Changes) /\ Len(log) <= MaxChanges
    /\ inf \in [pc : {"none", "list", "ack", "watch"}, cursor : Versions,
                ack : {"none", "ok", "nack"}]
    /\ running = None <=> inf.pc = "none"
    /\ running \in Generations \cup {None} /\ nextGen \in 0 .. MaxGeneration
    /\ eventCh \in Seq([gen : Generations, uid : UIDs, ver : Versions, gone : BOOLEAN])
    /\ resyncCh \in Seq([gen : Generations, rev : Versions])
    /\ removeCh \in Seq(Generations)
    /\ w \in [gen : Generations \cup {None}, reported : SUBSET UIDs,
              closed : Generations \cup {None}, up : [UIDs -> Versions],
              del : SUBSET UIDs, sent : [UIDs -> Versions],
              retained : [gen : Generations \cup {None}, rev : Versions,
                          stale : SUBSET UIDs, names : SUBSET UIDs]]
    \* Nothing is pending without a generation, and no UID is pending twice.
    /\ w.gen = None => w.up = NoMemory.up /\ w.del = {} /\ w.retained = NoResync
    /\ \A u \in w.del : w.up[u] = None
    /\ store \in [UIDs -> Versions]
    /\ used \in [failures : 0 .. MaxFailures, breaks : 0 .. MaxBreaks,
                 restarts : 0 .. MaxRestarts]
    /\ lost \subseteq UIDs /\ left \subseteq UIDs

Init ==
    /\ log = <<>>
    /\ inf = NoInformer
    /\ running = None /\ nextGen = 0
    /\ eventCh = <<>> /\ resyncCh = <<>> /\ removeCh = <<>>
    /\ w = NoMemory
    /\ store = [u \in UIDs |-> None]
    /\ used = [failures |-> 0, breaks |-> 0, restarts |-> 0]
    /\ lost = {} /\ left = {}

---------------------------------------------------------------------------
(* The cluster (external)                                                  *)

Change(u) ==
    /\ Len(log) < MaxChanges /\ ~Deleted(u)
    /\ \E gone \in BOOLEAN :
          /\ gone => Now(u) # None
          /\ log' = Append(log, [uid |-> u, gone |-> gone])
    /\ UNCHANGED <<inf, running, nextGen, eventCh, resyncCh, removeCh, w, store,
                   used, lost, left>>

---------------------------------------------------------------------------
(* The manager: Reconcile                                                  *)

\* The kind is no longer desired: its informer is cancelled.  What it sends
\* until it notices, it may as well have sent before: the channels are
\* separate, and behind messages of the next generation it is rejected.
StopInformer ==
    /\ running # None
    /\ removeCh' = Append(removeCh, running)
    /\ running' = None /\ inf' = NoInformer
    /\ UNCHANGED <<log, nextGen, eventCh, resyncCh, w, store, used, lost, left>>

StartInformer ==
    /\ running = None /\ nextGen < MaxGeneration
    /\ nextGen' = nextGen + 1
    /\ running' = nextGen'
    /\ inf' = [NoInformer EXCEPT !.pc = "list"]
    /\ UNCHANGED <<log, eventCh, resyncCh, removeCh, w, store, used, lost, left>>

---------------------------------------------------------------------------
(* The informer                                                            *)

Fails == used.breaks < MaxBreaks /\ used' = [used EXCEPT !.breaks = @ + 1]

Adds(us) ==
    LET Add(u) == [gen |-> running, uid |-> u, ver |-> Now(u), gone |-> FALSE]
    IN  SetToSeq({Add(u) : u \in us})

\* listAndResync: an Add for every object and then the snapshot.  All pages
\* are of one revision, which is the cursor to watch from.
List ==
    /\ inf.pc = "list"
    /\ eventCh' = eventCh \o Adds(Live(Len(log)))
    /\ resyncCh' = Append(resyncCh, [gen |-> running, rev |-> Len(log)])
    /\ inf' = [inf EXCEPT !.pc = "ack", !.cursor = Len(log)]
    /\ UNCHANGED <<log, running, nextGen, removeCh, w, store, used, lost, left>>

\* A later page fails: the Adds of the pages before it are sent already.
ListFails ==
    /\ inf.pc = "list" /\ Fails
    /\ \E us \in SUBSET Live(Len(log)) : eventCh' = eventCh \o Adds(us)
    /\ UNCHANGED <<log, inf, running, nextGen, resyncCh, removeCh, w, store, lost, left>>

\* The writer's answer starts the watch or another LIST.
TakeAck ==
    /\ inf.pc = "ack" /\ inf.ack # "none"
    /\ inf' = [inf EXCEPT !.pc = IF inf.ack = "ok" THEN "watch" ELSE "list",
                          !.ack = "none"]
    /\ UNCHANGED <<log, running, nextGen, eventCh, resyncCh, removeCh, w, store,
                   used, lost, left>>

\* One watch event; the cursor moves with it, so a watch that is closed
\* cleanly is resumed where it stopped.
Deliver ==
    /\ inf.pc = "watch" /\ inf.cursor < Len(log)
    /\ LET n == inf.cursor + 1
       IN  /\ eventCh' = Append(eventCh, [gen |-> running, uid |-> log[n].uid, ver |-> n,
                                          gone |-> log[n].gone])
           /\ inf' = [inf EXCEPT !.cursor = n]
    /\ UNCHANGED <<log, running, nextGen, resyncCh, removeCh, w, store, used, lost, left>>

\* An error, or a watch that does not start: back to LIST.
WatchBreaks ==
    /\ inf.pc = "watch" /\ Fails
    /\ inf' = [inf EXCEPT !.pc = "list"]
    /\ UNCHANGED <<log, running, nextGen, eventCh, resyncCh, removeCh, w, store, lost, left>>

---------------------------------------------------------------------------
(* The writer                                                              *)

\* The result of a batch, which is one transaction tried three times: it
\* may be written although its result is an error.
Results == {"ok", "failed", "unknown"}
Failed(r) == r # "ok"
Written(r) == r # "failed"
\* The failures among the results rs count against the bound.
Charge(rs, restarts) ==
    LET n == Cardinality({i \in DOMAIN rs : Failed(rs[i])})
    IN  /\ used.failures + n <= MaxFailures
        /\ used.restarts + restarts <= MaxRestarts
        /\ used' = [used EXCEPT !.failures = @ + n, !.restarts = @ + restarts]

\* ackResync: nobody waits for the answer to a cancelled informer.
Ack(f, g, a) == IF g = running /\ g # None THEN [f EXCEPT !.ack = a] ELSE f

Pending(m) == {u \in UIDs : m.up[u] # None} \cup m.del
DropPending(m) == [m EXCEPT !.up = NoMemory.up, !.del = {}]

\* acceptGeneration
Accepts(g) == g > w.closed /\ g >= w.gen
\* What it makes of the memory: a newer generation replaces an open one.
Adopt(g) ==
    IF w.gen = g THEN w
    ELSE [DropPending(w) EXCEPT !.gen = g, !.reported = {}, !.retained = NoResync]
\* ... and the waiter of a LIST that was retained is refused.
Adopted(g) == IF w.gen = g THEN inf ELSE Ack(inf, w.retained.gen, "nack")
\* With the names of the old generation goes what it knew of the rows.
LeftBy(g) == IF w.gen = g THEN left ELSE left \cup {u \in UIDs : store[u] # None}

Reject ==
    /\ eventCh # <<>> /\ ~Accepts(Head(eventCh).gen)
    /\ eventCh' = Tail(eventCh)
    /\ UNCHANGED <<log, inf, running, nextGen, resyncCh, removeCh, w, store, used, lost, left>>

\* An Add or an Update after the Delete of the same batch is dropped.
TakeUpsert ==
    /\ eventCh # <<>> /\ Accepts(Head(eventCh).gen) /\ ~Head(eventCh).gone
    /\ LET e == Head(eventCh)
           m == Adopt(e.gen)
       IN  /\ w' = IF e.uid \in m.del THEN m ELSE [m EXCEPT !.up[e.uid] = e.ver]
           /\ inf' = Adopted(e.gen)
           /\ left' = LeftBy(e.gen)
    /\ eventCh' = Tail(eventCh)
    /\ UNCHANGED <<log, running, nextGen, resyncCh, removeCh, store, used, lost>>

\* A wrong version: the pending upsert stays beside the delete.
TakeDeleteKeepsUpsert ==
    /\ eventCh # <<>> /\ Accepts(Head(eventCh).gen) /\ Head(eventCh).gone
    /\ LET e == Head(eventCh)
       IN  /\ w' = [Adopt(e.gen) EXCEPT !.del = @ \cup {e.uid}, !.sent[e.uid] = None]
           /\ inf' = Adopted(e.gen)
           /\ left' = LeftBy(e.gen)
    /\ eventCh' = Tail(eventCh)
    /\ UNCHANGED <<log, running, nextGen, resyncCh, removeCh, store, used, lost>>

\* The delete takes the place of a pending upsert.
TakeDelete ==
    /\ eventCh # <<>> /\ Accepts(Head(eventCh).gen) /\ Head(eventCh).gone
    /\ LET e == Head(eventCh)
       IN  /\ w' = [Adopt(e.gen) EXCEPT !.del = @ \cup {e.uid},
                                        !.up[e.uid] = None, !.sent[e.uid] = None]
           /\ inf' = Adopted(e.gen)
           /\ left' = LeftBy(e.gen)
    /\ eventCh' = Tail(eventCh)
    /\ UNCHANGED <<log, running, nextGen, resyncCh, removeCh, store, used, lost>>

Readable(n) == {u \in Live(n) : At(u, n) \notin Unreadable}

\* A wrong version: an object that cannot be read counts as omitted.
ResyncOfExtracted(m, g, n) ==
    [gen |-> g, rev |-> n, stale |-> m.reported \ Readable(n), names |-> Readable(n)]
\* A wrong version: what the LIST omits is not deleted.
ResyncOfUpserts(m, g, n) ==
    [gen |-> g, rev |-> n, stale |-> {}, names |-> Readable(n) \cup m.reported]

\* The batch of a LIST: what it holds is written, what this generation has
\* reported and the LIST omits is deleted.  An object that is listed but
\* cannot be read is neither.
ResyncOf(m, g, n) ==
    [gen |-> g, rev |-> n, stale |-> m.reported \ Live(n),
     names |-> Readable(n) \cup (m.reported \cap Live(n))]
ResyncStore(p, s) ==
    [u \in UIDs |-> IF u \in Readable(p.rev) THEN At(u, p.rev)
                    ELSE IF u \in p.stale THEN None ELSE s[u]]
\* applyResyncSuccess: the names are those computed when the LIST came in.
Resynced(m, p) == [m EXCEPT !.reported = p.names, !.retained = NoResync]
\* History: the LIST omits u, and a row of u may be written after it all the
\* same, from an event that was sent before and is not through.
Overtaken(p, m) ==
    {u \in UIDs \ Live(p.rev) :
        m.up[u] # None \/ \E i \in DOMAIN eventCh : eventCh[i].uid = u /\ ~eventCh[i].gone}
\* It keeps the rows that no LIST accounted for before, and the names that
\* became known after the LIST came in, which are forgotten with it.
LeftAfter(p, m, before, s) ==
    Overtaken(p, m) \cup {u \in (before \cup m.reported) \ p.names : s[u] # None}

RejectResync ==
    /\ resyncCh # <<>> /\ ~Accepts(Head(resyncCh).gen)
    /\ inf' = Ack(inf, Head(resyncCh).gen, "nack")
    /\ resyncCh' = Tail(resyncCh)
    /\ UNCHANGED <<log, running, nextGen, eventCh, removeCh, w, store, used, lost, left>>

\* An empty batch is not sent, and cannot fail.
Empty(p) == Readable(p.rev) = {} /\ p.stale = {}

\* A wrong version: a batch that fails is dropped.
SendResyncForgets(r) ==
    /\ resyncCh # <<>> /\ Accepts(Head(resyncCh).gen)
    /\ LET rs == Head(resyncCh)
           m == Adopt(rs.gen)
           p == ResyncOf(m, rs.gen, rs.rev)
       IN  /\ Empty(p) => r = "ok"
           /\ store' = IF Written(r) THEN ResyncStore(p, store) ELSE store
           /\ w' = IF Failed(r) THEN m ELSE Resynced(m, p)
           /\ inf' = IF Failed(r) THEN Adopted(rs.gen) ELSE Ack(Adopted(rs.gen), rs.gen, "ok")
           /\ left' = LeftAfter(p, m, LeftBy(rs.gen), store')
           /\ lost' = lost
    /\ Charge(<<r>>, 0)
    /\ resyncCh' = Tail(resyncCh)
    /\ UNCHANGED <<log, running, nextGen, eventCh, removeCh>>

\* sendResync: the informer is answered when the batch is committed; a batch
\* that fails is retained.  A newer LIST of the same generation refuses the
\* waiter of the retained one and takes its place.
SendResync(r) ==
    /\ resyncCh # <<>> /\ Accepts(Head(resyncCh).gen)
    /\ LET rs == Head(resyncCh)
           m == Adopt(rs.gen)
           p == ResyncOf(m, rs.gen, rs.rev)
           told == Ack(Adopted(rs.gen), m.retained.gen, "nack")
       IN  /\ Empty(p) => r = "ok"
           /\ store' = IF Written(r) THEN ResyncStore(p, store) ELSE store
           /\ w' = IF Failed(r) THEN [m EXCEPT !.retained = p] ELSE Resynced(m, p)
           /\ inf' = IF Failed(r) THEN told ELSE Ack(told, rs.gen, "ok")
           /\ left' = IF Failed(r) THEN LeftBy(rs.gen) \cup Overtaken(p, m)
                      ELSE LeftAfter(p, m, LeftBy(rs.gen) \cup lost, store')
           /\ lost' = IF Failed(r) THEN lost ELSE {}
    /\ Charge(<<r>>, 0)
    /\ resyncCh' = Tail(resyncCh)
    /\ UNCHANGED <<log, running, nextGen, eventCh, removeCh>>

\* removeCh: pending work is dropped whatever its generation; the memory only
\* when it is of the generation that is closed.
TakeRemove ==
    /\ removeCh # <<>>
    /\ LET g == Head(removeCh)
           m == DropPending(w)
       IN  IF w.gen \in {g, None}
           THEN /\ w' = [m EXCEPT !.gen = None, !.reported = {}, !.retained = NoResync,
                                  !.closed = Max({@, g})]
                /\ inf' = Ack(inf, w.retained.gen, "nack")
                /\ left' = left \cup {u \in UIDs : store[u] # None}
                /\ lost' = lost
           ELSE /\ w' = m
                /\ lost' = lost \cup Pending(w)
                /\ UNCHANGED <<inf, left>>
    /\ removeCh' = Tail(removeCh)
    /\ UNCHANGED <<log, running, nextGen, eventCh, resyncCh, store, used>>

\* retryPendingResyncs, as functions of the memory m and the inventory s.
Retries(m) == m.retained.gen # None
RetryMemory(m, r) == IF Retries(m) /\ ~Failed(r) THEN Resynced(m, m.retained) ELSE m
RetryStore(m, s, r) == IF Retries(m) /\ Written(r) THEN ResyncStore(m.retained, s) ELSE s

\* flush.  A version that was sent already is skipped, and so is one that
\* cannot be read; the batch is kept when it fails.
ToSend(m) == {u \in UIDs : m.up[u] \notin Unreadable \cup {None, m.sent[u]}}
Flushes(m) == ToSend(m) # {} \/ m.del # {}
\* A wrong version: the batch is cleared although it failed.
FlushMemoryClears(m, r) ==
    [DropPending(m) EXCEPT
        !.reported = (@ \cup ToSend(m)) \ m.del,
        !.sent = [u \in UIDs |-> IF u \in ToSend(m) THEN m.up[u] ELSE @[u]]]

FlushMemory(m, r) ==
    IF Failed(r) THEN m
    ELSE [DropPending(m) EXCEPT
            !.reported = (@ \cup ToSend(m)) \ m.del,
            !.sent = [u \in UIDs |-> IF u \in ToSend(m) THEN m.up[u] ELSE @[u]]]
FlushStore(m, s, r) ==
    IF ~Written(r) THEN s
    ELSE [u \in UIDs |-> IF u \in m.del THEN None
                         ELSE IF u \in ToSend(m) THEN m.up[u] ELSE s[u]]

\* Both batches of a tick, and of the end of Run; one that is not sent does
\* not fail.
Batches(m, r1, r2) ==
    /\ ~Retries(m) => r1 = "ok"
    /\ ~Flushes(RetryMemory(m, r1)) => r2 = "ok"

Tick(r1, r2) ==
    /\ Retries(w) \/ Pending(w) # {}
    /\ Batches(w, r1, r2) /\ Charge(<<r1, r2>>, 0)
    /\ LET m == RetryMemory(w, r1)
           s == RetryStore(w, store, r1)
           committed == Retries(w) /\ ~Failed(r1)
           unacknowledged == IF r2 = "unknown" THEN ToSend(m) \ m.reported ELSE {}
       IN  /\ w' = FlushMemory(m, r2)
           /\ store' = FlushStore(m, s, r2)
           /\ inf' = IF committed THEN Ack(inf, w.retained.gen, "ok") ELSE inf
           /\ left' = unacknowledged \cup
                         (IF committed THEN LeftAfter(w.retained, w, left \cup lost, s) ELSE left)
           /\ lost' = IF committed THEN {} ELSE lost
    /\ UNCHANGED <<log, running, nextGen, eventCh, resyncCh, removeCh>>

---------------------------------------------------------------------------
(* The end of the process and the start of the next one                    *)

Restart(s) ==
    /\ inf' = NoInformer
    /\ running' = None /\ nextGen' = 0
    /\ eventCh' = <<>> /\ resyncCh' = <<>> /\ removeCh' = <<>>
    /\ w' = NoMemory
    /\ store' = s
    /\ lost' = {} /\ left' = {u \in UIDs : s[u] # None}
    /\ UNCHANGED log

\* indexerDelegate.start after its context ended: the informers are stopped
\* without removals, and the writer sends what it holds once.
Shutdown(r1, r2) ==
    /\ Batches(w, r1, r2) /\ Charge(<<r1, r2>>, 1)
    /\ Restart(FlushStore(RetryMemory(w, r1), RetryStore(w, store, r1), r2))

Crash == Restart(store) /\ Charge(<<>>, 1)

---------------------------------------------------------------------------
Informer == List \/ TakeAck \/ Deliver
TakeEvent == Reject \/ TakeUpsert \/ TakeDelete
TakeResync == RejectResync \/ \E r \in Results : SendResync(r)

Next ==
    \/ \E u \in UIDs : Change(u)
    \/ StopInformer \/ StartInformer
    \/ Informer \/ ListFails \/ WatchBreaks
    \/ TakeEvent \/ TakeResync \/ TakeRemove
    \/ \E r1, r2 \in Results : Tick(r1, r2) \/ Shutdown(r1, r2)
    \/ Crash

Spec == Init /\ [][Next]_vars

Work == Informer \/ TakeEvent \/ TakeResync \/ TakeRemove \/ \E r1, r2 \in Results : Tick(r1, r2)

\* Some goroutine of the process goes on while one can; the order in which
\* the select takes what is ready is free.
FairSpec == Spec /\ WF_vars(Work)

---------------------------------------------------------------------------
\* The informer of the kind watches and everything it saw is through.
Drained ==
    /\ running # None
    /\ inf.pc = "watch" /\ inf.cursor = Len(log)
    /\ eventCh = <<>> /\ resyncCh = <<>> /\ removeCh = <<>>
    /\ Pending(w) = {} /\ w.retained = NoResync

\* The writer deletes a row only when the object is gone from the cluster:
\* not because a LIST entry cannot be read, a generation ends, the process
\* stops, or a LIST is older than the events that overtook it.
NeverDeletesLive ==
    [][\A u \in UIDs : store[u] # None /\ store'[u] = None => Now(u) = None]_vars

\* Once drained, the inventory holds the current version of every object of
\* the cluster, although LISTs overtake the events sent before them, batches
\* fail and are written twice, and generations replace each other.  Only the
\* removal of an earlier generation, handled after events of the next one,
\* can leave an old version there.
LiveIsCurrent ==
    Drained => \A u \in Live(Len(log)) \ lost :
                  Now(u) \in Unreadable \/ store[u] = Now(u)

\* Once drained, the rows of deleted objects are gone, but for the rows of an
\* earlier generation or process, rows written by events that a LIST overtook,
\* and rows whose names a retained LIST forgot when it was committed.
GoneIsGone ==
    Drained => \A u \in UIDs \ (lost \cup left) : Now(u) = None => store[u] = None

\* The pipeline drains when the cluster, the manager and the faults rest: no
\* informer waits for ever for the answer to its LIST.
Drains == <>[](running = None \/ Drained)
=============================================================================
