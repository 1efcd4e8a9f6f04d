----------------------------- MODULE IndexHost -----------------------------
(***************************************************************************)
(* The in-process host of the Kubernetes indexers                          *)
(* (addon/kubernetes/inventory_indexing_runtime.go) for one target:        *)
(* callers of EnsureIndexer and StopIndexer, StopAll, the goroutine of     *)
(* each indexer, its unexpected exits and the local restarts.  An action   *)
(* is one critical section of the host's mutex; the per-target lock is     *)
(* explicit because it is held while a stop waits.                         *)
(***************************************************************************)
EXTENDS Naturals, FiniteSets

CONSTANTS
    Callers,        \* goroutines of agents and of the startup replay
    Secrets,        \* whether a caller gives a SecretRef: a set of BOOLEANs
    MaxGeneration,  \* bound on producer generations
    MaxAttempts,    \* maxUnexpectedRestartAttempts (3 in the code)
    MaxCalls,       \* bound on the calls of all callers together
    MaxCrashes,     \* bound on the exits nobody asked for
    MaxTimeouts     \* bound on the calls whose context ends while they wait

ASSUME HostAssumption ==
    /\ {MaxGeneration, MaxAttempts, MaxCalls, MaxCrashes, MaxTimeouts} \subseteq Nat
    /\ Callers \cap Nat = {} /\ Secrets \subseteq BOOLEAN

None == 0
\* A call makes at most one entry, and so does a restart.
Entries == 1 .. (MaxCalls + MaxCrashes)
\* The goroutine of an indexer runs onIndexerExit and the restart under the
\* name of its entry.
Procs == Callers \cup Entries

\* What EnsureIndexer is asked for.  The fingerprint holds the SecretRef, so
\* the two inputs of one generation have different fingerprints.
Inputs == [gen : 1 .. MaxGeneration, secret : Secrets]

VARIABLES
    entry,        \* every managedIndexer made so far
    tracked,      \* h.entries[id]: an entry, or None
    op,           \* the holder of the per-target lock, or None
    proc,         \* place and locals of every goroutine
    shuttingDown, \* h.shuttingDown
    down,         \* h.ctx is cancelled
    closer,       \* the goroutine of StopAll and the handle it took
    used,         \* how much of each bound is used up
    quiet         \* history: see Settled

vars == <<entry, tracked, op, proc, shuttingDown, down, closer, used, quiet>>

NoIndexer == [in |-> [gen |-> 0, secret |-> FALSE], starting |-> FALSE,
              ready |-> FALSE, failed |-> FALSE, cancelled |-> FALSE,
              intentional |-> FALSE, eligible |-> FALSE, attempts |-> 0,
              run |-> "none", reaped |-> FALSE]

Places == {"idle", "ensure", "join", "probe", "final", "stop", "awaitStart",
           "awaitExit", "exit", "backoff", "carry", "gone"}

\* A goroutine outside the host's functions: its locals are gone.
Resting(p) == [pc |-> IF p \in Callers THEN "idle" ELSE "gone", in |-> NoIndexer.in,
               e |-> None, replace |-> FALSE, err |-> FALSE]

TypeOK ==
    /\ entry \in [Entries -> [in : Inputs \cup {NoIndexer.in}, starting : BOOLEAN,
                     ready : BOOLEAN, failed : BOOLEAN, cancelled : BOOLEAN,
                     intentional : BOOLEAN, eligible : BOOLEAN, attempts : 0 .. MaxAttempts,
                     run : {"none", "running", "closed"}, reaped : BOOLEAN]]
    /\ tracked \in Entries \cup {None}
    /\ op \in Procs \cup {None}
    /\ proc \in [Procs -> [pc : Places, in : Inputs \cup {NoIndexer.in},
                           e : Entries \cup {None}, replace : BOOLEAN, err : BOOLEAN]]
    /\ shuttingDown \in BOOLEAN /\ down \in BOOLEAN /\ quiet \in BOOLEAN
    /\ closer \in [pc : {"idle", "wait", "end", "done"}, e : Entries \cup {None},
                   hasDone : BOOLEAN, late : BOOLEAN]
    /\ used \in [calls : 0 .. MaxCalls, crashes : 0 .. MaxCrashes,
                 timeouts : 0 .. MaxTimeouts, entries : 0 .. MaxCalls + MaxCrashes]

Init ==
    /\ entry = [e \in Entries |-> NoIndexer]
    /\ tracked = None /\ op = None
    /\ proc = [p \in Procs |-> Resting(p)]
    /\ shuttingDown = FALSE /\ down = FALSE /\ quiet = FALSE
    /\ closer = [pc |-> "idle", e |-> None, hasDone |-> FALSE, late |-> FALSE]
    /\ used = [calls |-> 0, crashes |-> 0, timeouts |-> 0, entries |-> 0]

---------------------------------------------------------------------------
\* Helpers.

Go(p, place) == proc' = [proc EXCEPT ![p].pc = place]
Leave(p) == proc' = [proc EXCEPT ![p] = Resting(p)]

\* The end of EnsureIndexer: a caller returns, a restart goes on to carry its
\* attempt count when the call succeeded.
EnsureReturns(p, ok) ==
    IF ok /\ p \notin Callers THEN Go(p, "carry") ELSE Leave(p)

Untrack(e) == tracked' = IF tracked = e THEN None ELSE tracked

\* Somebody is on the way to start an indexer.
Ensuring(p) ==
    \/ proc[p].pc \in {"ensure", "join", "probe", "final", "backoff"}
    \/ proc[p].pc \in {"awaitStart", "awaitExit"} /\ proc[p].replace
\* Nobody is, beside the goroutine p whose stop returns.
Settled(p) == \A q \in Procs \ {p} : ~Ensuring(q)

---------------------------------------------------------------------------
\* Callers: agents that deliver or tear down, and the startup replay.

CallEnsure(p, in) ==
    /\ p \in Callers /\ proc[p].pc = "idle"
    /\ used.calls < MaxCalls
    /\ used' = [used EXCEPT !.calls = @ + 1]
    /\ proc' = [proc EXCEPT ![p].pc = "ensure", ![p].in = in]
    /\ quiet' = FALSE
    /\ UNCHANGED <<entry, tracked, op, shuttingDown, down, closer>>

CallStop(p) ==
    /\ p \in Callers /\ proc[p].pc = "idle"
    /\ used.calls < MaxCalls
    /\ used' = [used EXCEPT !.calls = @ + 1]
    /\ Go(p, "stop")
    /\ UNCHANGED <<entry, tracked, op, shuttingDown, down, closer, quiet>>

---------------------------------------------------------------------------
\* stopLocked, with the per-target lock held by p.

\* Its first critical section on a tracked entry: the entry is marked, its
\* start attempt or its indexer is cancelled, and p waits with the lock held.
MarkAndWait(p, replace) ==
    LET e == tracked IN
    /\ op' = p
    /\ entry' = [entry EXCEPT ![e].intentional = TRUE, ![e].eligible = FALSE,
                              ![e].cancelled = entry[e].ready]
    /\ proc' = [proc EXCEPT ![p].pc = IF entry[e].ready THEN "awaitExit" ELSE "awaitStart",
                            ![p].e = e, ![p].replace = replace]

\* The lock is given back: StopIndexer returns, EnsureIndexer tries again or
\* returns the error.
StopReturns(p, ok) ==
    /\ op' = None
    /\ IF proc[p].replace
       THEN IF ok THEN Go(p, "ensure") ELSE EnsureReturns(p, FALSE)
       ELSE Leave(p)
    /\ quiet' = IF ok /\ ~proc[p].replace THEN Settled(p) ELSE quiet

\* StopIndexer.
StopIndexer(p) ==
    /\ proc[p].pc = "stop" /\ op = None
    /\ \/ /\ tracked = None
          /\ Leave(p)
          /\ quiet' = Settled(p)
          /\ UNCHANGED <<entry, op>>
       \/ /\ tracked # None
          /\ MarkAndWait(p, FALSE)
          /\ UNCHANGED quiet
    /\ UNCHANGED <<tracked, shuttingDown, down, closer, used>>

\* readyWait is closed.  An entry that is still there goes the way of a ready
\* one, or is dropped when it never published a done channel.
StopSeesStartEnd(p) ==
    /\ proc[p].pc = "awaitStart" /\ ~entry[proc[p].e].starting
    /\ IF tracked # None /\ entry[tracked].ready
       THEN MarkAndWait(p, proc[p].replace) /\ UNCHANGED <<tracked, quiet>>
       ELSE StopReturns(p, TRUE) /\ tracked' = None /\ UNCHANGED entry
    /\ UNCHANGED <<shuttingDown, down, closer, used>>

\* A wrong version: the entry is left to onIndexerExit.
StopSeesExitKeepsEntry(p) ==
    /\ proc[p].pc = "awaitExit" /\ entry[proc[p].e].run = "closed"
    /\ StopReturns(p, TRUE)
    /\ UNCHANGED <<entry, tracked, shuttingDown, down, closer, used>>

\* done is closed: the entry goes.
StopSeesExit(p) ==
    /\ proc[p].pc = "awaitExit" /\ entry[proc[p].e].run = "closed"
    /\ Untrack(proc[p].e)
    /\ StopReturns(p, TRUE)
    /\ UNCHANGED <<entry, shuttingDown, down, closer, used>>

\* The context of a waiting call ends; for a restart it is the host's.  A
\* stop that gives up on an indexer leaves the entry to a goroutine that
\* removes it when the indexer is done.
CallTimesOut(p) ==
    /\ proc[p].pc \in {"join", "awaitStart", "awaitExit"}
    /\ IF p \in Callers
       THEN /\ used.timeouts < MaxTimeouts
            /\ used' = [used EXCEPT !.timeouts = @ + 1]
       ELSE down /\ UNCHANGED used
    /\ \/ /\ proc[p].pc = "join"
          /\ EnsureReturns(p, FALSE)
          /\ UNCHANGED <<entry, op, quiet>>
       \/ /\ proc[p].pc = "awaitStart"
          /\ StopReturns(p, FALSE)
          /\ UNCHANGED entry
       \/ /\ proc[p].pc = "awaitExit"
          /\ entry' = [entry EXCEPT ![proc[p].e].reaped = TRUE]
          /\ StopReturns(p, FALSE)
    /\ UNCHANGED <<tracked, shuttingDown, down, closer>>

\* That goroutine.
Reap(e) ==
    /\ entry[e].reaped /\ entry[e].run = "closed"
    /\ entry' = [entry EXCEPT ![e].reaped = FALSE]
    /\ Untrack(e)
    /\ UNCHANGED <<op, proc, shuttingDown, down, closer, used, quiet>>

---------------------------------------------------------------------------
\* EnsureIndexer: one turn of its loop per action, taken with the lock free.

Turn(p) == proc[p].pc = "ensure" /\ op = None

SameAsked(p, e) == proc[p].in = entry[e].in

EnsureRefused(p) ==
    /\ Turn(p)
    /\ \/ shuttingDown
       \/ ~shuttingDown /\ tracked # None /\ proc[p].in.gen < entry[tracked].in.gen
    /\ EnsureReturns(p, FALSE)
    /\ UNCHANGED <<entry, tracked, op, shuttingDown, down, closer, used, quiet>>

EnsureFindsReady(p) ==
    /\ Turn(p) /\ ~shuttingDown
    /\ tracked # None /\ SameAsked(p, tracked) /\ entry[tracked].ready
    /\ EnsureReturns(p, TRUE)
    /\ UNCHANGED <<entry, tracked, op, shuttingDown, down, closer, used, quiet>>

EnsureJoins(p) ==
    /\ Turn(p) /\ ~shuttingDown
    /\ tracked # None /\ SameAsked(p, tracked)
    /\ ~entry[tracked].ready /\ entry[tracked].starting
    /\ proc' = [proc EXCEPT ![p].pc = "join", ![p].e = tracked]
    /\ UNCHANGED <<entry, tracked, op, shuttingDown, down, closer, used, quiet>>

EnsureReplaces(p) ==
    /\ Turn(p) /\ ~shuttingDown
    /\ tracked # None
    /\ proc[p].in.gen >= entry[tracked].in.gen
    /\ SameAsked(p, tracked) => ~entry[tracked].ready /\ ~entry[tracked].starting
    /\ MarkAndWait(p, TRUE)
    /\ UNCHANGED <<tracked, shuttingDown, down, closer, used, quiet>>

\* No entry: a new one is registered and the lock is free during readiness.
EnsureStarts(p) ==
    LET e == used.entries + 1 IN
    /\ Turn(p) /\ ~shuttingDown
    /\ tracked = None
    /\ used' = [used EXCEPT !.entries = e]
    /\ tracked' = e
    /\ entry' = [entry EXCEPT ![e] = [NoIndexer EXCEPT
                     !.in = proc[p].in, !.starting = TRUE]]
    /\ proc' = [proc EXCEPT ![p].pc = "probe", ![p].e = e]
    /\ UNCHANGED <<op, shuttingDown, down, closer, quiet>>

EnsureJoined(p) ==
    /\ proc[p].pc = "join" /\ ~entry[proc[p].e].starting
    /\ EnsureReturns(p, ~entry[proc[p].e].failed)
    /\ UNCHANGED <<entry, tracked, op, shuttingDown, down, closer, used, quiet>>

\* startReady fails before its last check: a cancelled context, no client, or
\* discovery without a usable resource.
ReadinessFails(p) ==
    /\ proc[p].pc = "probe"
    /\ proc' = [proc EXCEPT ![p].pc = "final", ![p].err = TRUE]
    /\ UNCHANGED <<entry, tracked, op, shuttingDown, down, closer, used, quiet>>

Launch(p) ==
    LET e == proc[p].e IN
    /\ entry' = [entry EXCEPT ![e].ready = TRUE, ![e].run = "running",
                     ![e].eligible = entry[e].in.secret, ![e].attempts = 0]
    /\ proc' = [proc EXCEPT ![p].pc = "final", ![p].err = FALSE, ![e].pc = "idle"]
    /\ UNCHANGED <<tracked, op, shuttingDown, down, closer, used, quiet>>

\* A wrong version: the checks after the readiness probe are left out.
StartReadyUnchecked(p) == proc[p].pc = "probe" /\ Launch(p)

\* The last check of startReady, in one section with the publication of
\* cancel, done and ready; the goroutine of the indexer is launched.
StartReady(p) ==
    /\ proc[p].pc = "probe"
    /\ ~shuttingDown /\ ~entry[proc[p].e].intentional /\ tracked = proc[p].e
    /\ Launch(p)

FinalizeBody(p) ==
    LET e == proc[p].e IN
    /\ entry' = [entry EXCEPT ![e].failed = proc[p].err, ![e].starting = FALSE]
    /\ IF proc[p].err THEN Untrack(e) ELSE UNCHANGED tracked
    /\ EnsureReturns(p, ~proc[p].err)
    /\ UNCHANGED <<op, shuttingDown, down, closer, used, quiet>>

\* A wrong version: the start attempt is finished under the per-target lock.
FinalizeLocked(p) == proc[p].pc = "final" /\ op = None /\ FinalizeBody(p)

\* The end of the start attempt: result, removal on failure, readyWait closed.
Finalize(p) == proc[p].pc = "final" /\ FinalizeBody(p)

---------------------------------------------------------------------------
\* The goroutine of an indexer.

\* start returns after its context ended, and closes done.
IndexerStops(e) ==
    /\ entry[e].run = "running" /\ (entry[e].cancelled \/ down)
    /\ entry' = [entry EXCEPT ![e].run = "closed"]
    /\ Go(e, "exit")
    /\ UNCHANGED <<tracked, op, shuttingDown, down, closer, used, quiet>>

\* start returns although nobody asked.
IndexerCrashes(e) ==
    /\ entry[e].run = "running" /\ ~entry[e].cancelled /\ ~down
    /\ used.crashes < MaxCrashes
    /\ used' = [used EXCEPT !.crashes = @ + 1]
    /\ entry' = [entry EXCEPT ![e].run = "closed"]
    /\ Go(e, "exit")
    /\ UNCHANGED <<tracked, op, shuttingDown, down, closer, quiet>>

\* onIndexerExit up to the backoff, one section under the per-target lock.
OnIndexerExit(e) ==
    /\ e \in Entries /\ proc[e].pc = "exit" /\ op = None
    /\ LET next    == entry[e].attempts + 1
           restart == /\ entry[e].eligible /\ ~entry[e].intentional
                      /\ ~shuttingDown /\ next <= MaxAttempts
       IN IF tracked = e /\ restart
          THEN /\ entry' = [entry EXCEPT ![e].ready = FALSE, ![e].attempts = next]
               /\ Go(e, "backoff")
          ELSE Leave(e) /\ UNCHANGED entry
    /\ Untrack(e)
    /\ UNCHANGED <<op, shuttingDown, down, closer, used, quiet>>

\* The backoff is over: the restart is an EnsureIndexer call with the
\* generation of the dead entry, unless the host is going down or the
\* credential cannot be read from the vault.
RestartAfterBackoff(e) ==
    /\ e \in Entries /\ proc[e].pc = "backoff"
    /\ \/ Leave(e)
       \/ /\ ~down /\ ~shuttingDown
          /\ proc' = [proc EXCEPT ![e].pc = "ensure", ![e].in = entry[e].in]
    /\ UNCHANGED <<entry, tracked, op, shuttingDown, down, closer, used, quiet>>

\* A wrong version: the restart is counted a second time.
CarryAttemptsTwice(e) ==
    /\ e \in Entries /\ proc[e].pc = "carry"
    /\ entry' = [x \in Entries |-> IF x = tracked
                    THEN [entry[x] EXCEPT !.attempts = entry[e].attempts + 1]
                    ELSE entry[x]]
    /\ Leave(e)
    /\ UNCHANGED <<tracked, op, shuttingDown, down, closer, used, quiet>>

\* The attempt count is put onto whatever entry is there now.
CarryAttempts(e) ==
    /\ e \in Entries /\ proc[e].pc = "carry"
    /\ entry' = [x \in Entries |-> IF x = tracked
                    THEN [entry[x] EXCEPT !.attempts = entry[e].attempts]
                    ELSE entry[x]]
    /\ Leave(e)
    /\ UNCHANGED <<tracked, op, shuttingDown, down, closer, used, quiet>>

---------------------------------------------------------------------------
\* StopAll, which takes no per-target lock.

StopAllBegins ==
    /\ closer.pc = "idle"
    /\ shuttingDown' = TRUE
    /\ closer' = [pc |-> IF tracked = None THEN "end" ELSE "wait", e |-> tracked,
                  hasDone |-> tracked # None /\ entry[tracked].ready, late |-> FALSE]
    /\ entry' = [e \in Entries |-> IF e = tracked
                    THEN [entry[e] EXCEPT !.intentional = TRUE,
                                          !.cancelled = @ \/ entry[e].ready]
                    ELSE entry[e]]
    /\ UNCHANGED <<tracked, op, proc, down, used, quiet>>

\* The handle is done, or had no done channel yet.
StopAllDrops ==
    /\ closer.pc = "wait"
    /\ closer.hasDone => entry[closer.e].run = "closed"
    /\ Untrack(closer.e)
    /\ closer' = [closer EXCEPT !.pc = "end"]
    /\ UNCHANGED <<entry, op, proc, shuttingDown, down, used, quiet>>

StopAllTimesOut ==
    /\ closer.pc = "wait" /\ closer.hasDone
    /\ used.timeouts < MaxTimeouts
    /\ used' = [used EXCEPT !.timeouts = @ + 1]
    /\ entry' = [entry EXCEPT ![closer.e].reaped = TRUE]
    /\ closer' = [closer EXCEPT !.pc = "end", !.late = TRUE]
    /\ UNCHANGED <<tracked, op, proc, shuttingDown, down, quiet>>

StopAllReturns ==
    /\ closer.pc = "end"
    /\ shuttingDown' = FALSE
    /\ closer' = [pc |-> "done", e |-> None, hasDone |-> FALSE, late |-> FALSE]
    /\ quiet' = (~closer.late /\ Settled(None))
    /\ UNCHANGED <<entry, tracked, op, proc, down, used>>

\* The server cancels the context of all indexers before StopAll.
HostCancelled ==
    /\ ~down
    /\ down' = TRUE
    /\ UNCHANGED <<entry, tracked, op, proc, shuttingDown, closer, used, quiet>>

---------------------------------------------------------------------------
\* What a goroutine does on its own once it is called.
ProcStep(p) ==
    \/ StopIndexer(p) \/ StopSeesStartEnd(p) \/ StopSeesExit(p)
    \/ EnsureRefused(p) \/ EnsureFindsReady(p) \/ EnsureJoins(p)
    \/ EnsureReplaces(p) \/ EnsureStarts(p) \/ EnsureJoined(p)
    \/ ReadinessFails(p) \/ StartReady(p) \/ Finalize(p)
    \/ OnIndexerExit(p) \/ RestartAfterBackoff(p) \/ CarryAttempts(p)

StopAllStep == StopAllDrops \/ StopAllReturns

Next ==
    \/ \E p \in Callers : CallStop(p) \/ \E in \in Inputs : CallEnsure(p, in)
    \/ \E p \in Procs : ProcStep(p) \/ CallTimesOut(p)
    \/ \E e \in Entries : IndexerStops(e) \/ IndexerCrashes(e) \/ Reap(e)
    \/ StopAllBegins \/ StopAllStep \/ StopAllTimesOut
    \/ HostCancelled

Spec == Init /\ [][Next]_vars

\* Goroutines and mutexes are scheduled, and an indexer whose context is
\* cancelled ends (its shutdown has a deadline).  Nobody is obliged to call,
\* to crash or to time out.
FairSpec ==
    /\ Spec
    /\ \A p \in Procs : WF_vars(ProcStep(p))
    /\ \A e \in Entries : WF_vars(IndexerStops(e)) /\ WF_vars(Reap(e))
    /\ WF_vars(StopAllStep)

---------------------------------------------------------------------------
\* An indexer that runs is the entry the host tracks: no stop, timeout or
\* restart leaves an indexer behind that nobody can stop any more, and so two
\* never run for one target ("so a concurrent EnsureIndexer cannot start a
\* duplicate", inventory_indexing_runtime.go).
RunningIsTracked ==
    \A e \in Entries : entry[e].run = "running" => tracked = e

\* Once a stop returned without error while nobody was on the way to start
\* an indexer, none is tracked and none runs until EnsureIndexer is called:
\* the exit of the stopped indexer does not bring it back.
StoppedStaysDown ==
    quiet => tracked = None /\ \A e \in Entries : entry[e].run # "running"

\* Every call of EnsureIndexer, StopIndexer and StopAll returns: stops that
\* wait for a start with the target's lock held, starts that end, exits that
\* need the lock and StopAll never wait for each other for ever.
CallsReturn ==
    /\ \A p \in Callers : proc[p].pc # "idle" ~> proc[p].pc = "idle"
    /\ closer.pc = "wait" ~> closer.pc = "done"
=============================================================================
