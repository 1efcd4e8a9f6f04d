-------------------------- MODULE ManagedResource --------------------------
(***************************************************************************)
(* One name of a type that is both managed and reported as inventory,      *)
(* across its incarnations: the create, delete and resume workflows of     *)
(* managed resources, the cleanup workflow of each fulfillment, inventory  *)
(* reports for the name, and the definition of the type.  The row of the   *)
(* resource is found by name, its fulfillment by ID: the workflows of one  *)
(* incarnation meet the rows of the next.                                  *)
(*                                                                         *)
(* One action per activity or transaction.  A pass of the orchestration    *)
(* workflow is summed up by what it loads and what it persists;            *)
(* Orchestration.tla looks inside it.                                      *)
(***************************************************************************)
EXTENDS Fulfillment

CONSTANTS
    Creators,        \* calls of Create
    Deleters,        \* calls of Delete
    Resumers,        \* calls of Resume
    LossyActivities, \* activities whose commit may be followed by a lost result
    BufferedSignals, \* a cleanup signal sent while the workflow is not running is kept
    Reports,         \* inventory reports come in
    MaxIncarnations, \* bound on the fulfillments made for the name
    NoRow            \* no such row in the store

Calls == Creators \cup Deleters \cup Resumers
Ids == 1 .. MaxIncarnations

\* Nothing below tells two credentials or two targets apart.
User == "user"
Rows == FulfillmentRecord({User}, {})
\* The row of the name is known by its fulfillment; one without has no
\* managed state, an inventory report made it.
Unmanaged == 0
Resource == Ids \cup {Unmanaged}

ASSUME ManagedAssumption ==
    /\ MaxIncarnations \in Nat
    /\ Creators \cap Deleters = {} /\ Resumers \cap (Creators \cup Deleters) = {}
    /\ LossyActivities \subseteq {"create", "cleanup"}
    /\ {BufferedSignals, Reports} \subseteq BOOLEAN
    /\ NoRow \notin Rows \cup Resource

VARIABLES
    typeDef,   \* the definition of the type is registered
    row,       \* the extension resource row of the name, or NoRow
    ful,       \* the fulfillment rows, by ID
    orch,      \* the orchestration instance of each fulfillment
    cleanup,   \* where the cleanup workflow of each fulfillment is
    signal,    \* DeleteCleanupCompleteSignal is queued for it
    call,      \* where the workflow of each call is
    made,      \* fulfillment IDs given out
    stale      \* history: a cleanup ran whose fulfillment was gone already

vars == <<typeDef, row, ful, orch, cleanup, signal, call, made, stale>>

NoInstance == [pc |-> "none", snap |-> NoRow, pause |-> FALSE, restart |-> FALSE]
IdleCall == [pc |-> "idle", id |-> Unmanaged, gen |-> 0, seen |-> 0]

Stored(i) == ful[i] # NoRow
Managed == row \in Ids
Running(c) == call[c].pc \notin {"idle", "done", "failed"}

TypeOK ==
    /\ typeDef \in BOOLEAN
    /\ row \in Resource \cup {NoRow}
    /\ ful \in [Ids -> Rows \cup {NoRow}]
    /\ orch \in [Ids -> [pc : {"none", "load", "persist", "signal", "finish"},
                         snap : Rows \cup {NoRow},
                         pause : BOOLEAN, restart : BOOLEAN]]
    /\ \A i \in Ids : orch[i].pc \in {"persist", "signal"} => orch[i].snap # NoRow
    /\ cleanup \in [Ids -> {"none", "await", "delete", "done"}]
    /\ signal \in [Ids -> BOOLEAN]
    /\ call \in [Calls -> [pc : {"idle", "persist", "startOrch", "mutate", "startCleanup",
                                 "converge", "start", "done", "failed"},
                           id : Ids \cup {Unmanaged}, gen : Nat, seen : Nat]]
    /\ made \in 0 .. MaxIncarnations /\ stale \in BOOLEAN

Init ==
    /\ typeDef = TRUE /\ row = NoRow
    /\ ful = [i \in Ids |-> NoRow]
    /\ orch = [i \in Ids |-> NoInstance]
    /\ cleanup = [i \in Ids |-> "none"] /\ signal = [i \in Ids |-> FALSE]
    /\ call = [c \in Calls |-> IdleCall]
    /\ made = 0 /\ stale = FALSE

---------------------------------------------------------------------------
(* The service calls: a read transaction, then the start of a workflow.    *)

Goto(c, place) == call' = [call EXCEPT ![c].pc = place]
\* The workflow ends; its locals are gone.
Ends(c, how) == call' = [call EXCEPT ![c] = [IdleCall EXCEPT !.pc = how]]

\* The calls of one kind are interchangeable: the next one is some idle one.
Unused(S, c) == c \in S /\ call[c].pc = "idle" /\ c = CHOOSE d \in S : call[d].pc = "idle"

\* One instance per name runs at a time: its ID is made of the name.
CallCreate(c) ==
    /\ Unused(Creators, c)
    /\ typeDef
    /\ \A d \in Creators : ~Running(d)
    /\ Goto(c, "persist")
    /\ UNCHANGED <<typeDef, row, ful, orch, cleanup, signal, made, stale>>

CallDelete(c) ==
    /\ Unused(Deleters, c)
    /\ typeDef /\ Managed
    /\ \A d \in Deleters : ~Running(d)
    /\ Goto(c, "mutate")
    /\ UNCHANGED <<typeDef, row, ful, orch, cleanup, signal, made, stale>>

\* The ID of a resume instance also names the generation the service read.
CallResume(c) ==
    /\ Unused(Resumers, c)
    /\ Managed /\ Stored(row)
    /\ \A d \in Resumers : Running(d) => call[d].seen # ful[row].generation
    /\ call' = [call EXCEPT ![c].pc = "mutate", ![c].seen = ful[row].generation]
    /\ UNCHANGED <<typeDef, row, ful, orch, cleanup, signal, made, stale>>

---------------------------------------------------------------------------
(* The create workflow                                                     *)

\* PersistManagedResource: both rows in one transaction.  The name must be
\* free and the type must be there; any other attempt fails and is repeated
\* until the attempts are used up.  A lost result repeats it as well.
PersistManagedResource(c) ==
    /\ call[c].pc = "persist"
    /\ \/ /\ row = NoRow /\ typeDef
          /\ made < MaxIncarnations
          /\ made' = made + 1
          /\ ful' = [ful EXCEPT ![made'] = NewFulfillment(User)]
          /\ row' = made'
          /\ \/ call' = [call EXCEPT ![c].pc = "startOrch", ![c].id = made']
             \/ "create" \in LossyActivities /\ UNCHANGED call
       \/ /\ row # NoRow \/ ~typeDef
          /\ Ends(c, "failed")
          /\ UNCHANGED <<row, ful, made>>
    /\ UNCHANGED <<typeDef, orch, cleanup, signal, stale>>

StartInstance(i) == /\ orch[i].pc = "none"
                    /\ orch' = [orch EXCEPT ![i].pc = "load"]

\* StartOrchestration.
CreateStartsOrchestration(c) ==
    LET i == call[c].id IN
    /\ call[c].pc = "startOrch"
    /\ \/ StartInstance(i) /\ Ends(c, "done")
       \/ orch[i].pc # "none" /\ Ends(c, "failed") /\ UNCHANGED orch
    /\ UNCHANGED <<typeDef, row, ful, cleanup, signal, made, stale>>

---------------------------------------------------------------------------
(* The delete and resume workflows                                         *)

Mutated(c, f, place) ==
    /\ ful' = [ful EXCEPT ![row] = f]
    /\ call' = [call EXCEPT ![c].pc = place, ![c].id = row, ![c].gen = f.generation]

\* MutateToDeleting finds the row by name and its fulfillment through it.
MutateToDeleting(c) ==
    /\ c \in Deleters /\ call[c].pc = "mutate"
    /\ \/ /\ Managed /\ Stored(row)
          /\ Mutated(c, TransitionToDeleting(ful[row], User), "startCleanup")
       \/ ~(Managed /\ Stored(row)) /\ Ends(c, "failed") /\ UNCHANGED ful
    /\ UNCHANGED <<typeDef, row, orch, cleanup, signal, made, stale>>

\* MutateToResumed, without the optional etag and generation checks.
MutateToResumed(c) ==
    LET resumable == Managed /\ Stored(row) /\ CanResume(ful[row]) IN
    /\ c \in Resumers /\ call[c].pc = "mutate"
    /\ \/ resumable /\ Mutated(c, Resume(ful[row], User), "converge")
       \/ ~resumable /\ Ends(c, "failed") /\ UNCHANGED ful
    /\ UNCHANGED <<typeDef, row, orch, cleanup, signal, made, stale>>

\* A wrong version: the delete relies on a cleanup workflow of an earlier one.
StartCleanupOnce(c) ==
    /\ call[c].pc = "startCleanup"
    /\ Goto(c, "converge")
    /\ UNCHANGED <<typeDef, row, ful, orch, cleanup, signal, made, stale>>

\* StartCleanup: ErrAlreadyRunning is success.
StartCleanup(c) ==
    LET i == call[c].id IN
    /\ call[c].pc = "startCleanup"
    /\ cleanup' = [cleanup EXCEPT ![i] = IF @ \in {"none", "done"} THEN "await" ELSE @]
    /\ Goto(c, "converge")
    /\ UNCHANGED <<typeDef, row, ful, orch, signal, made, stale>>

\* convergenceLoop, its load and its start.
ConvergenceLoad(c) ==
    LET f == ful[call[c].id] IN
    /\ call[c].pc = "converge"
    /\ IF f = NoRow THEN Ends(c, IF c \in Deleters THEN "done" ELSE "failed")
       ELSE IF f.observed >= call[c].gen \/ f.generation > call[c].gen THEN Ends(c, "done")
       ELSE Goto(c, "start")
    /\ UNCHANGED <<typeDef, row, ful, orch, cleanup, signal, made, stale>>

ConvergenceStart(c) ==
    /\ call[c].pc = "start"
    /\ \/ StartInstance(call[c].id) /\ Ends(c, "done")
       \/ orch[call[c].id].pc # "none" /\ Goto(c, "converge") /\ UNCHANGED orch
    /\ UNCHANGED <<typeDef, row, ful, cleanup, signal, made, stale>>

---------------------------------------------------------------------------
(* The orchestration of fulfillment i                                      *)

\* A wrong version: a fulfillment that is gone does not end the run.
LoadUnchecked(i) ==
    /\ orch[i].pc = "load"
    /\ ful' = [ful EXCEPT ![i] = IF Stored(i) THEN AcquireOrchestrationLock(@) ELSE @]
    /\ orch' = [orch EXCEPT ![i].pc = "persist", ![i].snap = ful'[i]]
    /\ UNCHANGED <<typeDef, row, cleanup, signal, call, made, stale>>

\* AcquireLockAndLoad, and the outcome of the delivery or removal that
\* follows: it succeeds, or credentials are refused and the fulfillment is to
\* be paused.
Load(i) ==
    /\ orch[i].pc = "load"
    /\ \/ /\ ~Stored(i)
          /\ orch' = [orch EXCEPT ![i].pc = "finish"]
          /\ UNCHANGED ful
       \/ /\ Stored(i)
          /\ ful' = [ful EXCEPT ![i] = AcquireOrchestrationLock(@)]
          /\ \E pause \in BOOLEAN :
                orch' = [orch EXCEPT ![i] = [pc |-> "persist", snap |-> ful'[i],
                                             pause |-> pause, restart |-> FALSE]]
    /\ UNCHANGED <<typeDef, row, cleanup, signal, call, made, stale>>

Deleting(i) == orch[i].snap.state = "deleting"
Result(i) == [pause |-> orch[i].pause, resolvedTargets |-> {}, auth |-> orch[i].snap.auth,
              state |-> IF Deleting(i) THEN "deleting" ELSE "active"]
Turn(restart) == [NoInstance EXCEPT !.pc = IF restart THEN "load" ELSE "finish"]

\* PersistAndCompleteReconciliation up to its commit.
Persist(i) ==
    LET gen == orch[i].snap.generation
        restart == NeedsRestart(ful[i], gen)
    IN
    /\ orch[i].pc = "persist"
    /\ \/ ~Stored(i) /\ orch' = [orch EXCEPT ![i] = Turn(TRUE)] /\ UNCHANGED ful
       \/ /\ Stored(i)
          /\ ful' = [ful EXCEPT ![i] =
                        CompleteReconciliation(ApplyReconciliationResult(@, Result(i)), gen)]
          /\ orch' = [orch EXCEPT ![i] = IF Deleting(i) /\ ~orch[i].pause
                                        THEN [@ EXCEPT !.pc = "signal", !.restart = restart]
                                        ELSE Turn(restart)]
    /\ UNCHANGED <<typeDef, row, cleanup, signal, call, made, stale>>

\* SignalDeleteCleanupComplete: an engine that does not keep the signal has
\* the activity repeated while no cleanup workflow runs.
Signal(i) ==
    /\ orch[i].pc = "signal"
    /\ \/ /\ cleanup[i] \in {"await", "delete"} \/ BufferedSignals
          /\ signal' = [signal EXCEPT ![i] = @ \/ cleanup[i] # "delete"]
          /\ orch' = [orch EXCEPT ![i] = Turn(orch[i].restart)]
       \/ /\ cleanup[i] \in {"none", "done"} /\ ~BufferedSignals
          /\ orch' = [orch EXCEPT ![i].pc = "persist", ![i].restart = FALSE]
          /\ UNCHANGED signal
    /\ UNCHANGED <<typeDef, row, ful, cleanup, call, made, stale>>

Finish(i) ==
    /\ orch[i].pc = "finish"
    /\ orch' = [orch EXCEPT ![i] = NoInstance]
    /\ UNCHANGED <<typeDef, row, ful, cleanup, signal, call, made, stale>>

---------------------------------------------------------------------------
(* The cleanup workflow of fulfillment i                                   *)

\* A wrong version: the signal is not waited for.
AwaitSignalNot(i) ==
    /\ cleanup[i] = "await"
    /\ cleanup' = [cleanup EXCEPT ![i] = "delete"]
    /\ signal' = [signal EXCEPT ![i] = FALSE]
    /\ UNCHANGED <<typeDef, row, ful, orch, call, made, stale>>

AwaitSignal(i) ==
    /\ cleanup[i] = "await" /\ signal[i]
    /\ cleanup' = [cleanup EXCEPT ![i] = "delete"]
    /\ signal' = [signal EXCEPT ![i] = FALSE]
    /\ UNCHANGED <<typeDef, row, ful, orch, call, made, stale>>

\* A wrong version: the fulfillment row is left to somebody else.
DeleteManagedResourceOnly(i) ==
    /\ cleanup[i] = "delete"
    /\ row' = NoRow
    /\ cleanup' = [cleanup EXCEPT ![i] = "done"]
    /\ UNCHANGED <<typeDef, ful, orch, signal, call, made, stale>>

\* The result of the activity may be lost, and the activity repeated.
AfterCleanup == IF "cleanup" \in LossyActivities THEN {"done", "delete"} ELSE {"done"}

\* DeleteManagedResourceAndFulfillment: the row of the name, whoever owns it,
\* with its managed and inventory state, and fulfillment i.  Rows already
\* gone are success.
DeleteManagedResourceAndFulfillment(i) ==
    /\ cleanup[i] = "delete"
    /\ row' = NoRow
    /\ ful' = [ful EXCEPT ![i] = NoRow]
    /\ \E next \in AfterCleanup : cleanup' = [cleanup EXCEPT ![i] = next]
    /\ stale' = (stale \/ ~Stored(i))
    /\ UNCHANGED <<typeDef, orch, signal, call, made>>

---------------------------------------------------------------------------
(* Inventory and the type                                                  *)

\* ReplaceBatch and ApplyDeltaBatch resolve the row by name or create one
\* without managed state; they refuse the delete of a type with management.
\* What they write to a row that is there is not part of this model.
Report ==
    /\ Reports /\ typeDef
    /\ row = NoRow
    /\ row' = Unmanaged
    /\ UNCHANGED <<typeDef, ful, orch, cleanup, signal, call, made, stale>>

\* ExtensionResourceTypeService.Delete: the foreign key of the row refuses it.
DeleteType ==
    /\ typeDef /\ row = NoRow
    /\ typeDef' = FALSE
    /\ UNCHANGED <<row, ful, orch, cleanup, signal, call, made, stale>>

CreateType ==
    /\ ~typeDef
    /\ typeDef' = TRUE
    /\ UNCHANGED <<row, ful, orch, cleanup, signal, call, made, stale>>

---------------------------------------------------------------------------
CallStep(c) ==
    \/ PersistManagedResource(c) \/ CreateStartsOrchestration(c)
    \/ MutateToDeleting(c) \/ MutateToResumed(c) \/ StartCleanup(c)
    \/ ConvergenceLoad(c) \/ ConvergenceStart(c)
OrchStep(i) == Load(i) \/ Persist(i) \/ Signal(i) \/ Finish(i)
CleanupStep(i) == AwaitSignal(i) \/ DeleteManagedResourceAndFulfillment(i)

Next ==
    \/ \E c \in Calls : CallCreate(c) \/ CallDelete(c) \/ CallResume(c) \/ CallStep(c)
    \/ \E i \in Ids : OrchStep(i) \/ CleanupStep(i)
    \/ Report \/ DeleteType \/ CreateType

Spec == Init /\ [][Next]_vars

\* The engine runs every workflow it accepted; users, addons and losses are
\* free.
FairSpec ==
    /\ Spec
    /\ \A c \in Calls : WF_vars(CallStep(c))
    /\ \A i \in Ids : WF_vars(OrchStep(i)) /\ WF_vars(CleanupStep(i))

---------------------------------------------------------------------------
\* A managed row always names a stored fulfillment, and every stored
\* fulfillment is the one the row names, across deletes and creates of the
\* name, reports and lost results.  One thing alone can leave a fulfillment
\* behind that no call reaches any more: a cleanup that runs once more after
\* its fulfillment was gone, and takes the row of the next incarnation.
Paired ==
    /\ Managed => Stored(row)
    /\ ~stale => \A i \in Ids : Stored(i) => row = i

\* With the same exception a managed resource goes only after a delete of
\* this very incarnation was torn down: never because of a delete of an
\* earlier one or of an inventory report.
GoneOnlyAfterTeardown ==
    [][Managed /\ row' = NoRow /\ ~stale'
         => /\ cleanup[row] = "delete"
            /\ ful[row].observed >= 2]_vars

\* A fulfillment whose removal was persisted is eventually gone from the
\* store together with its resource, also when the signal came before the
\* cleanup workflow was started or a second delete came in between.
TornDownIsRemoved == \A i \in Ids : orch[i].pc = "signal" ~> ~Stored(i)

---------------------------------------------------------------------------
(* What a comment of the code says and the code does not do                *)

\* "The managed-resource and fulfillment deletes tolerate [ErrNotFound] so
\* the activity is idempotent on replay": an execution that finds its
\* fulfillment gone changes nothing.
CleanupIsIdempotent ==
    [][\A i \in Ids : cleanup[i] = "delete" /\ ~Stored(i) /\ row' = NoRow
          => row = NoRow]_vars
=============================================================================
