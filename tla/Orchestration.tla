--------------------------- MODULE Orchestration ---------------------------
(***************************************************************************)
(* One fulfillment from its creation to its hard delete: the mutation      *)
(* workflows that write generations (create, delete, resume), the single   *)
(* orchestration workflow instance that reconciles them, the delete        *)
(* cleanup workflow, and what all of them share: the fulfillment row, the  *)
(* delivery records and the target pool.                                   *)
(*                                                                         *)
(* One action per activity.  Every write activity is one transaction, so   *)
(* one step: this is the store of sqlite, whose Begin is BEGIN IMMEDIATE   *)
(* (FulfillmentStore.tla looks inside the transaction).  One call of       *)
(* dispatchAndAwait is one step with the outcomes it can return            *)
(* (DeliveryDispatch.tla looks inside it).                                 *)
(***************************************************************************)
EXTENDS Fulfillment, FiniteSets

CONSTANTS
    Requests,        \* the delete and resume calls users may make, one workflow each
    Creator,         \* the credentials of the create call
    Targets,         \* every target that can be in the pool
    StaticTargets,   \* the targets a static placement names
    Accepting,       \* the targets that accept at least one of the manifests
    PlacementType,   \* "static", "all" or "selector"
    Outcomes,        \* what a dispatch cycle may return besides success
    Checks,          \* the optimistic checks a resume call may ask for
    LossyActivities, \* activities whose commit may be followed by a lost result
    AttemptsRunOut,  \* an activity of a mutation workflow may use up its attempts
    BufferedSignals, \* a cleanup signal sent while the workflow is not running is kept
    PoolChanges,     \* targets may come, go and be relabelled
    MaxDisturbances, \* bound on transient errors, lost results and pool changes
    NoRow            \* no fulfillment row in the store

ASSUME OrchestrationAssumption ==
    /\ Creator \notin Requests
    /\ StaticTargets \subseteq Targets
    /\ Accepting \subseteq Targets
    /\ PlacementType \in {"static", "all", "selector"}
    /\ Outcomes \subseteq {"failed", "auth_failed", "terminal"}
    /\ Checks \subseteq {"none", "etag", "generation"}
    /\ LossyActivities \subseteq {"create", "delete", "resume", "persist"}
    /\ AttemptsRunOut \in BOOLEAN
    /\ BufferedSignals \in BOOLEAN
    /\ PoolChanges \in BOOLEAN
    /\ MaxDisturbances \in Nat
    /\ NoRow \notin FulfillmentRecord(Requests \cup {Creator}, Targets)

Auths == Requests \cup {Creator}

VARIABLES
    row,           \* the fulfillment row, or NoRow
    pool,          \* what each target is to the store: absent, or present with
                   \* labels that match the selector or labels that do not
    records,       \* the targets with a delivery record of this fulfillment
    installed,     \* the targets that hold manifests of this fulfillment
    adrift,        \* those of them that the code let go of (history, see LetGo)
    pc,            \* where the orchestration instance is; "none": no instance
    snap,          \* the ReconciliationSnapshot's fulfillment
    snapPool,      \* and its pool
    result,        \* the ReconciliationResult of the current pass
    needsRestart,  \* the answer of the last PersistAndCompleteReconciliation
    creator,       \* where the create workflow is
    req,           \* where each delete or resume workflow is
    cleanup,       \* where the delete cleanup workflow is
    cleanupSignal, \* DeleteCleanupCompleteSignal is queued for it
    disturbances   \* environment steps taken so far, for the bound only

store == <<row, pool, records, installed, adrift>>
orch  == <<pc, snap, snapPool, result, needsRestart>>
users == <<creator, req>>
clean == <<cleanup, cleanupSignal>>
vars  == <<store, orch, users, clean, disturbances>>

-----------------------------------------------------------------------------
(* Types                                                                   *)

\* pcs of an instance that holds a snapshot
Passing == {"place", "remove", "check", "deliver", "deleteTargets",
            "cleanupData", "persist", "signal"}
OrchPC == Passing \cup {"none", "load", "release", "finish"}
ReqPC  == {"idle", "mutate", "startCleanup", "converge", "start", "done", "failed"}
ReqRecord ==
    [pc    : ReqPC,
     kind  : {"none", "delete", "resume"},
     check : Checks \cup {"none"},
     seen  : {<<>>} \cup (Nat \X FulfillmentState \X BOOLEAN \X SUBSET Targets),
     myGen : Nat]

Rows == FulfillmentRecord(Auths, Targets) \cup {NoRow}

Pools == [Targets -> {"absent", "matching", "other"}]
Registered(p) == {t \in Targets : p[t] # "absent"}
AllMatching == [t \in Targets |-> "matching"]

NoResult == [pause |-> FALSE, state |-> "creating", resolvedTargets |-> {}, auth |-> Creator]

Idle == [pc |-> "idle", kind |-> "none", check |-> "none", seen |-> <<>>, myGen |-> 0]

TypeOK ==
    /\ row \in Rows
    /\ pool \in Pools
    /\ records \in SUBSET Targets
    /\ installed \in SUBSET Targets
    /\ adrift \in SUBSET installed
    /\ pc \in OrchPC
    /\ snap \in Rows
    /\ pc \in Passing => snap # NoRow
    /\ snapPool \in Pools
    /\ result \in ReconciliationResult(Auths, Targets)
    /\ needsRestart \in BOOLEAN
    /\ creator \in {"persist", "replay", "start", "done", "failed"}
    /\ req \in [Requests -> ReqRecord]
    /\ cleanup \in {"none", "await", "delete", "done"}
    /\ cleanupSignal \in BOOLEAN
    /\ disturbances \in Nat

Init ==
    /\ row = NoRow
    /\ pool = AllMatching
    /\ records = {}
    /\ installed = {}
    /\ adrift = {}
    /\ pc = "none"
    /\ snap = NoRow
    /\ snapPool = AllMatching
    /\ result = NoResult
    /\ needsRestart = FALSE
    /\ creator = "persist"
    /\ req = [m \in Requests |-> Idle]
    /\ cleanup = "none"
    /\ cleanupSignal = FALSE
    /\ disturbances = 0

\* A step the environment takes at most MaxDisturbances times.
Disturb == /\ disturbances < MaxDisturbances
           /\ disturbances' = disturbances + 1

-----------------------------------------------------------------------------
(* Starting the orchestration instance                                     *)

\* The engine runs at most one instance per fulfillment ID; a second Start
\* answers ErrAlreadyRunning.
AlreadyRunning == pc # "none"

StartInstance == /\ ~AlreadyRunning
                 /\ pc' = "load"
                 /\ UNCHANGED <<snap, snapPool, result, needsRestart>>

-----------------------------------------------------------------------------
(* The create workflow                                                     *)

\* PersistDeployment: fulfillment and deployment rows in one transaction.
PersistDeployment ==
    /\ creator = "persist"
    /\ row' = NewFulfillment(Creator)
    /\ \/ creator' = "start" /\ UNCHANGED disturbances
       \/ "create" \in LossyActivities /\ Disturb /\ creator' = "replay"
    /\ UNCHANGED <<pool, records, installed, adrift, orch, req, clean>>

\* Its second execution finds the deployment's name taken and fails, or, the
\* name being free again, makes a fulfillment with an ID of its own: this one
\* never has its orchestration started.
PersistDeploymentAgain ==
    /\ creator = "replay"
    /\ creator' = "failed"
    /\ UNCHANGED <<store, orch, req, clean, disturbances>>

\* StartOrchestration.  ErrAlreadyRunning is an error here, retried until the
\* attempts are used up.
CreateStartsOrchestration ==
    /\ creator = "start"
    /\ \/ StartInstance /\ creator' = "done"
       \/ AlreadyRunning /\ creator' = "failed" /\ UNCHANGED orch
    /\ UNCHANGED <<store, req, clean, disturbances>>

-----------------------------------------------------------------------------
(* The delete and resume workflows                                         *)

Running(m) == req[m].pc \notin {"idle", "done", "failed"}

\* The service call: a read of the row, the idempotent return of Delete, and
\* the start of a workflow whose ID names the call, the deployment and the
\* generation just read.
Request(m, kind, check) ==
    /\ req[m].pc = "idle"
    /\ row # NoRow
    /\ kind = "delete" => /\ ~(row.state = "deleting" /\ ~row.paused)
                          /\ check = "none"
    /\ \A n \in Requests : ~(/\ Running(n)
                             /\ req[n].kind = kind
                             /\ req[n].seen[1] = row.generation)
    /\ req' = [req EXCEPT ![m] = [pc |-> "mutate", kind |-> kind, check |-> check,
                                  seen |-> EtagFields(row), myGen |-> 0]]
    /\ UNCHANGED <<store, orch, creator, clean, disturbances>>

\* The step of m is done with pc p and generation g.
Advance(m, p, g) == req' = [req EXCEPT ![m].pc = p, ![m].myGen = g]

\* MutateToDeleting.
MutateToDeleting(m) ==
    /\ req[m].pc = "mutate"
    /\ req[m].kind = "delete"
    /\ \/ /\ row # NoRow
          /\ row' = TransitionToDeleting(row, m)
          /\ \/ Advance(m, "startCleanup", row'.generation) /\ UNCHANGED disturbances
             \/ "delete" \in LossyActivities /\ Disturb /\ UNCHANGED req
       \/ /\ row = NoRow
          /\ Advance(m, "failed", 0)
          /\ UNCHANGED <<row, disturbances>>
    /\ UNCHANGED <<pool, records, installed, adrift, orch, creator, clean>>

\* A wrong version: the checks are made by the service call only.
CheckPassesUnchecked(m) == TRUE

\* The etag and expected_generation checks of MutateToResumed.
CheckPasses(m) ==
    /\ req[m].check = "etag" => req[m].seen = EtagFields(row)
    /\ req[m].check = "generation" => req[m].seen[1] = row.generation

Resumable(m) == row # NoRow /\ CheckPasses(m) /\ CanResume(row)

\* MutateToResumed.
MutateToResumed(m) ==
    /\ req[m].pc = "mutate"
    /\ req[m].kind = "resume"
    /\ \/ /\ Resumable(m)
          /\ row' = Resume(row, m)
          /\ \/ Advance(m, "converge", row'.generation) /\ UNCHANGED disturbances
             \/ "resume" \in LossyActivities /\ Disturb /\ UNCHANGED req
       \/ /\ ~Resumable(m)
          /\ Advance(m, "failed", 0)
          /\ UNCHANGED <<row, disturbances>>
    /\ UNCHANGED <<pool, records, installed, adrift, orch, creator, clean>>

\* StartCleanup: an instance already running is success; a finished one does
\* not stand in the way of a new one.
StartCleanup(m) ==
    /\ req[m].pc = "startCleanup"
    /\ cleanup' = IF cleanup \in {"none", "done"} THEN "await" ELSE cleanup
    /\ req' = [req EXCEPT ![m].pc = "converge"]
    /\ UNCHANGED <<store, orch, creator, cleanupSignal, disturbances>>

\* A wrong version: the workflow's own generation counts as superseded.
VerdictTooEager(m) ==
    IF row = NoRow THEN IF req[m].kind = "delete" THEN "done" ELSE "failed"
    ELSE IF row.observed >= req[m].myGen \/ row.generation >= req[m].myGen THEN "done"
    ELSE "start"

\* The first half of convergenceLoop: load the row and look whether the
\* generation this workflow wrote is observed or superseded.
Verdict(m) ==
    IF row = NoRow THEN IF req[m].kind = "delete" THEN "done" ELSE "failed"
    ELSE IF row.observed >= req[m].myGen \/ row.generation > req[m].myGen THEN "done"
    ELSE "start"

ConvergenceLoad(m) ==
    /\ req[m].pc = "converge"
    /\ req' = [req EXCEPT ![m].pc = Verdict(m)]
    /\ UNCHANGED <<store, orch, creator, clean, disturbances>>

\* A wrong version: an instance that runs is taken for one that will see the
\* new generation.
ConvergenceStartTrustsRunning(m) ==
    /\ req[m].pc = "start"
    /\ \/ StartInstance
       \/ AlreadyRunning /\ UNCHANGED orch
    /\ req' = [req EXCEPT ![m].pc = "done"]
    /\ UNCHANGED <<store, creator, clean, disturbances>>

\* The second half: start orchestration, or sleep and go round again.
ConvergenceStart(m) ==
    /\ req[m].pc = "start"
    /\ \/ StartInstance /\ req' = [req EXCEPT ![m].pc = "done"]
       \/ AlreadyRunning /\ req' = [req EXCEPT ![m].pc = "converge"] /\ UNCHANGED orch
    /\ UNCHANGED <<store, creator, clean, disturbances>>

\* An activity of the workflow fails on every attempt before its commit: Run
\* returns the error.
MutationFails(m) ==
    /\ AttemptsRunOut
    /\ Running(m)
    /\ Disturb
    /\ req' = [req EXCEPT ![m].pc = "failed"]
    /\ UNCHANGED <<store, orch, creator, clean>>

-----------------------------------------------------------------------------
(* The orchestration workflow                                              *)

\* A wrong version: a missing row does not end the run.
AcquireLockAndLoadUnchecked ==
    /\ pc = "load"
    /\ IF row = NoRow THEN UNCHANGED row ELSE row' = AcquireOrchestrationLock(row)
    /\ snap' = row'
    /\ snapPool' = pool
    /\ pc' = IF row # NoRow /\ row.state = "deleting" THEN "deleteTargets" ELSE "place"
    /\ UNCHANGED <<pool, records, installed, adrift, result, needsRestart, users, clean, disturbances>>

\* AcquireLockAndLoad.  A missing row is a terminal error: the run ends.
AcquireLockAndLoad ==
    /\ pc = "load"
    /\ \/ /\ row = NoRow
          /\ pc' = "finish"
          /\ UNCHANGED <<row, snap, snapPool>>
       \/ /\ row # NoRow
          /\ row' = AcquireOrchestrationLock(row)
          /\ snap' = row'
          /\ snapPool' = pool
          /\ pc' = IF row.state = "deleting" THEN "deleteTargets" ELSE "place"
    /\ UNCHANGED <<pool, records, installed, adrift, result, needsRestart, users, clean, disturbances>>

\* PlacementStrategy.Resolve: a static placement fails on a target that is
\* not in the pool.
Resolve(p) == CASE PlacementType = "static"   -> StaticTargets
                [] PlacementType = "all"      -> Registered(p)
                [] PlacementType = "selector" -> {t \in Targets : p[t] = "matching"}
ResolveFails(p) == PlacementType = "static" /\ ~(StaticTargets \subseteq Registered(p))

\* ComputeTargetDelta and the immediate rollout's plan: one remove step if a
\* target left, then one deliver step to every resolved target.
Removed == snap.resolvedTargets \ Resolve(snapPool)

\* A wrong version: a pause forgets what was resolved.
PauseForgetsTargets(ids) ==
    [pause |-> TRUE, state |-> "creating", resolvedTargets |-> {}, auth |-> snap.auth]

Pause(ids) == [pause |-> TRUE, state |-> "creating", resolvedTargets |-> ids, auth |-> snap.auth]
Settle(s, ids) == [pause |-> FALSE, state |-> s, resolvedTargets |-> ids, auth |-> snap.auth]

\* The targets FilterAcceptedManifests leaves something to deliver to.
Receivers == Resolve(snapPool) \cap Accepting

\* The history of the targets the code loses sight of: a step that lets go of
\* the targets in S adds those that still hold manifests.  The four sets below
\* are the ways the code has; no guard and no other variable reads adrift.
LetGo(S) == adrift' = (adrift \cup S) \cap installed'

\* Placement resolves to nothing: the pass ends well without a remove step.
EmptyPlacement == IF pc' = "persist" THEN snap.resolvedTargets ELSE {}

\* The remove step fails for good or pauses: the result names the new
\* placement, whatever is left on the targets that were to be removed.
FailedRemoval == IF pc' = "persist" THEN Removed ELSE {}

\* A pass that delivered is retried: the row does not name its new targets
\* until a pass that resolves to them again is persisted.
RetriedPass ==
    IF pc \in {"deliver", "persist"} /\ pc' = "release" /\ row # NoRow
    THEN Receivers \ row.resolvedTargets ELSE {}

\* A delete passes by the targets that are not registered any more.
DeregisteredTargets ==
    IF pc' = "cleanupData" THEN snap.resolvedTargets \ Registered(snapPool) ELSE {}

\* ResolvePlacement and PlanRollout.  No target resolved ends the pass with
\* success, before any delta is computed.
ResolveAndPlan ==
    /\ pc = "place"
    /\ \/ /\ ResolveFails(snapPool)
          /\ pc' = "release"
          /\ UNCHANGED result
       \/ /\ ~ResolveFails(snapPool)
          /\ Resolve(snapPool) = {}
          /\ result' = Settle("active", {})
          /\ pc' = "persist"
       \/ /\ ~ResolveFails(snapPool)
          /\ Resolve(snapPool) # {}
          /\ pc' = IF Removed # {} THEN "remove" ELSE "deliver"
          /\ UNCHANGED result
    /\ UNCHANGED <<row, pool, records, installed, snap, snapPool, needsRestart, users, clean, disturbances>>
    /\ LetGo(EmptyPlacement)

\* How Run ends the pass when dispatchAndAwait returns an error: retry, pause
\* or fail, with the target IDs the pass would have persisted.
PassError(ids) ==
    \/ /\ "failed" \in Outcomes
       /\ Disturb
       /\ pc' = "release"
       /\ UNCHANGED result
    \/ /\ "auth_failed" \in Outcomes
       /\ result' = Pause(ids)
       /\ pc' = "persist"
       /\ UNCHANGED disturbances
    \/ /\ "terminal" \in Outcomes
       /\ result' = Settle("failed", ids)
       /\ pc' = "persist"
       /\ UNCHANGED disturbances

\* A cycle of RemoveFromTarget over S: targets without a record are skipped,
\* an error on one of the others leaves any part of them removed.
RemoveOk(S) == installed' = installed \ (S \cap records)
RemovePart(S) == S \cap records # {} /\ \E done \in SUBSET (S \cap records) : installed' = installed \ done

\* ComputeTargetDelta keeps a target that is not registered any more with
\* nothing but its ID: no agent is registered for its empty type.
Unroutable == (Removed \cap records) \ Registered(snapPool)

\* The remove step of executeRolloutPlan.  A target without agent makes it fail
\* and the pass be retried, unless its removal is under way already.
RemoveStep ==
    /\ pc = "remove"
    /\ \/ RemoveOk(Removed) /\ pc' = "check" /\ UNCHANGED <<result, disturbances>>
       \/ RemovePart(Removed) /\ PassError(Resolve(snapPool))
       \/ /\ Unroutable # {}
          /\ \E done \in SUBSET ((Removed \cap records) \ Unroutable) : installed' = installed \ done
          /\ pc' = "release"
          /\ UNCHANGED <<result, disturbances>>
    /\ LetGo(FailedRemoval)
    /\ UNCHANGED <<row, pool, records, snap, snapPool, needsRestart, users, clean>>

\* CheckGeneration between the steps: a newer generation ends the pass early
\* and without error, so it still settles as active.
CheckGeneration ==
    /\ pc = "check"
    /\ \/ row = NoRow /\ pc' = "release" /\ UNCHANGED result
       \/ /\ row # NoRow
          /\ row.generation > snap.generation
          /\ result' = Settle("active", Resolve(snapPool))
          /\ pc' = "persist"
       \/ /\ row # NoRow
          /\ row.generation <= snap.generation
          /\ pc' = "deliver"
          /\ UNCHANGED result
    /\ UNCHANGED <<store, snap, snapPool, needsRestart, users, clean, disturbances>>

\* The deliver step: DeliverToTarget records before it dispatches; an error,
\* of a delivery or of ProcessDeliveryOutputs after all of them, leaves any
\* part of the targets recorded and any part of those installed.
DeliverStep ==
    /\ pc = "deliver"
    /\ \/ /\ records' = records \cup Receivers
          /\ installed' = installed \cup Receivers
          /\ result' = Settle("active", Resolve(snapPool))
          /\ pc' = "persist"
          /\ UNCHANGED disturbances
       \/ /\ Receivers # {}
          /\ \E sent \in SUBSET Receivers :
               \E done \in SUBSET sent :
                  /\ records' = records \cup sent
                  /\ installed' = installed \cup done
          /\ PassError(Resolve(snapPool))
    /\ LetGo(RetriedPass)
    /\ UNCHANGED <<row, pool, snap, snapPool, needsRestart, users, clean>>

\* A wrong version: an error does not stop the delete.
ExecuteDeleteIgnoresErrors ==
    /\ pc = "deleteTargets"
    /\ LET S == snap.resolvedTargets \cap Registered(snapPool) IN RemoveOk(S) \/ RemovePart(S)
    /\ pc' = "cleanupData"
    /\ LetGo(DeregisteredTargets)
    /\ UNCHANGED <<row, pool, records, snap, snapPool, result, needsRestart, users, clean, disturbances>>

\* executeDelete: only resolved targets that are still in the pool.
ExecuteDelete ==
    /\ pc = "deleteTargets"
    /\ LET S == snap.resolvedTargets \cap Registered(snapPool) IN
       \/ RemoveOk(S) /\ pc' = "cleanupData" /\ UNCHANGED <<result, disturbances>>
       \/ RemovePart(S) /\ PassError(snap.resolvedTargets)
    /\ LetGo(DeregisteredTargets)
    /\ UNCHANGED <<row, pool, records, snap, snapPool, needsRestart, users, clean>>

\* CleanupDeliveryData drops every delivery record of the fulfillment.
CleanupDeliveryData ==
    /\ pc = "cleanupData"
    /\ records' = {}
    /\ result' = Settle("deleting", {})
    /\ pc' = "persist"
    /\ UNCHANGED <<row, pool, installed, adrift, snap, snapPool, needsRestart, users, clean, disturbances>>

\* A wrong version: the snapshot is written back, not the row as it is now.
ReconciledSnapshot ==
    CompleteReconciliation(ApplyReconciliationResult(snap, result), snap.generation)

\* What persist makes of the row it reads in its transaction.
ReconciledRow == CompleteReconciliation(ApplyReconciliationResult(row, result), snap.generation)

AfterPersist(restart) == IF restart THEN "load" ELSE "finish"

\* PersistAndCompleteReconciliation up to its commit, on the row as it is now.
\* A target the row names again, with a record to remove it by, is not adrift.
PersistAndCompleteReconciliation ==
    /\ pc = "persist"
    /\ \/ /\ row = NoRow
          /\ pc' = "release"
          /\ UNCHANGED <<row, needsRestart, disturbances>>
       \/ /\ row # NoRow
          /\ row' = ReconciledRow
          /\ needsRestart' = NeedsRestart(row, snap.generation)
          /\ \/ /\ pc' = IF ~result.pause /\ result.state = "deleting"
                         THEN "signal" ELSE AfterPersist(needsRestart')
                /\ UNCHANGED disturbances
             \/ /\ "persist" \in LossyActivities
                /\ Disturb
                /\ UNCHANGED pc
    /\ adrift' = IF row = NoRow THEN adrift ELSE adrift \ (result.resolvedTargets \cap records)
    /\ UNCHANGED <<pool, records, installed, snap, snapPool, result, users, clean>>

\* Its second part, after the commit: SignalDeleteCleanupComplete.  The
\* in-memory engine keeps the signal for the next instance; a durable engine
\* refuses it while none runs, and the activity is run again from its start,
\* or its attempts are used up.
SignalDeleteCleanupComplete ==
    /\ pc = "signal"
    /\ \/ /\ cleanup \in {"await", "delete"} \/ BufferedSignals
          /\ cleanupSignal' = (cleanupSignal \/ cleanup # "delete")
          /\ pc' = AfterPersist(needsRestart)
       \/ /\ cleanup \in {"none", "done"} /\ ~BufferedSignals
          /\ pc' \in {"persist", "release"}
          /\ UNCHANGED cleanupSignal
    /\ UNCHANGED <<store, snap, snapPool, result, needsRestart, users, cleanup, disturbances>>

\* Any other activity may run out of attempts: load, placement, planning,
\* the generation check, manifest generation, cleanup of the delivery data,
\* persist and the signal.
ActivityFails ==
    /\ pc \in {"load"} \cup Passing
    /\ Disturb
    /\ pc' = "release"
    /\ UNCHANGED <<row, pool, records, installed, snap, snapPool, result, needsRestart, users, clean>>
    /\ LetGo(RetriedPass)

\* The local variables of Run end with it.
ForgetPass == /\ snap' = NoRow
              /\ snapPool' = AllMatching
              /\ result' = NoResult
              /\ needsRestart' = FALSE

\* releaseLockAndContinue: an error of ReleaseLock is ignored.
ReleaseLockAndContinue ==
    /\ pc = "release"
    /\ \/ row' = (IF row = NoRow THEN row ELSE ReleaseOrchestrationLock(row)) /\ UNCHANGED disturbances
       \/ Disturb /\ UNCHANGED row
    /\ pc' = "load"
    /\ ForgetPass
    /\ UNCHANGED <<pool, records, installed, adrift, users, clean>>

\* Run has returned; the engine takes the instance out of its running set.
FinishInstance ==
    /\ pc = "finish"
    /\ pc' = "none"
    /\ ForgetPass
    /\ UNCHANGED <<store, users, clean, disturbances>>

-----------------------------------------------------------------------------
(* The cleanup workflow and the target pool                                *)

\* AwaitSignal(DeleteCleanupCompleteSignal).
CleanupAwaitSignal ==
    /\ cleanup = "await"
    /\ cleanupSignal
    /\ cleanup' = "delete"
    /\ cleanupSignal' = FALSE
    /\ UNCHANGED <<store, orch, users, disturbances>>

\* DeleteDeploymentAndFulfillment: rows already gone are success.
DeleteDeploymentAndFulfillment ==
    /\ cleanup = "delete"
    /\ row' = NoRow
    /\ cleanup' = "done"
    /\ UNCHANGED <<pool, records, installed, adrift, orch, users, cleanupSignal, disturbances>>

\* A target is registered, deregistered or relabelled.
ChangePool ==
    /\ PoolChanges
    /\ Disturb
    /\ \E t \in Targets : \E v \in {"absent", "matching", "other"} \ {pool[t]} :
          pool' = [pool EXCEPT ![t] = v]
    /\ UNCHANGED <<row, records, installed, adrift, orch, users, clean>>

-----------------------------------------------------------------------------
CreateWorkflow == PersistDeployment \/ PersistDeploymentAgain \/ CreateStartsOrchestration

MutationWorkflow(m) ==
    \/ MutateToDeleting(m) \/ MutateToResumed(m) \/ StartCleanup(m)
    \/ ConvergenceLoad(m) \/ ConvergenceStart(m)

OrchestrationRun ==
    \/ AcquireLockAndLoad \/ ResolveAndPlan \/ RemoveStep \/ CheckGeneration
    \/ DeliverStep \/ ExecuteDelete \/ CleanupDeliveryData
    \/ PersistAndCompleteReconciliation \/ SignalDeleteCleanupComplete
    \/ ReleaseLockAndContinue \/ FinishInstance

CleanupWorkflow == CleanupAwaitSignal \/ DeleteDeploymentAndFulfillment

Next ==
    \/ CreateWorkflow
    \/ \E m \in Requests, kind \in {"delete", "resume"}, check \in Checks : Request(m, kind, check)
    \/ \E m \in Requests : MutationWorkflow(m) \/ MutationFails(m)
    \/ OrchestrationRun
    \/ ActivityFails
    \/ CleanupWorkflow
    \/ ChangePool

Spec == Init /\ [][Next]_vars

\* The engine keeps running every workflow it has accepted.  Users owe
\* nothing: Request is not fair, and neither is any disturbance.
Fairness ==
    /\ WF_vars(CreateWorkflow)
    /\ \A m \in Requests : WF_vars(MutationWorkflow(m))
    /\ WF_vars(OrchestrationRun)
    /\ WF_vars(CleanupWorkflow)

FairSpec == Spec /\ Fairness

-----------------------------------------------------------------------------
(* Properties                                                              *)

\* The instance will come back to AcquireLockAndLoad, or is in a pass of the
\* row's latest generation, or in an older pass that persist will restart.
InstanceWillReload ==
    \/ pc \in {"load", "release"}
    \/ pc \in Passing \ {"signal"}
    \/ pc = "signal" /\ needsRestart

\* Some workflow is committed to getting generation row.generation observed.
Driven ==
    \/ InstanceWillReload
    \/ creator = "start"
    \/ \E m \in Requests : /\ req[m].pc \in {"startCleanup", "converge", "start"}
                           /\ req[m].myGen = row.generation
    \/ \E m \in Requests : req[m].pc = "mutate" /\ req[m].kind = "delete"

\* No lost wake-up: while the row's generation is ahead of the observed one,
\* a workflow exists that will reconcile it, whatever the interleaving of
\* mutations, convergence polling, persist and the end of the instance
\* (convergenceLoop, CompleteReconciliation, the engine's running set).
EveryGenerationDriven ==
    row # NoRow /\ row.observed < row.generation => Driven

\* activeWorkflowGen never outlives the instance that set it, also when
\* ReleaseLock fails, a pass restarts or the persist activity is repeated.
LockHeldByInstance ==
    row # NoRow /\ row.lock # NoLock => pc \notin {"none", "finish"}

\* The workflows and the row implement the promise of ReconcileContract: the
\* generation rises by one per mutation, persist never moves the observed
\* generation back or past it however passes, restarts and repeated persists
\* interleave, and a deleted row stays deleted.
Contract == INSTANCE ReconcileContract WITH
    phase    <- IF row # NoRow THEN "present"
                ELSE IF creator = "persist" THEN "absent" ELSE "removed",
    desired  <- IF row = NoRow THEN 0 ELSE row.generation,
    observed <- IF row = NoRow THEN 0 ELSE row.observed

ImplementsContract == Contract!Spec

\* The same with the promise that the observed generation catches up: every
\* mutation, and the wake-up it may have lost, is eventually reconciled.
ConvergesAsPromised == Contract!FairSpec

\* Two resume calls that both named the generation or etag they had seen, and
\* saw the same, do not both take effect; one that does takes effect on
\* exactly the generation its caller saw (the checks of MutateToResumed).
CheckedResumesExclude ==
    \A m \in Requests :
       req[m].kind = "resume" /\ req[m].check # "none" /\ req[m].myGen # 0
         => /\ req[m].myGen = req[m].seen[1] + 1
            /\ \A n \in Requests \ {m} : req[n].myGen # req[m].myGen

\* Outside a pass every target that holds manifests is one the row names, so
\* that the next pass can remove it, unless a step that uses LetGo let go of
\* it: after pauses, failures for good and part-way, retries, lost results and
\* changes of the pool (resolvedTargets of executePlacementPipeline and
\* PersistAndCompleteReconciliation).
InstallsTracked ==
    row # NoRow /\ pc \notin Passing => installed \subseteq row.resolvedTargets \cup adrift

\* The row is hard-deleted only once every target that was not let go of is
\* torn down, with the deletes, resumes and cleanup signals that cross the
\* passes (executeDelete, CleanupDeliveryData, the cleanup workflow).
RemovedOnlyWhenTornDown ==
    [][row # NoRow /\ row' = NoRow => installed \subseteq adrift]_vars

-----------------------------------------------------------------------------
(* What comments and docs of the code say and the code does not do         *)

\* "Bookkeeping fields (Generation, ObservedGeneration) are left untouched so
\* that concurrent service-layer mutations are preserved": persisting a pass
\* does not take back the delete that was committed while it ran.
ConcurrentDeletePreserved ==
    [][row # NoRow /\ row' # NoRow /\ row.state = "deleting"
         => row'.state \in {"deleting", "failed"}]_vars
=============================================================================
