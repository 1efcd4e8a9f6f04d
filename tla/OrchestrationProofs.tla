------------------------ MODULE OrchestrationProofs ------------------------
(***************************************************************************)
(* What Orchestration.tla checks on small instances, proved for every set  *)
(* of requests and targets and every bound.                                *)
(***************************************************************************)
EXTENDS Orchestration, TLAPS

Rec == FulfillmentRecord(Auths, Targets)

-----------------------------------------------------------------------------
(* The methods of the aggregate                                            *)

\* The row a create writes: a fulfillment at generation 1, nothing observed.
LEMMA NewFulfillmentFacts ==
    LET n == NewFulfillment(Creator) IN
    /\ n \in Rec /\ n # NoRow
    /\ n.generation = 1 /\ n.observed = 0 /\ n.lock = NoLock /\ n.state = "creating"
<1>1. NewFulfillment(Creator) \in Rec
  BY DEF Rec, FulfillmentRecord, NewFulfillment, FulfillmentState, NoLock, Auths
<1>2. NoRow \notin Rec
  BY OrchestrationAssumption DEF Rec, Auths
<1> QED BY <1>1, <1>2 DEF NewFulfillment

\* A mutation (delete or resume) raises the generation by one and touches
\* neither the observed generation nor the lock.
LEMMA MutationFacts ==
    ASSUME NEW f \in Rec, NEW a \in Auths
    PROVE  /\ TransitionToDeleting(f, a) \in Rec
           /\ TransitionToDeleting(f, a).generation = f.generation + 1
           /\ TransitionToDeleting(f, a).observed = f.observed
           /\ TransitionToDeleting(f, a).lock = f.lock
           /\ Resume(f, a) \in Rec
           /\ Resume(f, a).generation = f.generation + 1
           /\ Resume(f, a).observed = f.observed
           /\ Resume(f, a).lock = f.lock
           /\ Resume(f, a).state = f.state
<1> DEFINE d == [f EXCEPT !.auth = a, !.state = "deleting", !.paused = FALSE]
           u == [f EXCEPT !.auth = a, !.paused = FALSE]
<1>1. /\ d \in Rec /\ d.generation = f.generation /\ d.observed = f.observed /\ d.lock = f.lock
      /\ u \in Rec /\ u.generation = f.generation /\ u.observed = f.observed /\ u.lock = f.lock
      /\ u.state = f.state
  BY DEF Rec, FulfillmentRecord, FulfillmentState
<1>2. ASSUME NEW h \in Rec
      PROVE  /\ AdvanceGeneration(h) \in Rec
             /\ AdvanceGeneration(h).generation = h.generation + 1
             /\ AdvanceGeneration(h).observed = h.observed
             /\ AdvanceGeneration(h).lock = h.lock
             /\ AdvanceGeneration(h).state = h.state
  BY DEF Rec, FulfillmentRecord, AdvanceGeneration
<1>3. TransitionToDeleting(f, a) = AdvanceGeneration(d) /\ Resume(f, a) = AdvanceGeneration(u)
  BY DEF TransitionToDeleting, Resume
<1> HIDE DEF d, u
<1> QED BY <1>1, <1>2, <1>3

\* What persisting a pass of generation g leaves in the row.
LEMMA PersistFacts ==
    ASSUME NEW f \in Rec, NEW r \in ReconciliationResult(Auths, Targets), NEW g \in Nat
    PROVE  LET n == CompleteReconciliation(ApplyReconciliationResult(f, r), g) IN
           /\ n \in Rec
           /\ n.generation = f.generation
           /\ n.observed = g
           /\ n.lock = IF f.generation > g THEN f.lock ELSE NoLock
           /\ n.state = IF r.pause THEN f.state ELSE r.state
<1> DEFINE m == ApplyReconciliationResult(f, r)
<1>1. m \in Rec /\ m.generation = f.generation /\ m.lock = f.lock
      /\ m.state = IF r.pause THEN f.state ELSE r.state
  BY DEF Rec, FulfillmentRecord, ReconciliationResult, ApplyReconciliationResult, FulfillmentState
<1> HIDE DEF m
<1>2. LET n == CompleteReconciliation(m, g) IN
      /\ n \in Rec
      /\ n.generation = m.generation
      /\ n.observed = g
      /\ n.lock = IF m.generation > g THEN m.lock ELSE NoLock
      /\ n.state = m.state
  BY <1>1 DEF Rec, FulfillmentRecord, CompleteReconciliation, NeedsRestart, NoLock
<1> QED BY <1>1, <1>2 DEF m

\* Taking and giving back the orchestration lock changes nothing else.
LEMMA LockFacts ==
    ASSUME NEW f \in Rec
    PROVE  /\ AcquireOrchestrationLock(f) \in Rec
           /\ AcquireOrchestrationLock(f).generation = f.generation
           /\ AcquireOrchestrationLock(f).observed = f.observed
           /\ AcquireOrchestrationLock(f).state = f.state
           /\ ReleaseOrchestrationLock(f) \in Rec
           /\ ReleaseOrchestrationLock(f).generation = f.generation
           /\ ReleaseOrchestrationLock(f).observed = f.observed
           /\ ReleaseOrchestrationLock(f).state = f.state
           /\ ReleaseOrchestrationLock(f).lock = NoLock
BY DEF Rec, FulfillmentRecord, AcquireOrchestrationLock, ReleaseOrchestrationLock, NoLock

\* A stored fulfillment is not NoRow, and any other value of Rows is one.
LEMMA RowFacts ==
    /\ NoRow \notin Rec
    /\ \A f \in Rows : f # NoRow => f \in Rec
BY OrchestrationAssumption DEF Rec, Rows, Auths
-----------------------------------------------------------------------------
(* Types                                                                   *)

\* Moving one request's workflow on keeps the requests well formed.
LEMMA RequestFacts ==
    ASSUME req \in [Requests -> ReqRecord], NEW m \in Requests, NEW p \in ReqPC, NEW g \in Nat
    PROVE  /\ [req EXCEPT ![m].pc = p] \in [Requests -> ReqRecord]
           /\ Advance(m, p, g) => req' \in [Requests -> ReqRecord]
<1> DEFINE S == {<<>>} \cup (Nat \X FulfillmentState \X BOOLEAN \X SUBSET Targets)
           C == Checks \cup {"none"}
<1>1. ReqRecord = [pc : ReqPC, kind : {"none", "delete", "resume"}, check : C, seen : S, myGen : Nat]
  BY DEF ReqRecord
<1> HIDE DEF S, C
<1>2. ASSUME NEW q \in ReqRecord
      PROVE  [q EXCEPT !.pc = p] \in ReqRecord /\ [q EXCEPT !.myGen = g] \in ReqRecord
  BY <1>1
<1>3. [req EXCEPT ![m].pc = p] \in [Requests -> ReqRecord]
  BY <1>2
<1>4. [req EXCEPT ![m].pc = p, ![m].myGen = g] \in [Requests -> ReqRecord]
  <2>1. ASSUME NEW h \in [Requests -> ReqRecord] PROVE [h EXCEPT ![m].myGen = g] \in [Requests -> ReqRecord]
    BY <1>2
  <2> QED BY <2>1, <1>3
<1> QED BY <1>3, <1>4 DEF Advance

\* The results a pass hands to persist are well formed.
LEMMA ResultFacts ==
    ASSUME snap \in Rec, NEW ids \in SUBSET Targets, NEW s \in FulfillmentState
    PROVE  /\ Pause(ids) \in ReconciliationResult(Auths, Targets)
           /\ Settle(s, ids) \in ReconciliationResult(Auths, Targets)
BY DEF Rec, FulfillmentRecord, ReconciliationResult, FulfillmentState, Pause, Settle

\* Placement resolves to targets that exist.
LEMMA ResolveFacts == ASSUME NEW q PROVE Resolve(q) \in SUBSET Targets
BY OrchestrationAssumption DEF Resolve, Registered

\* An error of a dispatch cycle leaves a well-formed result behind.
LEMMA PassErrorFacts ==
    ASSUME TypeOK, snap \in Rec, NEW ids \in SUBSET Targets, PassError(ids)
    PROVE  /\ pc' \in {"release", "persist"}
           /\ result' \in ReconciliationResult(Auths, Targets)
           /\ disturbances' \in Nat
           /\ pc' = "persist" => result'.pause \/ result'.state = "failed"
<1>1. "failed" \in FulfillmentState
  BY DEF FulfillmentState
<1>2. Pause(ids).pause /\ Settle("failed", ids).state = "failed"
  BY DEF Pause, Settle
<1> QED BY <1>1, <1>2, ResultFacts DEF PassError, TypeOK, Disturb

\* Every step of every workflow keeps the state well formed.
LEMMA TypeStep == ASSUME TypeOK, [Next]_vars PROVE TypeOK'
<1> USE DEF OrchPC, Passing
<1>0. /\ row # NoRow => row \in Rec
      /\ pc \in Passing => snap \in Rec
      /\ \A f \in Rec : f \in Rows /\ f # NoRow
      /\ NoRow \in Rows
      /\ AllMatching \in Pools
      /\ NoResult \in ReconciliationResult(Auths, Targets)
  BY RowFacts DEF TypeOK, Rows, Rec, AllMatching, Pools, NoResult, ReconciliationResult, FulfillmentState, Auths
<1>1. CASE PersistDeployment
  BY <1>0, <1>1, NewFulfillmentFacts DEF PersistDeployment, TypeOK, Disturb, orch, clean
<1>2. CASE PersistDeploymentAgain
  BY <1>2 DEF PersistDeploymentAgain, TypeOK, store, orch, clean
<1>3. CASE CreateStartsOrchestration
  BY <1>3 DEF CreateStartsOrchestration, StartInstance, TypeOK, store, orch, clean
<1>4. ASSUME NEW m \in Requests, NEW kind \in {"delete", "resume"}, NEW check \in Checks, Request(m, kind, check)
      PROVE  TypeOK'
  <2>1. EtagFields(row) \in Nat \X FulfillmentState \X BOOLEAN \X SUBSET Targets
    BY <1>0, <1>4 DEF Request, EtagFields, Rec, FulfillmentRecord
  <2>2. [pc |-> "mutate", kind |-> kind, check |-> check, seen |-> EtagFields(row), myGen |-> 0] \in ReqRecord
    BY <2>1 DEF ReqRecord, ReqPC
  <2>3. req' \in [Requests -> ReqRecord]
    BY <1>4, <2>2 DEF Request, TypeOK
  <2> QED BY <1>4, <2>3 DEF Request, TypeOK, store, orch, clean
<1>5. ASSUME NEW m \in Requests, MutateToDeleting(m) PROVE TypeOK'
  <2>1. m \in Auths /\ {"startCleanup", "failed"} \subseteq ReqPC /\ 0 \in Nat
    BY DEF Auths, ReqPC
  <2>2. row # NoRow => TransitionToDeleting(row, m) \in Rec /\ TransitionToDeleting(row, m).generation \in Nat
    BY <1>0, <2>1, MutationFacts DEF Rec, FulfillmentRecord
  <2>3. row' \in Rows /\ disturbances' \in Nat
    BY <1>0, <1>5, <2>2 DEF MutateToDeleting, TypeOK, Disturb
  <2>4. \/ req' = req
        \/ Advance(m, "failed", 0)
        \/ row # NoRow /\ Advance(m, "startCleanup", TransitionToDeleting(row, m).generation)
    BY <1>5 DEF MutateToDeleting
  <2>5. req' \in [Requests -> ReqRecord]
    BY <2>1, <2>2, <2>4, RequestFacts DEF TypeOK
  <2> QED BY <1>5, <2>3, <2>5 DEF MutateToDeleting, TypeOK, orch, clean
<1>6. ASSUME NEW m \in Requests, MutateToResumed(m) PROVE TypeOK'
  <2>1. m \in Auths /\ {"converge", "failed"} \subseteq ReqPC /\ 0 \in Nat
    BY DEF Auths, ReqPC
  <2>2. row # NoRow => Resume(row, m) \in Rec /\ Resume(row, m).generation \in Nat
    BY <1>0, <2>1, MutationFacts DEF Rec, FulfillmentRecord
  <2>3. row' \in Rows /\ disturbances' \in Nat
    BY <1>0, <1>6, <2>2 DEF MutateToResumed, Resumable, TypeOK, Disturb
  <2>4. \/ req' = req
        \/ Advance(m, "failed", 0)
        \/ row # NoRow /\ Advance(m, "converge", Resume(row, m).generation)
    BY <1>6 DEF MutateToResumed, Resumable
  <2>5. req' \in [Requests -> ReqRecord]
    BY <2>1, <2>2, <2>4, RequestFacts DEF TypeOK
  <2> QED BY <1>6, <2>3, <2>5 DEF MutateToResumed, TypeOK, orch, clean
<1>7. ASSUME NEW m \in Requests, StartCleanup(m) PROVE TypeOK'
  <2>1. "converge" \in ReqPC
    BY DEF ReqPC
  <2>2. req' \in [Requests -> ReqRecord]
    BY <1>7, <2>1, RequestFacts DEF StartCleanup, TypeOK
  <2> QED BY <1>7, <2>2 DEF StartCleanup, TypeOK, store, orch
<1>8. ASSUME NEW m \in Requests, ConvergenceLoad(m) PROVE TypeOK'
  <2>1. PICK p \in ReqPC : req' = [req EXCEPT ![m].pc = p]
    BY <1>8 DEF ConvergenceLoad, Verdict, ReqPC
  <2>2. req' \in [Requests -> ReqRecord]
    BY <2>1, RequestFacts DEF TypeOK
  <2> QED BY <1>8, <2>2 DEF ConvergenceLoad, TypeOK, store, orch, clean
<1>9. ASSUME NEW m \in Requests, ConvergenceStart(m) PROVE TypeOK'
  <2>1. {"converge", "done"} \subseteq ReqPC
    BY DEF ReqPC
  <2>2. [req EXCEPT ![m].pc = "converge"] \in [Requests -> ReqRecord]
    BY <2>1, RequestFacts DEF TypeOK
  <2>3. [req EXCEPT ![m].pc = "done"] \in [Requests -> ReqRecord]
    BY <2>1, RequestFacts DEF TypeOK
  <2>4. req' \in [Requests -> ReqRecord]
    BY <1>9, <2>2, <2>3 DEF ConvergenceStart
  <2> QED BY <1>9, <2>4 DEF ConvergenceStart, StartInstance, TypeOK, store, orch, clean
<1>10. ASSUME NEW m \in Requests, MutationFails(m) PROVE TypeOK'
  <2>1. "failed" \in ReqPC
    BY DEF ReqPC
  <2>2. req' \in [Requests -> ReqRecord]
    BY <1>10, <2>1, RequestFacts DEF MutationFails, TypeOK
  <2> QED BY <1>10, <2>2 DEF MutationFails, Disturb, TypeOK, store, orch, clean
<1>11. CASE AcquireLockAndLoad
  <2>1. row # NoRow => AcquireOrchestrationLock(row) \in Rec
    BY <1>0, LockFacts
  <2> QED BY <1>0, <1>11, <2>1 DEF AcquireLockAndLoad, TypeOK, users, clean
<1>12. CASE ResolveAndPlan
  <2>1. Settle("active", {}) \in ReconciliationResult(Auths, Targets)
    BY <1>0, <1>12, ResultFacts DEF ResolveAndPlan, FulfillmentState
  <2>2. adrift' \in SUBSET installed'
    BY <1>12 DEF ResolveAndPlan, LetGo
  <2> QED BY <1>12, <2>1, <2>2 DEF ResolveAndPlan, TypeOK, users, clean
<1>13. CASE RemoveStep
  <2>1. Resolve(snapPool) \in SUBSET Targets
    BY ResolveFacts
  <2>2. installed' \in SUBSET Targets
    BY <1>13 DEF RemoveStep, RemoveOk, RemovePart, TypeOK
  <2>3. /\ pc' \in {"check", "release", "persist"} /\ disturbances' \in Nat
        /\ result' \in ReconciliationResult(Auths, Targets)
    BY <1>0, <1>13, <2>1, PassErrorFacts DEF RemoveStep, TypeOK
  <2>4. adrift' \in SUBSET installed'
    BY <1>13 DEF RemoveStep, LetGo
  <2> QED BY <1>13, <2>2, <2>3, <2>4 DEF RemoveStep, TypeOK, users, clean
<1>14. CASE CheckGeneration
  <2>1. Settle("active", Resolve(snapPool)) \in ReconciliationResult(Auths, Targets)
    BY <1>0, <1>14, ResolveFacts, ResultFacts DEF CheckGeneration, FulfillmentState
  <2> QED BY <1>14, <2>1 DEF CheckGeneration, TypeOK, store, users, clean
<1>15. CASE DeliverStep
  <2>1. Resolve(snapPool) \in SUBSET Targets
    BY ResolveFacts
  <2>2. installed' \in SUBSET Targets /\ records' \in SUBSET Targets
    BY <1>15, <2>1 DEF DeliverStep, Receivers, TypeOK
  <2>3. Settle("active", Resolve(snapPool)) \in ReconciliationResult(Auths, Targets)
    BY <1>0, <1>15, <2>1, ResultFacts DEF DeliverStep, FulfillmentState
  <2>4. /\ pc' \in {"release", "persist"} /\ disturbances' \in Nat
        /\ result' \in ReconciliationResult(Auths, Targets)
    BY <1>0, <1>15, <2>1, <2>3, PassErrorFacts DEF DeliverStep, TypeOK
  <2>5. adrift' \in SUBSET installed'
    BY <1>15 DEF DeliverStep, LetGo
  <2> QED BY <1>15, <2>2, <2>4, <2>5 DEF DeliverStep, TypeOK, users, clean
<1>16. CASE ExecuteDelete
  <2>1. snap.resolvedTargets \in SUBSET Targets
    BY <1>0, <1>16 DEF ExecuteDelete, Rec, FulfillmentRecord
  <2>2. installed' \in SUBSET Targets
    BY <1>16 DEF ExecuteDelete, RemoveOk, RemovePart, TypeOK
  <2>3. /\ pc' \in {"cleanupData", "release", "persist"} /\ disturbances' \in Nat
        /\ result' \in ReconciliationResult(Auths, Targets)
    BY <1>0, <1>16, <2>1, PassErrorFacts DEF ExecuteDelete, TypeOK
  <2>4. adrift' \in SUBSET installed'
    BY <1>16 DEF ExecuteDelete, LetGo
  <2> QED BY <1>16, <2>2, <2>3, <2>4 DEF ExecuteDelete, TypeOK, users, clean
<1>17. CASE CleanupDeliveryData
  <2>1. Settle("deleting", {}) \in ReconciliationResult(Auths, Targets)
    BY <1>0, <1>17, ResultFacts DEF CleanupDeliveryData, FulfillmentState
  <2> QED BY <1>17, <2>1 DEF CleanupDeliveryData, TypeOK, users, clean
<1>18. CASE PersistAndCompleteReconciliation
  <2>2. snap.generation \in Nat
    BY <1>0, <1>18 DEF PersistAndCompleteReconciliation, Rec, FulfillmentRecord
  <2>3. row # NoRow => CompleteReconciliation(ApplyReconciliationResult(row, result), snap.generation) \in Rec
    BY <1>0, <2>2, PersistFacts DEF TypeOK
  <2>4. row' \in Rows
    BY <1>0, <1>18, <2>3 DEF PersistAndCompleteReconciliation, ReconciledRow, TypeOK
  <2>5. needsRestart' \in BOOLEAN /\ disturbances' \in Nat
    <3>1. NeedsRestart(row, snap.generation) \in BOOLEAN
      BY DEF NeedsRestart
    <3> QED BY <1>18, <3>1 DEF PersistAndCompleteReconciliation, TypeOK, Disturb
  <2>6. pc' \in {"persist", "signal", "release", "load", "finish"}
    BY <1>18, <2>5 DEF PersistAndCompleteReconciliation, AfterPersist
  <2>7. adrift' \in SUBSET installed'
    BY <1>18 DEF PersistAndCompleteReconciliation, TypeOK
  <2> QED BY <1>18, <2>4, <2>5, <2>6, <2>7 DEF PersistAndCompleteReconciliation, TypeOK, users, clean
<1>19. CASE SignalDeleteCleanupComplete
  BY <1>19 DEF SignalDeleteCleanupComplete, AfterPersist, TypeOK, store, users
<1>20. CASE ActivityFails
  <2>1. adrift' \in SUBSET installed'
    BY <1>20 DEF ActivityFails, LetGo
  <2> QED BY <1>20, <2>1 DEF ActivityFails, Disturb, TypeOK, users, clean
<1>21. CASE ReleaseLockAndContinue
  <2>1. row # NoRow => ReleaseOrchestrationLock(row) \in Rec
    BY <1>0, LockFacts
  <2>2. row' \in Rows /\ disturbances' \in Nat
    BY <1>0, <1>21, <2>1 DEF ReleaseLockAndContinue, Disturb, TypeOK
  <2> QED BY <1>0, <1>21, <2>2 DEF ReleaseLockAndContinue, ForgetPass, TypeOK, users, clean
<1>22. CASE FinishInstance
  BY <1>0, <1>22 DEF FinishInstance, ForgetPass, TypeOK, store, users, clean
<1>23. CASE CleanupAwaitSignal
  BY <1>23 DEF CleanupAwaitSignal, TypeOK, store, orch, users
<1>24. CASE DeleteDeploymentAndFulfillment
  BY <1>0, <1>24 DEF DeleteDeploymentAndFulfillment, TypeOK, orch, users
<1>25. CASE ChangePool
  <2>1. pool' \in Pools /\ disturbances' \in Nat
    BY <1>25 DEF ChangePool, TypeOK, Pools, Disturb
  <2> QED BY <1>25, <2>1 DEF ChangePool, TypeOK, orch, users, clean
<1>26. CASE UNCHANGED vars
  BY <1>26 DEF vars, TypeOK, store, orch, users, clean
<1> QED
  BY <1>1, <1>2, <1>3, <1>4, <1>5, <1>6, <1>7, <1>8, <1>9, <1>10, <1>11, <1>12, <1>13, <1>14, <1>15,
     <1>16, <1>17, <1>18, <1>19, <1>20, <1>21, <1>22, <1>23, <1>24, <1>25, <1>26
     DEF Next, CreateWorkflow, MutationWorkflow, OrchestrationRun, CleanupWorkflow

\* The type invariant holds in every reachable state: in particular a pass in
\* progress always has the snapshot it reads (Run of OrchestrationWorkflowSpec).
THEOREM TypeCorrect == Spec => []TypeOK
<1>1. Init => TypeOK
  <2>1. AllMatching \in Pools /\ NoRow \in Rows
    BY DEF AllMatching, Pools, Rows
  <2>2. NoResult \in ReconciliationResult(Auths, Targets)
    BY DEF NoResult, ReconciliationResult, FulfillmentState, Auths
  <2>3. Idle \in ReqRecord
    BY DEF Idle, ReqRecord, ReqPC
  <2>4. Init => needsRestart \in BOOLEAN /\ cleanupSignal \in BOOLEAN
    BY DEF Init
  <2>5. Init => req \in [Requests -> ReqRecord]
    BY <2>3 DEF Init
  <2> QED BY <2>1, <2>2, <2>4, <2>5 DEF Init, TypeOK, OrchPC, Passing
<1>2. TypeOK /\ [Next]_vars => TypeOK'
  BY TypeStep
<1> QED BY <1>1, <1>2, PTL DEF Spec

-----------------------------------------------------------------------------
(* The inductive invariants                                                *)

\* Nothing exists before the create workflow has written the row.
NothingBeforeCreate ==
    creator = "persist" => /\ row = NoRow /\ pc = "none" /\ cleanup = "none" /\ ~cleanupSignal
                           /\ \A m \in Requests : req[m].pc = "idle"

\* The lock is free where the instance is about to end; LockHeldByInstance
\* alone does not survive the step from "signal" to "finish".
LockInv ==
    /\ LockHeldByInstance
    /\ pc = "signal" /\ ~needsRestart /\ row # NoRow => row.lock = NoLock

\* The generation a pass works on lies between the observed and the desired
\* one: what persist writes is a step forward and never too far.
PassInOrder ==
    row # NoRow => /\ 1 <= row.generation
                   /\ row.observed <= row.generation
                   /\ pc \in Passing => /\ row.observed <= snap.generation
                                        /\ snap.generation <= row.generation

\* Only a fulfillment that was mutated is deleting, and only one that was
\* reconciled since is signalled for removal.
DeleteFollowsMutation ==
    /\ row # NoRow /\ row.state = "deleting" => row.generation > 1
    /\ pc \in {"deleteTargets", "cleanupData", "signal"} => snap.generation > 1
    /\ pc = "persist" /\ ~result.pause /\ result.state = "deleting" => snap.generation > 1
    /\ row # NoRow /\ (pc = "signal" \/ cleanupSignal \/ cleanup = "delete") => row.observed > 1

ContractInv == NothingBeforeCreate /\ PassInOrder /\ DeleteFollowsMutation

\* Where a workflow is that has mutated the row and not returned yet.
Converging == {"startCleanup", "converge", "start"}

\* A request that has mutated the row knows a generation the row has or had.
RequestsFollowRow ==
    \A m \in Requests :
       req[m].pc \in Converging
          => 2 <= req[m].myGen /\ (row # NoRow => req[m].myGen <= row.generation)

\* Until the create workflow starts it nobody runs the first generation.
FirstGenerationWaits ==
    creator = "start" /\ row # NoRow /\ row.generation = 1 => pc = "none"

\* Who drives an unobserved generation; for the create workflow only while
\* the generation is the one it wrote.
StrictlyDriven ==
    \/ InstanceWillReload
    \/ creator = "start" /\ row.generation = 1
    \/ \E m \in Requests : req[m].pc \in Converging /\ req[m].myGen = row.generation
    \/ \E m \in Requests : req[m].pc = "mutate" /\ req[m].kind = "delete"

DrivenInv ==
    /\ RequestsFollowRow
    /\ FirstGenerationWaits
    /\ row # NoRow /\ row.observed < row.generation => StrictlyDriven

-----------------------------------------------------------------------------
(* The lock                                                                *)

\* Every step keeps the lock with the instance.
LEMMA LockStep == ASSUME TypeOK, LockInv, [Next]_vars PROVE LockInv'
<1> USE DEF LockInv, LockHeldByInstance
<1>0. row # NoRow => row \in Rec
  BY RowFacts DEF TypeOK
<1>1. CASE PersistDeployment
  BY <1>1, NewFulfillmentFacts DEF PersistDeployment, orch
<1>2. CASE PersistDeploymentAgain
  BY <1>2 DEF PersistDeploymentAgain, store, orch
<1>3. CASE CreateStartsOrchestration
  BY <1>3 DEF CreateStartsOrchestration, StartInstance, store, orch
<1>4. ASSUME NEW m \in Requests, NEW kind \in {"delete", "resume"}, NEW check \in Checks, Request(m, kind, check)
      PROVE  LockInv'
  BY <1>4 DEF Request, store, orch
<1>5. ASSUME NEW m \in Requests, MutateToDeleting(m) PROVE LockInv'
  <2>1. row # NoRow => TransitionToDeleting(row, m).lock = row.lock
    BY <1>0, MutationFacts DEF Auths
  <2> QED BY <1>5, <2>1 DEF MutateToDeleting, orch
<1>6. ASSUME NEW m \in Requests, MutateToResumed(m) PROVE LockInv'
  <2>1. row # NoRow => Resume(row, m).lock = row.lock
    BY <1>0, MutationFacts DEF Auths
  <2> QED BY <1>6, <2>1 DEF MutateToResumed, Resumable, orch
<1>7. ASSUME NEW m \in Requests, StartCleanup(m) PROVE LockInv'
  BY <1>7 DEF StartCleanup, store, orch
<1>8. ASSUME NEW m \in Requests, ConvergenceLoad(m) PROVE LockInv'
  BY <1>8 DEF ConvergenceLoad, store, orch
<1>9. ASSUME NEW m \in Requests, ConvergenceStart(m) PROVE LockInv'
  BY <1>9 DEF ConvergenceStart, StartInstance, store, orch
<1>10. ASSUME NEW m \in Requests, MutationFails(m) PROVE LockInv'
  BY <1>10 DEF MutationFails, store, orch
<1>11. CASE AcquireLockAndLoad
  BY <1>11 DEF AcquireLockAndLoad
<1>12. CASE ResolveAndPlan
  BY <1>12 DEF ResolveAndPlan, store
<1>13. CASE RemoveStep
  BY <1>13 DEF RemoveStep, PassError
<1>14. CASE CheckGeneration
  BY <1>14 DEF CheckGeneration, store
<1>15. CASE DeliverStep
  BY <1>15 DEF DeliverStep, PassError
<1>16. CASE ExecuteDelete
  BY <1>16 DEF ExecuteDelete, PassError
<1>17. CASE CleanupDeliveryData
  BY <1>17 DEF CleanupDeliveryData
<1>18. CASE PersistAndCompleteReconciliation
  <2>1. CASE row = NoRow
    BY <1>18, <2>1 DEF PersistAndCompleteReconciliation
  <2>2. CASE row # NoRow
    <3>1. snap.generation \in Nat
      BY <1>18, RowFacts DEF PersistAndCompleteReconciliation, TypeOK, Passing, Rec, FulfillmentRecord
    <3>2. row'.lock = IF row.generation > snap.generation THEN row.lock ELSE NoLock
      BY <1>0, <1>18, <2>2, <3>1, PersistFacts DEF PersistAndCompleteReconciliation, ReconciledRow, TypeOK
    <3>3. pc' \in {"signal", "finish"} /\ ~needsRestart' => row'.lock = NoLock
      BY <1>18, <2>2, <3>2 DEF PersistAndCompleteReconciliation, NeedsRestart
    <3>4. pc' \in {"persist", "signal", "load", "finish"} /\ (pc' = "finish" => ~needsRestart')
      BY <1>18, <2>2 DEF PersistAndCompleteReconciliation, AfterPersist
    <3> QED BY <3>3, <3>4
  <2> QED BY <2>1, <2>2
<1>19. CASE SignalDeleteCleanupComplete
  BY <1>19 DEF SignalDeleteCleanupComplete, AfterPersist, store
<1>20. CASE ActivityFails
  BY <1>20 DEF ActivityFails, store
<1>21. CASE ReleaseLockAndContinue
  BY <1>21 DEF ReleaseLockAndContinue
<1>22. CASE FinishInstance
  BY <1>22 DEF FinishInstance, store
<1>23. CASE CleanupAwaitSignal
  BY <1>23 DEF CleanupAwaitSignal, store, orch
<1>24. CASE DeleteDeploymentAndFulfillment
  BY <1>24 DEF DeleteDeploymentAndFulfillment
<1>25. CASE ChangePool
  BY <1>25 DEF ChangePool, orch
<1>26. CASE UNCHANGED vars
  BY <1>26 DEF vars, store, orch
<1> QED
  BY <1>1, <1>2, <1>3, <1>4, <1>5, <1>6, <1>7, <1>8, <1>9, <1>10, <1>11, <1>12, <1>13, <1>14, <1>15,
     <1>16, <1>17, <1>18, <1>19, <1>20, <1>21, <1>22, <1>23, <1>24, <1>25, <1>26
     DEF Next, CreateWorkflow, MutationWorkflow, OrchestrationRun, CleanupWorkflow

\* The orchestration lock never outlives the instance that took it, for any
\* number of requests, failing activities, lost results and failed releases.
THEOREM LockHeld == Spec => []LockHeldByInstance
<1>1. Init => LockInv
  BY DEF Init, LockInv, LockHeldByInstance
<1>2. TypeOK /\ LockInv /\ [Next]_vars => LockInv'
  BY LockStep
<1>3. LockInv => LockHeldByInstance
  BY DEF LockInv
<1> QED BY <1>1, <1>2, <1>3, TypeCorrect, PTL DEF Spec

-----------------------------------------------------------------------------
(* The contract                                                            *)

\* What the two mutations, which are alike here, do to the row.
LEMMA MutateRow ==
    ASSUME TypeOK, NEW m \in Requests,
           MutateToDeleting(m) \/ MutateToResumed(m), row' # row
    PROVE  /\ row \in Rec /\ row # NoRow /\ row' \in Rec /\ row' # NoRow
           /\ row'.generation = row.generation + 1
           /\ row'.observed = row.observed
<1>1. row # NoRow
  BY DEF MutateToDeleting, MutateToResumed, Resumable
<1>2. row \in Rec /\ m \in Auths
  BY <1>1, RowFacts DEF TypeOK, Auths
<1>3. row' = TransitionToDeleting(row, m) \/ row' = Resume(row, m)
  BY <1>1 DEF MutateToDeleting, MutateToResumed
<1> QED BY <1>1, <1>2, <1>3, MutationFacts, RowFacts

\* What persist does to the row.
LEMMA PersistRow ==
    ASSUME TypeOK, PersistAndCompleteReconciliation, row # NoRow
    PROVE  /\ row \in Rec /\ row' \in Rec /\ row' # NoRow /\ snap.generation \in Nat
           /\ row'.generation = row.generation
           /\ row'.observed = snap.generation
           /\ row'.state = IF result.pause THEN row.state ELSE result.state
<1>1. row \in Rec /\ snap \in Rec
  BY RowFacts DEF TypeOK, PersistAndCompleteReconciliation, Passing
<1>2. snap.generation \in Nat
  BY <1>1 DEF Rec, FulfillmentRecord
<1> QED BY <1>1, <1>2, PersistFacts, RowFacts DEF PersistAndCompleteReconciliation, ReconciledRow, TypeOK

\* Every step keeps the passes in order and deletes behind mutations.
LEMMA ContractInvStep == ASSUME TypeOK, TypeOK', ContractInv, [Next]_vars PROVE ContractInv'
<1> USE DEF ContractInv, NothingBeforeCreate, PassInOrder, DeleteFollowsMutation, Passing
<1>0. /\ row # NoRow => row \in Rec /\ row.generation \in Nat /\ row.observed \in Nat
      /\ pc \in Passing => snap \in Rec /\ snap.generation \in Nat
  BY RowFacts DEF TypeOK, Rec, FulfillmentRecord
<1>1. CASE PersistDeployment
  <2>1. row' # NoRow /\ row'.generation = 1 /\ row'.observed = 0 /\ row'.state = "creating"
    BY <1>1, NewFulfillmentFacts DEF PersistDeployment
  <2> QED BY <1>1, <2>1 DEF PersistDeployment, orch, clean
<1>2. CASE PersistDeploymentAgain
  BY <1>2 DEF PersistDeploymentAgain, store, orch, clean
<1>3. CASE CreateStartsOrchestration
  BY <1>3 DEF CreateStartsOrchestration, StartInstance, store, orch, clean
<1>4. ASSUME NEW m \in Requests, NEW kind \in {"delete", "resume"}, NEW check \in Checks, Request(m, kind, check)
      PROVE  ContractInv'
  BY <1>4 DEF Request, store, orch, clean
<1>5. ASSUME NEW m \in Requests, MutateToDeleting(m) \/ MutateToResumed(m) PROVE ContractInv'
  <2>1. /\ creator' # "persist" /\ pc' = pc /\ snap' = snap /\ result' = result
        /\ cleanup' = cleanup /\ cleanupSignal' = cleanupSignal
    BY <1>5 DEF MutateToDeleting, MutateToResumed, orch, clean
  <2>2. CASE row' = row
    BY <2>1, <2>2
  <2>3. CASE row' # row
    BY <1>0, <1>5, <2>1, <2>3, MutateRow
  <2> QED BY <2>2, <2>3
<1>6. ASSUME NEW m \in Requests, StartCleanup(m) PROVE ContractInv'
  BY <1>6 DEF StartCleanup, store, orch
<1>7. ASSUME NEW m \in Requests, ConvergenceLoad(m) PROVE ContractInv'
  BY <1>7 DEF ConvergenceLoad, store, orch, clean
<1>8. ASSUME NEW m \in Requests, ConvergenceStart(m) PROVE ContractInv'
  BY <1>8 DEF ConvergenceStart, StartInstance, store, orch, clean
<1>9. ASSUME NEW m \in Requests, MutationFails(m) PROVE ContractInv'
  BY <1>9 DEF MutationFails, Running, store, orch, clean
<1>10. CASE AcquireLockAndLoad
  <2>1. CASE row = NoRow
    BY <1>10, <2>1 DEF AcquireLockAndLoad, users, clean
  <2>2. CASE row # NoRow
    <3>1. /\ row'.generation = row.generation /\ row'.observed = row.observed
          /\ row'.state = row.state /\ snap' = row'
      BY <1>0, <1>10, <2>2, LockFacts DEF AcquireLockAndLoad
    <3> QED BY <1>0, <1>10, <2>2, <3>1 DEF AcquireLockAndLoad, users, clean
  <2> QED BY <2>1, <2>2
<1>11. CASE ResolveAndPlan
  <2>1. Settle("active", {}).state = "active"
    BY DEF Settle
  <2> QED BY <1>11, <2>1 DEF ResolveAndPlan, store, users, clean
<1>12. CASE RemoveStep
  <2>1. pc' = "persist" => result'.pause \/ result'.state = "failed"
    BY <1>0, <1>12, ResolveFacts, PassErrorFacts DEF RemoveStep
  <2>2. pc' \in {"check", "release", "persist"}
    BY <1>12 DEF RemoveStep, PassError
  <2> QED BY <1>12, <2>1, <2>2 DEF RemoveStep, users, clean
<1>13. CASE CheckGeneration
  <2>1. Settle("active", Resolve(snapPool)).state = "active"
    BY DEF Settle
  <2> QED BY <1>13, <2>1 DEF CheckGeneration, store, users, clean
<1>14. CASE DeliverStep
  <2>1. Settle("active", Resolve(snapPool)).state = "active"
    BY DEF Settle
  <2>2. pc' = "persist" => result'.pause \/ result'.state \in {"active", "failed"}
    BY <1>0, <1>14, <2>1, ResolveFacts, PassErrorFacts DEF DeliverStep
  <2>3. pc' \in {"release", "persist"}
    BY <1>14 DEF DeliverStep, PassError
  <2> QED BY <1>14, <2>2, <2>3 DEF DeliverStep, users, clean
<1>15. CASE ExecuteDelete
  <2>1. snap.resolvedTargets \in SUBSET Targets
    BY <1>0, <1>15 DEF ExecuteDelete, Rec, FulfillmentRecord
  <2>2. pc' = "persist" => result'.pause \/ result'.state = "failed"
    BY <1>0, <1>15, <2>1, PassErrorFacts DEF ExecuteDelete
  <2>3. pc' \in {"cleanupData", "release", "persist"}
    BY <1>15 DEF ExecuteDelete, PassError
  <2> QED BY <1>15, <2>2, <2>3 DEF ExecuteDelete, users, clean
<1>16. CASE CleanupDeliveryData
  BY <1>16 DEF CleanupDeliveryData, users, clean
<1>17. CASE PersistAndCompleteReconciliation
  <2>1. CASE row = NoRow
    BY <1>17, <2>1 DEF PersistAndCompleteReconciliation, users, clean
  <2>2. CASE row # NoRow
    <3>1. /\ creator' = creator /\ req' = req /\ snap' = snap /\ result' = result
          /\ cleanup' = cleanup /\ cleanupSignal' = cleanupSignal
          /\ pc' \in {"persist", "signal", "load", "finish"}
          /\ pc' = "signal" => ~result.pause /\ result.state = "deleting"
      BY <1>17, <2>2 DEF PersistAndCompleteReconciliation, AfterPersist, users, clean
    <3> QED BY <1>0, <1>17, <2>2, <3>1, PersistRow DEF PersistAndCompleteReconciliation
  <2> QED BY <2>1, <2>2
<1>18. CASE SignalDeleteCleanupComplete
  <2>1. creator' = creator /\ req' = req /\ row' = row /\ snap' = snap /\ result' = result /\ cleanup' = cleanup
    BY <1>18 DEF SignalDeleteCleanupComplete, store, users
  <2>2. pc = "signal" /\ pc' \in {"load", "finish", "persist", "release"}
    BY <1>18 DEF SignalDeleteCleanupComplete, AfterPersist
  <2>3. PassInOrder'
    BY <2>1, <2>2
  <2>4. pc' = "persist" /\ ~result'.pause /\ result'.state = "deleting" => snap'.generation > 1
    BY <2>1, <2>2
  <2> QED BY <2>1, <2>2, <2>3, <2>4
<1>19. CASE ActivityFails
  BY <1>19 DEF ActivityFails, store, users, clean
<1>20. CASE ReleaseLockAndContinue
  <2>1. /\ row = NoRow <=> row' = NoRow
        /\ row # NoRow => /\ row'.generation = row.generation /\ row'.observed = row.observed
                          /\ row'.state = row.state
    BY <1>0, <1>20, LockFacts, RowFacts DEF ReleaseLockAndContinue
  <2> QED BY <1>20, <2>1 DEF ReleaseLockAndContinue, users, clean
<1>21. CASE FinishInstance
  BY <1>21 DEF FinishInstance, store, users, clean
<1>22. CASE CleanupAwaitSignal
  BY <1>22 DEF CleanupAwaitSignal, store, orch, users
<1>23. CASE DeleteDeploymentAndFulfillment
  BY <1>23 DEF DeleteDeploymentAndFulfillment, orch, users
<1>24. CASE ChangePool
  BY <1>24 DEF ChangePool, orch, users, clean
<1>25. CASE UNCHANGED vars
  BY <1>25 DEF vars, store, orch, users, clean
<1> QED
  BY <1>1, <1>2, <1>3, <1>4, <1>5, <1>6, <1>7, <1>8, <1>9, <1>10, <1>11, <1>12, <1>13, <1>14, <1>15,
     <1>16, <1>17, <1>18, <1>19, <1>20, <1>21, <1>22, <1>23, <1>24, <1>25
     DEF Next, CreateWorkflow, MutationWorkflow, OrchestrationRun, CleanupWorkflow

\* Every step of the workflows is a step of the contract, or none of its own.
LEMMA ContractStep == ASSUME TypeOK, ContractInv, [Next]_vars PROVE [Contract!Next]_Contract!cvars
<1> USE DEF ContractInv, NothingBeforeCreate, PassInOrder, DeleteFollowsMutation, Passing
<1>0. /\ row # NoRow => row \in Rec /\ row.generation \in Nat /\ row.observed \in Nat
      /\ pc \in Passing => snap \in Rec /\ snap.generation \in Nat
  BY RowFacts DEF TypeOK, Rec, FulfillmentRecord
<1>1. CASE PersistDeployment
  <2>1. row' # NoRow /\ row'.generation = 1 /\ row'.observed = 0
    BY <1>1, NewFulfillmentFacts DEF PersistDeployment
  <2>2. Contract!Create
    BY <1>1, <2>1 DEF PersistDeployment, Contract!Create
  <2> QED BY <2>2 DEF Contract!Next
<1>2. ASSUME NEW m \in Requests, MutateToDeleting(m) \/ MutateToResumed(m), row' # row
      PROVE  Contract!Mutate
  BY <1>0, <1>2, MutateRow DEF Contract!Mutate
<1>3. CASE PersistAndCompleteReconciliation /\ row # NoRow
  <2>1. /\ row.observed <= snap.generation /\ snap.generation <= row.generation
        /\ row' # NoRow /\ row'.generation = row.generation /\ row'.observed = snap.generation
    BY <1>3, PersistRow DEF PersistAndCompleteReconciliation
  <2>2. CASE row.observed = snap.generation
    BY <1>3, <2>1, <2>2 DEF Contract!cvars
  <2>3. CASE row.observed # snap.generation
    <3>1. row.observed < row.generation /\ snap.generation \in (row.observed + 1) .. row.generation
      BY <1>0, <1>3, <2>1, <2>3 DEF PersistAndCompleteReconciliation
    <3>2. Contract!Reconcile
      BY <1>3, <2>1, <3>1 DEF Contract!Reconcile
    <3> QED BY <3>2 DEF Contract!Next
  <2> QED BY <2>2, <2>3
<1>4. CASE DeleteDeploymentAndFulfillment /\ row # NoRow
  <2>1. row.observed > 1 /\ row' = NoRow /\ creator' = creator /\ creator # "persist"
    BY <1>4 DEF DeleteDeploymentAndFulfillment, users
  <2>2. Contract!Remove
    BY <1>4, <2>1 DEF Contract!Remove
  <2> QED BY <2>2 DEF Contract!Next
<1>5. CASE AcquireLockAndLoad \/ ReleaseLockAndContinue
  <2>1. /\ row = NoRow <=> row' = NoRow
        /\ row # NoRow => row'.generation = row.generation /\ row'.observed = row.observed
    BY <1>0, <1>5, LockFacts, RowFacts DEF AcquireLockAndLoad, ReleaseLockAndContinue
  <2>2. creator' = creator
    BY <1>5 DEF AcquireLockAndLoad, ReleaseLockAndContinue, users
  <2> QED BY <2>1, <2>2 DEF Contract!cvars
<1>6. ASSUME row' = row, creator' = "persist" <=> creator = "persist" PROVE UNCHANGED Contract!cvars
  BY <1>6 DEF Contract!cvars
<1>7. ASSUME PersistDeploymentAgain \/ CreateStartsOrchestration
      PROVE  row' = row /\ creator # "persist" /\ creator' # "persist"
  BY <1>7 DEF PersistDeploymentAgain, CreateStartsOrchestration, store
<1>8. ASSUME NEW m \in Requests,
             \/ \E kind \in {"delete", "resume"}, check \in Checks : Request(m, kind, check)
             \/ StartCleanup(m) \/ ConvergenceLoad(m) \/ ConvergenceStart(m) \/ MutationFails(m)
             \/ (MutateToDeleting(m) \/ MutateToResumed(m)) /\ row' = row
      PROVE  row' = row /\ creator' = creator
  BY <1>8 DEF Request, StartCleanup, ConvergenceLoad, ConvergenceStart, MutationFails,
              MutateToDeleting, MutateToResumed, store
<1>9. ASSUME \/ ResolveAndPlan \/ RemoveStep \/ CheckGeneration \/ DeliverStep \/ ExecuteDelete
             \/ CleanupDeliveryData \/ SignalDeleteCleanupComplete \/ FinishInstance \/ ActivityFails
             \/ PersistAndCompleteReconciliation /\ row = NoRow
      PROVE  row' = row /\ creator' = creator
  BY <1>9 DEF ResolveAndPlan, RemoveStep, CheckGeneration, DeliverStep, ExecuteDelete, CleanupDeliveryData,
              SignalDeleteCleanupComplete, FinishInstance, ActivityFails, PersistAndCompleteReconciliation,
              store, users
<1>10. ASSUME \/ CleanupAwaitSignal \/ ChangePool \/ UNCHANGED vars
              \/ DeleteDeploymentAndFulfillment /\ row = NoRow
       PROVE  row' = row /\ creator' = creator
  BY <1>10 DEF CleanupAwaitSignal, ChangePool, DeleteDeploymentAndFulfillment, vars, store, users
<1>11. [Contract!Next]_Contract!cvars \/ UNCHANGED Contract!cvars
  BY <1>1, <1>2, <1>3, <1>4, <1>5, <1>6, <1>7, <1>8, <1>9, <1>10
     DEF Next, CreateWorkflow, MutationWorkflow, OrchestrationRun, CleanupWorkflow, Contract!Next
<1> QED BY <1>11

\* The workflows implement the safety part of ReconcileContract: generations
\* rise one at a time, the observed generation never falls and never passes
\* the desired one, and a removed fulfillment was mutated and reconciled
\* before and never comes back.
THEOREM ImplementsContractSafety == Spec => ImplementsContract
<1>1. Init => ContractInv /\ Contract!Init
  BY DEF Init, ContractInv, NothingBeforeCreate, PassInOrder, DeleteFollowsMutation, Passing, Idle, Contract!Init
<1>2. TypeOK /\ TypeOK' /\ ContractInv /\ [Next]_vars => ContractInv'
  BY ContractInvStep
<1>3. TypeOK /\ ContractInv /\ [Next]_vars => [Contract!Next]_Contract!cvars
  BY ContractStep
<1> QED BY <1>1, <1>2, <1>3, TypeCorrect, PTL DEF Spec, ImplementsContract, Contract!Spec

-----------------------------------------------------------------------------
(* No lost wake-up                                                         *)

\* The hypotheses: the activities that are not idempotent (create, resume) do
\* not lose the result of a commit, and no activity of a mutation workflow
\* uses up its attempts.  Without them the property fails: the generation of a
\* create or resume whose workflow died is one nobody drives.
ReliableMutations ==
    /\ "create" \notin LossyActivities
    /\ "resume" \notin LossyActivities
    /\ ~AttemptsRunOut

\* A step that leaves the row's generations alone and takes no driver away
\* keeps an unobserved generation driven.
LEMMA DriversKept ==
    ASSUME DrivenInv,
           row' # NoRow => /\ row # NoRow
                           /\ row'.generation = row.generation
                           /\ row'.observed = row.observed,
           row' # NoRow /\ InstanceWillReload => InstanceWillReload',
           creator = "start" /\ row'.generation = 1 => creator' = "start" \/ InstanceWillReload',
           \A m \in Requests :
              /\ req[m].pc \in Converging <=> req'[m].pc \in Converging
              /\ req[m].pc \in Converging => req'[m].myGen = req[m].myGen
              /\ req[m].pc = "mutate" /\ req[m].kind = "delete"
                    => req'[m].pc = "mutate" /\ req'[m].kind = "delete"
    PROVE  /\ RequestsFollowRow'
           /\ (row # NoRow /\ row.observed < row.generation => StrictlyDriven)'
<1>1. RequestsFollowRow'
  BY DEF DrivenInv, RequestsFollowRow
<1>2. ASSUME row' # NoRow, row'.observed < row'.generation PROVE StrictlyDriven'
  <2>1. StrictlyDriven
    BY <1>2 DEF DrivenInv
  <2>2. CASE InstanceWillReload
    BY <1>2, <2>2 DEF StrictlyDriven
  <2>3. CASE creator = "start" /\ row.generation = 1
    BY <1>2, <2>3 DEF StrictlyDriven
  <2>4. ASSUME NEW m \in Requests, req[m].pc \in Converging, req[m].myGen = row.generation
        PROVE  StrictlyDriven'
    BY <1>2, <2>4 DEF StrictlyDriven
  <2>5. ASSUME NEW m \in Requests, req[m].pc = "mutate", req[m].kind = "delete"
        PROVE  StrictlyDriven'
    BY <2>5 DEF StrictlyDriven
  <2> QED BY <2>1, <2>2, <2>3, <2>4, <2>5 DEF StrictlyDriven
<1> QED BY <1>1, <1>2

\* Every step keeps every unobserved generation driven.
LEMMA DrivenStep ==
    ASSUME ReliableMutations, TypeOK, TypeOK', ContractInv, DrivenInv, [Next]_vars
    PROVE  DrivenInv'
<1> DEFINE Ahead == row # NoRow /\ row.observed < row.generation => StrictlyDriven
<1>0. row # NoRow => row \in Rec /\ row.generation \in Nat /\ row.observed \in Nat
  BY RowFacts DEF TypeOK, Rec, FulfillmentRecord
<1>1. ASSUME RequestsFollowRow', FirstGenerationWaits', Ahead' PROVE DrivenInv'
  BY <1>1 DEF DrivenInv
<1>2. ASSUME row' # NoRow => /\ row # NoRow
                             /\ row'.generation = row.generation
                             /\ row'.observed = row.observed,
             row' # NoRow /\ InstanceWillReload => InstanceWillReload',
             creator' = creator, req' = req, pc # "none"
      PROVE  DrivenInv'
  <2>1. FirstGenerationWaits'
    BY <1>2 DEF DrivenInv, FirstGenerationWaits
  <2> QED BY <1>1, <1>2, <2>1, DriversKept
<1>3. ASSUME row' = row, creator' = creator, pc' = pc, needsRestart' = needsRestart,
             \A m \in Requests :
                /\ req[m].pc \in Converging <=> req'[m].pc \in Converging
                /\ req[m].pc \in Converging => req'[m].myGen = req[m].myGen
                /\ req[m].pc = "mutate" /\ req[m].kind = "delete"
                      => req'[m].pc = "mutate" /\ req'[m].kind = "delete"
      PROVE  DrivenInv'
  <2>1. FirstGenerationWaits'
    BY <1>3 DEF DrivenInv, FirstGenerationWaits
  <2>2. InstanceWillReload => InstanceWillReload'
    BY <1>3 DEF InstanceWillReload
  <2> QED BY <1>1, <1>3, <2>1, <2>2, DriversKept
<1>4. CASE PersistDeployment
  <2>1. row' # NoRow /\ row'.generation = 1 /\ row'.observed = 0
    BY <1>4, NewFulfillmentFacts DEF PersistDeployment
  <2>2. creator' = "start" /\ req' = req /\ pc' = "none" /\ \A m \in Requests : req[m].pc = "idle"
    BY <1>4 DEF PersistDeployment, ReliableMutations, ContractInv, NothingBeforeCreate, orch
  <2> QED BY <1>1, <2>1, <2>2 DEF RequestsFollowRow, Converging, FirstGenerationWaits, StrictlyDriven
<1>5. CASE PersistDeploymentAgain
  <2>1. row' = row /\ req' = req /\ pc' = pc /\ needsRestart' = needsRestart /\ creator # "start" /\ creator' # "start"
    BY <1>5 DEF PersistDeploymentAgain, store, orch
  <2>2. InstanceWillReload => InstanceWillReload'
    BY <2>1 DEF InstanceWillReload
  <2>3. FirstGenerationWaits'
    BY <2>1 DEF FirstGenerationWaits
  <2> QED BY <1>1, <2>1, <2>2, <2>3, DriversKept
<1>6. CASE CreateStartsOrchestration
  <2>1. row' = row /\ req' = req /\ creator' # "start"
    BY <1>6 DEF CreateStartsOrchestration, store
  <2>2. FirstGenerationWaits'
    BY <2>1 DEF FirstGenerationWaits
  <2>3. CASE StartInstance
    <3>1. InstanceWillReload'
      BY <2>3 DEF StartInstance, InstanceWillReload
    <3> QED BY <1>1, <2>1, <2>2, <3>1, DriversKept
  <2>4. CASE AlreadyRunning /\ UNCHANGED orch
    <3>1. ~(row # NoRow /\ row.generation = 1)
      BY <1>6, <2>4 DEF CreateStartsOrchestration, AlreadyRunning, DrivenInv, FirstGenerationWaits
    <3>2. InstanceWillReload => InstanceWillReload'
      BY <2>4 DEF orch, InstanceWillReload
    <3>3. CASE row = NoRow
      BY <1>1, <2>1, <2>2, <3>3 DEF DrivenInv, RequestsFollowRow
    <3>4. CASE row # NoRow
      BY <1>1, <2>1, <2>2, <3>1, <3>2, <3>4, DriversKept
    <3> QED BY <3>3, <3>4
  <2> QED BY <1>6, <2>3, <2>4 DEF CreateStartsOrchestration
<1>7. ASSUME NEW m \in Requests, NEW kind \in {"delete", "resume"}, NEW check \in Checks, Request(m, kind, check)
      PROVE  DrivenInv'
  <2>1. \A n \in Requests \ {m} : req'[n] = req[n]
    BY <1>7 DEF Request, TypeOK
  <2>2. req[m].pc = "idle" /\ req'[m].pc = "mutate"
    BY <1>7 DEF Request, TypeOK
  <2>3. row' = row /\ creator' = creator /\ pc' = pc /\ needsRestart' = needsRestart
    BY <1>7 DEF Request, store, orch
  <2> QED BY <1>3, <2>1, <2>2, <2>3 DEF Converging
<1>8. ASSUME NEW m \in Requests, MutateToDeleting(m) \/ MutateToResumed(m), row' = row PROVE DrivenInv'
  <2>1. row = NoRow \/ row' # row \/ (MutateToResumed(m) /\ ~Resumable(m))
    <3>1. ASSUME row # NoRow, row' = TransitionToDeleting(row, m) \/ row' = Resume(row, m) PROVE row' # row
      BY <1>0, <3>1, MutationFacts DEF Auths
    <3> QED BY <1>8, <3>1 DEF MutateToDeleting, MutateToResumed, Resumable
  <2>2. creator' = creator /\ pc' = pc /\ needsRestart' = needsRestart
    BY <1>8 DEF MutateToDeleting, MutateToResumed, orch
  <2>3. Advance(m, "failed", 0) /\ req[m].pc = "mutate"
    BY <1>8, <2>1 DEF MutateToDeleting, MutateToResumed, Resumable
  <2>4. (\A n \in Requests \ {m} : req'[n] = req[n]) /\ req'[m].pc = "failed"
    BY <2>3 DEF Advance, TypeOK, ReqRecord
  <2>5. CASE row = NoRow
    <3>1. RequestsFollowRow'
      BY <1>8, <2>4, <2>5 DEF DrivenInv, RequestsFollowRow, Converging
    <3> QED BY <1>1, <1>8, <2>5, <3>1 DEF FirstGenerationWaits
  <2>6. CASE row # NoRow
    <3>1. req[m].kind = "resume"
      BY <1>8, <2>1, <2>6 DEF MutateToResumed
    <3> QED BY <1>3, <1>8, <2>2, <2>3, <2>4, <3>1 DEF Converging
  <2> QED BY <2>5, <2>6
<1>9. ASSUME NEW m \in Requests, MutateToDeleting(m) \/ MutateToResumed(m), row' # row PROVE DrivenInv'
  <2>1. row # NoRow /\ row' # NoRow /\ row'.generation = row.generation + 1 /\ row'.generation \in Nat
    BY <1>0, <1>9, MutateRow
  <2>2. 1 <= row.generation
    BY <2>1 DEF ContractInv, PassInOrder
  <2>3. FirstGenerationWaits'
    BY <1>0, <2>1, <2>2 DEF FirstGenerationWaits
  <2>4. \/ Advance(m, "startCleanup", row'.generation)
        \/ Advance(m, "converge", row'.generation)
        \/ UNCHANGED req /\ req[m].pc = "mutate" /\ req[m].kind = "delete"
    BY <1>9, <2>1 DEF MutateToDeleting, MutateToResumed, Resumable, ReliableMutations
  <2>5. CASE UNCHANGED req /\ req[m].pc = "mutate" /\ req[m].kind = "delete"
    <3>1. RequestsFollowRow'
      BY <1>0, <2>1, <2>5 DEF DrivenInv, RequestsFollowRow, TypeOK, ReqRecord
    <3>2. StrictlyDriven'
      BY <2>5 DEF StrictlyDriven
    <3> QED BY <1>1, <2>3, <3>1, <3>2
  <2>6. CASE Advance(m, "startCleanup", row'.generation) \/ Advance(m, "converge", row'.generation)
    <3>1. /\ \A n \in Requests \ {m} : req'[n] = req[n]
          /\ req'[m].pc \in Converging /\ req'[m].myGen = row'.generation
      BY <2>6 DEF Advance, TypeOK, ReqRecord, Converging
    <3>2. RequestsFollowRow'
      BY <1>0, <2>1, <2>2, <3>1 DEF DrivenInv, RequestsFollowRow, TypeOK, ReqRecord
    <3>3. StrictlyDriven'
      BY <3>1 DEF StrictlyDriven
    <3> QED BY <1>1, <2>3, <3>2, <3>3
  <2> QED BY <2>4, <2>5, <2>6
<1>10. ASSUME NEW m \in Requests, StartCleanup(m) PROVE DrivenInv'
  <2>1. row' = row /\ creator' = creator /\ pc' = pc /\ needsRestart' = needsRestart /\ req[m].pc = "startCleanup"
    BY <1>10 DEF StartCleanup, store, orch
  <2>2. /\ \A n \in Requests \ {m} : req'[n] = req[n]
        /\ req'[m].pc = "converge" /\ req'[m].myGen = req[m].myGen
    BY <1>10 DEF StartCleanup, TypeOK, ReqRecord
  <2> QED BY <1>3, <2>1, <2>2 DEF Converging
<1>11. ASSUME NEW m \in Requests, ConvergenceLoad(m) PROVE DrivenInv'
  <2>1. row' = row /\ creator' = creator /\ pc' = pc /\ needsRestart' = needsRestart /\ req[m].pc = "converge"
    BY <1>11 DEF ConvergenceLoad, store, orch
  <2> DEFINE p == Verdict(m)
  <2>2. /\ p \in {"start", "done", "failed"}
        /\ row # NoRow /\ row.observed < req[m].myGen /\ row.generation <= req[m].myGen => p = "start"
    <3>1. req[m].myGen \in Nat
      BY DEF TypeOK, ReqRecord
    <3> QED BY <1>0, <3>1 DEF Verdict
  <2> HIDE DEF p
  <2>3. /\ \A n \in Requests \ {m} : req'[n] = req[n]
        /\ req'[m].pc = p /\ req'[m].myGen = req[m].myGen
    BY <1>11 DEF ConvergenceLoad, TypeOK, ReqRecord, p
  <2>4. CASE p = "start"
    BY <1>3, <2>1, <2>3, <2>4 DEF Converging
  <2>5. CASE p # "start"
    <3>1. RequestsFollowRow'
      BY <2>1, <2>2, <2>3, <2>5 DEF DrivenInv, RequestsFollowRow, Converging
    <3>2. FirstGenerationWaits'
      BY <2>1 DEF DrivenInv, FirstGenerationWaits
    <3>3. InstanceWillReload => InstanceWillReload'
      BY <2>1 DEF InstanceWillReload
    <3>4. ASSUME row # NoRow, row.observed < row.generation PROVE StrictlyDriven'
      <4>1. req[m].myGen # row.generation
        BY <1>0, <2>2, <2>5, <3>4
      <4>2. StrictlyDriven
        BY <3>4 DEF DrivenInv
      <4>3. ASSUME NEW n \in Requests, req[n].pc \in Converging, req[n].myGen = row.generation
            PROVE  StrictlyDriven'
        BY <2>1, <2>3, <4>1, <4>3 DEF StrictlyDriven
      <4>4. ASSUME NEW n \in Requests, req[n].pc = "mutate", req[n].kind = "delete"
            PROVE  StrictlyDriven'
        BY <2>1, <2>3, <4>4 DEF StrictlyDriven
      <4> QED BY <2>1, <3>3, <4>2, <4>3, <4>4 DEF StrictlyDriven
    <3> QED BY <1>1, <2>1, <3>1, <3>2, <3>4
  <2> QED BY <2>4, <2>5
<1>12. ASSUME NEW m \in Requests, ConvergenceStart(m) PROVE DrivenInv'
  <2>1. row' = row /\ creator' = creator /\ req[m].pc = "start"
    BY <1>12 DEF ConvergenceStart, store
  <2>2. CASE StartInstance /\ req' = [req EXCEPT ![m].pc = "done"]
    <3>1. (\A n \in Requests \ {m} : req'[n] = req[n]) /\ req'[m].pc = "done"
      BY <2>2 DEF TypeOK, ReqRecord
    <3>2. RequestsFollowRow'
      BY <2>1, <3>1 DEF DrivenInv, RequestsFollowRow, Converging
    <3>3. StrictlyDriven'
      BY <2>2 DEF StartInstance, StrictlyDriven, InstanceWillReload
    <3>4. req[m].myGen \in Nat /\ 2 <= req[m].myGen /\ (row # NoRow => req[m].myGen <= row.generation)
      BY <2>1 DEF DrivenInv, RequestsFollowRow, Converging, TypeOK, ReqRecord
    <3>5. FirstGenerationWaits'
      BY <1>0, <2>1, <3>4 DEF FirstGenerationWaits
    <3> QED BY <1>1, <3>2, <3>3, <3>5
  <2>3. CASE UNCHANGED orch /\ req' = [req EXCEPT ![m].pc = "converge"]
    <3>1. /\ \A n \in Requests \ {m} : req'[n] = req[n]
          /\ req'[m].pc = "converge" /\ req'[m].myGen = req[m].myGen
      BY <2>3 DEF TypeOK, ReqRecord
    <3>2. pc' = pc /\ needsRestart' = needsRestart
      BY <2>3 DEF orch
    <3> QED BY <1>3, <2>1, <3>1, <3>2 DEF Converging
  <2> QED BY <1>12, <2>2, <2>3 DEF ConvergenceStart
<1>13. ASSUME NEW m \in Requests, MutationFails(m) PROVE FALSE
  BY <1>13 DEF MutationFails, ReliableMutations
<1>14. CASE AcquireLockAndLoad
  <2>1. row' # NoRow => /\ row # NoRow /\ row'.generation = row.generation
                        /\ row'.observed = row.observed /\ pc' \in {"deleteTargets", "place"}
    BY <1>0, <1>14, LockFacts DEF AcquireLockAndLoad
  <2> QED BY <1>2, <1>14, <2>1 DEF AcquireLockAndLoad, InstanceWillReload, Passing, users
<1>15. CASE ResolveAndPlan
  BY <1>2, <1>15 DEF ResolveAndPlan, InstanceWillReload, Passing, store, users
<1>16. CASE RemoveStep
  BY <1>2, <1>16 DEF RemoveStep, PassError, InstanceWillReload, Passing, users
<1>17. CASE CheckGeneration
  BY <1>2, <1>17 DEF CheckGeneration, InstanceWillReload, Passing, store, users
<1>18. CASE DeliverStep
  BY <1>2, <1>18 DEF DeliverStep, PassError, InstanceWillReload, Passing, users
<1>19. CASE ExecuteDelete
  BY <1>2, <1>19 DEF ExecuteDelete, PassError, InstanceWillReload, Passing, users
<1>20. CASE CleanupDeliveryData
  BY <1>2, <1>20 DEF CleanupDeliveryData, InstanceWillReload, Passing, users
<1>21. CASE PersistAndCompleteReconciliation
  <2>1. CASE row = NoRow
    BY <1>2, <1>21, <2>1 DEF PersistAndCompleteReconciliation, InstanceWillReload, users
  <2>2. CASE row # NoRow
    <3>1. row' # NoRow /\ row'.generation = row.generation /\ row'.observed = snap.generation
      BY <1>21, <2>2, PersistRow
    <3>2. creator' = creator /\ req' = req /\ pc # "none"
      BY <1>21 DEF PersistAndCompleteReconciliation, users
    <3>3. RequestsFollowRow' /\ FirstGenerationWaits'
      BY <2>2, <3>1, <3>2 DEF DrivenInv, RequestsFollowRow, FirstGenerationWaits
    <3>4. InstanceWillReload' \/ ~(row.generation > snap.generation)
      BY <1>21, <2>2 DEF PersistAndCompleteReconciliation, NeedsRestart, AfterPersist, InstanceWillReload, Passing
    <3>5. Ahead'
      <4>1. snap.generation \in Nat
        BY <1>21, <2>2, PersistRow
      <4> QED BY <1>0, <2>2, <3>1, <3>4, <4>1 DEF StrictlyDriven
    <3> QED BY <1>1, <3>3, <3>5
  <2> QED BY <2>1, <2>2
<1>22. CASE SignalDeleteCleanupComplete
  <2>1. InstanceWillReload => InstanceWillReload'
    BY <1>22 DEF SignalDeleteCleanupComplete, AfterPersist, InstanceWillReload, Passing
  <2> QED BY <1>2, <1>22, <2>1 DEF SignalDeleteCleanupComplete, store, users
<1>23. CASE ActivityFails
  BY <1>2, <1>23 DEF ActivityFails, InstanceWillReload, Passing, store, users
<1>24. CASE ReleaseLockAndContinue
  <2>1. row' # NoRow => row # NoRow /\ row'.generation = row.generation /\ row'.observed = row.observed
    BY <1>0, <1>24, LockFacts DEF ReleaseLockAndContinue
  <2> QED BY <1>2, <1>24, <2>1 DEF ReleaseLockAndContinue, InstanceWillReload, users
<1>25. CASE FinishInstance
  BY <1>2, <1>25 DEF FinishInstance, InstanceWillReload, Passing, store, users
<1>26. CASE CleanupAwaitSignal \/ ChangePool \/ UNCHANGED vars
  <2>1. row' = row /\ creator' = creator /\ pc' = pc /\ needsRestart' = needsRestart /\ req' = req
    BY <1>26 DEF CleanupAwaitSignal, ChangePool, vars, store, orch, users
  <2> QED BY <1>3, <2>1
<1>27. CASE DeleteDeploymentAndFulfillment
  <2>1. row' = NoRow /\ req' = req
    BY <1>27 DEF DeleteDeploymentAndFulfillment, users
  <2> QED BY <1>1, <2>1 DEF DrivenInv, RequestsFollowRow, FirstGenerationWaits
<1> QED
  BY <1>4, <1>5, <1>6, <1>7, <1>8, <1>9, <1>10, <1>11, <1>12, <1>13, <1>14, <1>15, <1>16, <1>17, <1>18,
     <1>19, <1>20, <1>21, <1>22, <1>23, <1>24, <1>25, <1>26, <1>27
     DEF Next, CreateWorkflow, MutationWorkflow, OrchestrationRun, CleanupWorkflow

\* No lost wake-up: as long as no commit of a create or resume loses its
\* answer and no mutation workflow gives up, every unobserved generation has a
\* workflow that will reconcile it, for any number of concurrent requests
\* (convergenceLoop against the end of the orchestration instance).
THEOREM NoLostWakeUp == ASSUME ReliableMutations PROVE Spec => []EveryGenerationDriven
<1>1. Init => ContractInv /\ DrivenInv
  BY DEF Init, ContractInv, NothingBeforeCreate, PassInOrder, DeleteFollowsMutation, Passing, Idle,
         DrivenInv, RequestsFollowRow, Converging, FirstGenerationWaits
<1>2. TypeOK /\ TypeOK' /\ ContractInv /\ [Next]_vars => ContractInv'
  BY ContractInvStep
<1>3. TypeOK /\ TypeOK' /\ ContractInv /\ DrivenInv /\ [Next]_vars => DrivenInv'
  BY DrivenStep
<1>4. DrivenInv => EveryGenerationDriven
  BY DEF DrivenInv, EveryGenerationDriven, StrictlyDriven, Converging, Driven
<1> QED BY <1>1, <1>2, <1>3, <1>4, TypeCorrect, PTL DEF Spec

-----------------------------------------------------------------------------
(* Checked resumes                                                         *)

\* No two requests ever wrote the same generation, none wrote one the row has
\* not reached, and a checked resume wrote the one after what it had seen.
ResumeInv ==
    /\ \A m \in Requests : req[m].pc = "idle" => req[m].myGen = 0
    /\ row # NoRow => \A m \in Requests : req[m].myGen <= row.generation
    /\ \A m, n \in Requests : m # n /\ req[m].myGen # 0 => req[n].myGen # req[m].myGen
    /\ \A m \in Requests : req[m].kind = "resume" /\ req[m].check # "none" /\ req[m].myGen # 0
                              => req[m].myGen = req[m].seen[1] + 1

\* The fields of a request after its workflow moved on.
LEMMA AdvanceFacts ==
    ASSUME TypeOK, NEW m \in Requests, NEW p, NEW g, Advance(m, p, g)
    PROVE  /\ \A n \in Requests \ {m} : req'[n] = req[n]
           /\ req'[m].pc = p /\ req'[m].myGen = g /\ req'[m].kind = req[m].kind
           /\ req'[m].check = req[m].check /\ req'[m].seen = req[m].seen
BY DEF Advance, TypeOK, ReqRecord

LEMMA StepsOfPC ==
    ASSUME TypeOK, NEW m \in Requests, NEW p, req' = [req EXCEPT ![m].pc = p]
    PROVE  /\ \A n \in Requests \ {m} : req'[n] = req[n]
           /\ req'[m].pc = p /\ req'[m].myGen = req[m].myGen /\ req'[m].kind = req[m].kind
           /\ req'[m].check = req[m].check /\ req'[m].seen = req[m].seen
BY DEF TypeOK, ReqRecord

\* Every step keeps the generations of the requests apart.
LEMMA ResumeStep == ASSUME TypeOK, ContractInv, ResumeInv, [Next]_vars PROVE ResumeInv'
<1>0. /\ row # NoRow => row \in Rec /\ row.generation \in Nat
      /\ \A n \in Requests : req[n].myGen \in Nat
  BY RowFacts DEF TypeOK, Rec, FulfillmentRecord, ReqRecord
<1>1. ASSUME row' # NoRow => row # NoRow /\ row'.generation = row.generation,
             \A n \in Requests : /\ req'[n].pc = "idle" => req[n].pc = "idle"
                                 /\ req'[n].myGen = req[n].myGen /\ req'[n].kind = req[n].kind
                                 /\ req'[n].check = req[n].check /\ req'[n].seen = req[n].seen
      PROVE  ResumeInv'
  BY <1>1 DEF ResumeInv
<1>2. CASE PersistDeployment
  <2>1. row' # NoRow /\ row'.generation = 1 /\ req' = req /\ \A n \in Requests : req[n].pc = "idle"
    BY <1>2, NewFulfillmentFacts DEF PersistDeployment, ContractInv, NothingBeforeCreate
  <2> QED BY <2>1 DEF ResumeInv
<1>3. ASSUME NEW m \in Requests, NEW kind \in {"delete", "resume"}, NEW check \in Checks, Request(m, kind, check)
      PROVE  ResumeInv'
  <2>1. /\ row' = row /\ \A n \in Requests \ {m} : req'[n] = req[n]
        /\ req'[m].myGen = 0 /\ req'[m].pc = "mutate"
    BY <1>3 DEF Request, TypeOK, store
  <2>2. row # NoRow => 0 <= row.generation
    BY <1>0
  <2> QED BY <2>1, <2>2 DEF ResumeInv
<1>4. ASSUME NEW m \in Requests, MutateToDeleting(m) \/ MutateToResumed(m) PROVE ResumeInv'
  <2>2. CASE row' = row /\ Advance(m, "failed", 0)
    <3>1. (\A n \in Requests \ {m} : req'[n] = req[n]) /\ req'[m].myGen = 0 /\ req'[m].pc = "failed"
      BY <2>2, AdvanceFacts
    <3>2. row # NoRow => 0 <= row.generation
      BY <1>0
    <3> QED BY <2>2, <3>1, <3>2 DEF ResumeInv
  <2>3. CASE row' # row
    <3>1. /\ row # NoRow /\ row' # NoRow /\ row'.generation = row.generation + 1
          /\ row.generation \in Nat
      BY <1>0, <1>4, <2>3, MutateRow
    <3>2. CASE req' = req
      <4>1. \A n \in Requests : req[n].myGen <= row'.generation
        BY <1>0, <3>1 DEF ResumeInv
      <4> QED BY <3>1, <3>2, <4>1 DEF ResumeInv
    <3>3. ASSUME NEW p \in {"startCleanup", "converge"}, Advance(m, p, row'.generation),
                 req[m].kind = "resume" => CheckPasses(m)
          PROVE  ResumeInv'
      <4>1. /\ \A n \in Requests \ {m} : req'[n] = req[n]
            /\ req'[m].pc = p /\ req'[m].myGen = row.generation + 1 /\ req'[m].kind = req[m].kind
            /\ req'[m].check = req[m].check /\ req'[m].seen = req[m].seen
        BY <3>1, <3>3, AdvanceFacts
      <4>2. \A n \in Requests \ {m} : req'[n].myGen <= row.generation /\ req'[n].myGen \in Nat
        BY <1>0, <3>1, <4>1 DEF ResumeInv
      <4>3. \A n \in Requests : req'[n].myGen <= row'.generation
        BY <3>1, <4>1, <4>2
      <4>4. \A n \in Requests \ {m} : req'[n].myGen # req'[m].myGen
        BY <3>1, <4>1, <4>2
      <4>5. ASSUME req[m].kind = "resume", req[m].check # "none"
            PROVE  row.generation = req[m].seen[1]
        <5>1. req[m].check \in {"etag", "generation"}
          BY <4>5, OrchestrationAssumption DEF TypeOK, ReqRecord
        <5>2. EtagFields(row)[1] = row.generation
          BY DEF EtagFields
        <5> QED BY <3>3, <4>5, <5>1, <5>2 DEF CheckPasses
      <4>6. \A n \in Requests : req'[n].pc = "idle" => req'[n].myGen = 0
        BY <4>1 DEF ResumeInv
      <4>7. \A n1, n2 \in Requests : n1 # n2 /\ req'[n1].myGen # 0 => req'[n2].myGen # req'[n1].myGen
        BY <4>1, <4>4 DEF ResumeInv
      <4>8. \A n \in Requests : req'[n].kind = "resume" /\ req'[n].check # "none" /\ req'[n].myGen # 0
                              => req'[n].myGen = req'[n].seen[1] + 1
        BY <4>1, <4>5 DEF ResumeInv
      <4> QED BY <4>3, <4>6, <4>7, <4>8 DEF ResumeInv
    <3>4. CASE MutateToDeleting(m)
      <4>1. req[m].kind # "resume" /\ (req' = req \/ Advance(m, "startCleanup", row'.generation))
        BY <2>3, <3>4 DEF MutateToDeleting
      <4> QED BY <3>2, <3>3, <4>1
    <3>5. CASE MutateToResumed(m)
      <4>1. CheckPasses(m) /\ (req' = req \/ Advance(m, "converge", row'.generation))
        BY <2>3, <3>5 DEF MutateToResumed, Resumable
      <4> QED BY <3>2, <3>3, <4>1
    <3> QED BY <1>4, <3>4, <3>5
  <2>4. ASSUME row # NoRow, row' = TransitionToDeleting(row, m) \/ row' = Resume(row, m) PROVE row' # row
    BY <1>0, <2>4, MutationFacts DEF Auths
  <2>5. row' # row \/ (row' = row /\ Advance(m, "failed", 0))
    BY <1>4, <2>4 DEF MutateToDeleting, MutateToResumed, Resumable
  <2> QED BY <2>2, <2>3, <2>5
<1>5. ASSUME NEW m \in Requests,
             StartCleanup(m) \/ ConvergenceLoad(m) \/ ConvergenceStart(m) \/ MutationFails(m)
      PROVE  ResumeInv'
  <2>1. PICK p : req' = [req EXCEPT ![m].pc = p] /\ p # "idle"
    BY <1>5 DEF StartCleanup, ConvergenceLoad, Verdict, ConvergenceStart, MutationFails
  <2>2. row' = row
    BY <1>5 DEF StartCleanup, ConvergenceLoad, ConvergenceStart, MutationFails, store
  <2> QED BY <1>1, <2>1, <2>2, StepsOfPC
<1>6. CASE AcquireLockAndLoad \/ ReleaseLockAndContinue
  <2>1. row' # NoRow => row # NoRow /\ row'.generation = row.generation
    BY <1>0, <1>6, LockFacts, RowFacts DEF AcquireLockAndLoad, ReleaseLockAndContinue
  <2>2. req' = req
    BY <1>6 DEF AcquireLockAndLoad, ReleaseLockAndContinue, users
  <2> QED BY <1>1, <2>1, <2>2
<1>7. CASE PersistAndCompleteReconciliation
  <2>1. row # NoRow => row'.generation = row.generation
    BY <1>7, PersistRow
  <2>2. req' = req /\ (row = NoRow => row' = row)
    BY <1>7 DEF PersistAndCompleteReconciliation, users
  <2> QED BY <1>1, <2>1, <2>2
<1>8. CASE DeleteDeploymentAndFulfillment
  <2>1. req' = req /\ row' = NoRow
    BY <1>8 DEF DeleteDeploymentAndFulfillment, users
  <2> QED BY <1>1, <2>1
<1>9. ASSUME \/ PersistDeploymentAgain \/ CreateStartsOrchestration
             \/ ResolveAndPlan \/ RemoveStep \/ CheckGeneration \/ DeliverStep \/ ExecuteDelete
             \/ CleanupDeliveryData \/ SignalDeleteCleanupComplete \/ FinishInstance \/ ActivityFails
             \/ CleanupAwaitSignal \/ ChangePool \/ UNCHANGED vars
      PROVE  ResumeInv'
  <2>1. row' = row /\ req' = req
    BY <1>9 DEF PersistDeploymentAgain, CreateStartsOrchestration, ResolveAndPlan, RemoveStep,
                CheckGeneration, DeliverStep, ExecuteDelete, CleanupDeliveryData,
                SignalDeleteCleanupComplete, FinishInstance, ActivityFails, CleanupAwaitSignal,
                ChangePool, vars, store, users
  <2> QED BY <1>1, <2>1
<1> QED
  BY <1>2, <1>3, <1>4, <1>5, <1>6, <1>7, <1>8, <1>9
     DEF Next, CreateWorkflow, MutationWorkflow, OrchestrationRun, CleanupWorkflow

\* Two resume calls that named the etag or generation they had seen, and saw
\* the same, never both take effect: for any number of calls, with lost
\* results of the mutation and with deletes and passes in between.
THEOREM ResumesExclude == Spec => []CheckedResumesExclude
<1>1. Init => ContractInv /\ ResumeInv
  BY DEF Init, ContractInv, NothingBeforeCreate, PassInOrder, DeleteFollowsMutation, Passing, Idle, ResumeInv
<1>2. TypeOK /\ TypeOK' /\ ContractInv /\ [Next]_vars => ContractInv'
  BY ContractInvStep
<1>3. TypeOK /\ ContractInv /\ ResumeInv /\ [Next]_vars => ResumeInv'
  BY ResumeStep
<1>4. ResumeInv => CheckedResumesExclude
  BY DEF ResumeInv, CheckedResumesExclude
<1> QED BY <1>1, <1>2, <1>3, <1>4, TypeCorrect, PTL DEF Spec

-----------------------------------------------------------------------------
(* Teardown                                                                *)

\* pcs of a pass that is not a teardown.
Delivering == {"place", "remove", "check", "deliver"}

\* The row is gone or about to be deleted.
Over == row = NoRow \/ pc = "signal" \/ cleanupSignal \/ cleanup = "delete"

\* Then nothing is installed but what was let go of, and neither the row nor
\* the pass in progress can bring anything back: a resume finds nothing paused.
OverIsClean ==
    Over => /\ installed \subseteq adrift /\ pc \notin Delivering
            /\ row # NoRow => row.state = "deleting" /\ ~row.paused /\ row.resolvedTargets = {}
            /\ pc = "deleteTargets" => snap.resolvedTargets = {}
            /\ pc \in {"persist", "signal"} =>
                  ~result.pause /\ result.state = "deleting" /\ result.resolvedTargets = {}

\* What is installed and not let go of has a record, is named by the row or
\* was just delivered to, and is named by what persist will write.
NothingForgotten ==
    /\ installed \subseteq records \cup adrift
    /\ row # NoRow => installed \subseteq row.resolvedTargets \cup adrift
                                       \cup (IF pc = "persist" THEN Receivers ELSE {})
    /\ row # NoRow /\ pc \in Delivering \cup {"deleteTargets"} => snap.resolvedTargets = row.resolvedTargets
    /\ pc \in {"check", "deliver"} => installed \subseteq Resolve(snapPool) \cup adrift
    /\ pc = "cleanupData" => installed \subseteq adrift
    /\ pc = "persist" => /\ installed \subseteq result.resolvedTargets \cup adrift
                         /\ ~result.pause /\ result.state = "deleting" => result.resolvedTargets = {}

TeardownInv == OverIsClean /\ NothingForgotten

\* Which methods of the aggregate touch the pause and the resolved targets.
LEMMA TargetFacts ==
    ASSUME NEW f \in Rec, NEW a \in Auths
    PROVE  /\ TransitionToDeleting(f, a).resolvedTargets = f.resolvedTargets
           /\ TransitionToDeleting(f, a).state = "deleting"
           /\ TransitionToDeleting(f, a).paused = FALSE
           /\ Resume(f, a).resolvedTargets = f.resolvedTargets
<1> DEFINE d == [f EXCEPT !.auth = a, !.state = "deleting", !.paused = FALSE]
           u == [f EXCEPT !.auth = a, !.paused = FALSE]
<1>2. /\ d \in Rec /\ d.resolvedTargets = f.resolvedTargets /\ d.state = "deleting" /\ d.paused = FALSE
      /\ u \in Rec /\ u.resolvedTargets = f.resolvedTargets
  BY DEF Rec, FulfillmentRecord, FulfillmentState
<1>3. ASSUME NEW h \in Rec
      PROVE  /\ AdvanceGeneration(h).resolvedTargets = h.resolvedTargets
             /\ AdvanceGeneration(h).state = h.state /\ AdvanceGeneration(h).paused = h.paused
  BY DEF Rec, FulfillmentRecord, AdvanceGeneration
<1>4. TransitionToDeleting(f, a) = AdvanceGeneration(d) /\ Resume(f, a) = AdvanceGeneration(u)
  BY DEF TransitionToDeleting, Resume
<1> HIDE DEF d, u
<1> QED BY <1>2, <1>3, <1>4

LEMMA LockTargets ==
    ASSUME NEW f \in Rec
    PROVE  /\ AcquireOrchestrationLock(f).resolvedTargets = f.resolvedTargets
           /\ AcquireOrchestrationLock(f).paused = f.paused
           /\ ReleaseOrchestrationLock(f).resolvedTargets = f.resolvedTargets
           /\ ReleaseOrchestrationLock(f).paused = f.paused
BY DEF Rec, FulfillmentRecord, AcquireOrchestrationLock, ReleaseOrchestrationLock

LEMMA PersistTargets ==
    ASSUME TypeOK, PersistAndCompleteReconciliation, row # NoRow
    PROVE  row'.resolvedTargets = result.resolvedTargets /\ row'.paused = result.pause
<1> DEFINE m == ApplyReconciliationResult(row, result)
<1>1. row \in Rec /\ snap \in Rec /\ result \in ReconciliationResult(Auths, Targets)
  BY RowFacts DEF TypeOK, PersistAndCompleteReconciliation, Passing
<1>2. m \in Rec /\ m.resolvedTargets = result.resolvedTargets /\ m.paused = result.pause
  BY <1>1 DEF Rec, FulfillmentRecord, ReconciliationResult, ApplyReconciliationResult, FulfillmentState
<1> HIDE DEF m
<1>3. /\ CompleteReconciliation(m, snap.generation).resolvedTargets = m.resolvedTargets
      /\ CompleteReconciliation(m, snap.generation).paused = m.paused
  BY <1>2 DEF Rec, FulfillmentRecord, CompleteReconciliation
<1>4. row' = CompleteReconciliation(m, snap.generation)
  BY DEF PersistAndCompleteReconciliation, ReconciledRow, m
<1> QED BY <1>2, <1>3, <1>4

\* How an error of a dispatch cycle ends the pass.
LEMMA DispatchErrorFacts ==
    \A ids : PassError(ids) =>
       \/ pc' = "release" /\ result' = result
       \/ /\ pc' = "persist" /\ result'.resolvedTargets = ids
          /\ result'.pause \/ result'.state = "failed"
<1> SUFFICES ASSUME NEW ids, PassError(ids)
             PROVE  \/ pc' = "release" /\ result' = result
                    \/ /\ pc' = "persist" /\ result'.resolvedTargets = ids
                       /\ result'.pause \/ result'.state = "failed"
  OBVIOUS
<1>1. /\ Pause(ids).pause = TRUE /\ Pause(ids).resolvedTargets = ids
      /\ Settle("failed", ids).state = "failed" /\ Settle("failed", ids).resolvedTargets = ids
  BY DEF Pause, Settle
<1> QED BY <1>1 DEF PassError

\* What the history keeps: only a persist takes targets out that are still
\* installed.
LEMMA DriftFacts ==
    ASSUME TypeOK, [Next]_vars
    PROVE  /\ ~PersistAndCompleteReconciliation => adrift \cap installed' \subseteq adrift'
           /\ (adrift \cap installed') \ (result.resolvedTargets \cap records) \subseteq adrift'
           /\ row = NoRow => adrift \cap installed' \subseteq adrift'
<1>1. CASE ResolveAndPlan \/ RemoveStep \/ DeliverStep \/ ExecuteDelete \/ ActivityFails
  <2>1. PICK S : adrift' = (adrift \cup S) \cap installed'
    BY <1>1 DEF ResolveAndPlan, RemoveStep, DeliverStep, ExecuteDelete, ActivityFails, LetGo
  <2> QED BY <2>1
<1>2. CASE PersistAndCompleteReconciliation
  BY <1>2 DEF PersistAndCompleteReconciliation
<1>3. ASSUME adrift' = adrift
      PROVE  /\ adrift \cap installed' \subseteq adrift'
             /\ (adrift \cap installed') \ (result.resolvedTargets \cap records) \subseteq adrift'
  BY <1>3
<1>4. CASE CreateWorkflow
  BY <1>3, <1>4 DEF CreateWorkflow, PersistDeployment, PersistDeploymentAgain, CreateStartsOrchestration, store
<1>5. ASSUME NEW m \in Requests, NEW kind \in {"delete", "resume"}, NEW check \in Checks, Request(m, kind, check)
      PROVE  adrift' = adrift
  BY <1>5 DEF Request, store
<1>6. ASSUME NEW m \in Requests, MutationWorkflow(m) \/ MutationFails(m) PROVE adrift' = adrift
  BY <1>6 DEF MutationWorkflow, MutateToDeleting, MutateToResumed, StartCleanup, ConvergenceLoad,
              ConvergenceStart, MutationFails, store
<1>7. CASE AcquireLockAndLoad \/ CheckGeneration \/ CleanupDeliveryData \/ SignalDeleteCleanupComplete
           \/ ReleaseLockAndContinue \/ FinishInstance
  BY <1>3, <1>7 DEF AcquireLockAndLoad, CheckGeneration, CleanupDeliveryData, SignalDeleteCleanupComplete,
                    ReleaseLockAndContinue, FinishInstance, store
<1>8. CASE CleanupWorkflow \/ ChangePool \/ UNCHANGED vars
  BY <1>3, <1>8 DEF CleanupWorkflow, CleanupAwaitSignal, DeleteDeploymentAndFulfillment, ChangePool, vars, store
<1> QED BY <1>1, <1>2, <1>3, <1>4, <1>5, <1>6, <1>7, <1>8 DEF Next, OrchestrationRun

\* Every step keeps what is installed in sight.
LEMMA TeardownStep ==
    ASSUME TypeOK, TypeOK', ContractInv, TeardownInv, [Next]_vars
    PROVE  TeardownInv'
<1> USE DEF TeardownInv, OverIsClean, NothingForgotten, Over, Delivering
<1>0. /\ row # NoRow => row \in Rec
      /\ pc \in Passing => snap \in Rec
  BY RowFacts DEF TypeOK
<1>p. CASE PersistAndCompleteReconciliation
  <2>1. UNCHANGED <<records, installed, snap, snapPool, result, cleanup, cleanupSignal>> /\ pc = "persist"
    BY <1>p DEF PersistAndCompleteReconciliation, clean
  <2>2. (adrift \cap installed) \ (result.resolvedTargets \cap records) \subseteq adrift'
        /\ (row = NoRow => adrift \cap installed \subseteq adrift')
    BY <2>1, DriftFacts
  <2>3. CASE row = NoRow
    <3>1. pc' = "release" /\ row' = row
      BY <1>p, <2>3 DEF PersistAndCompleteReconciliation
    <3> QED BY <2>1, <2>2, <2>3, <3>1
  <2>4. CASE row # NoRow
    <3>1. /\ row' # NoRow /\ row'.resolvedTargets = result.resolvedTargets /\ row'.paused = result.pause
          /\ row'.state = IF result.pause THEN row.state ELSE result.state
      BY <1>p, <2>4, PersistRow, PersistTargets
    <3>2. \/ pc' = IF ~result.pause /\ result.state = "deleting" THEN "signal" ELSE AfterPersist(needsRestart')
          \/ pc' = "persist"
      BY <1>p, <2>1, <2>4 DEF PersistAndCompleteReconciliation
    <3>3. AfterPersist(needsRestart') \in {"load", "finish"}
      BY DEF AfterPersist
    <3>4. /\ installed \subseteq result.resolvedTargets \cup adrift'
          /\ installed \subseteq records \cup adrift'
          /\ result.resolvedTargets = {} => installed \subseteq adrift'
      BY <2>1, <2>2
    <3> QED BY <2>1, <2>4, <3>1, <3>2, <3>3, <3>4
  <2> QED BY <2>3, <2>4
<1>n. SUFFICES ASSUME ~PersistAndCompleteReconciliation PROVE TeardownInv'
  BY <1>p
<1>w. adrift \cap installed' \subseteq adrift'
  BY <1>n, DriftFacts
<1>1. ASSUME \/ row' = row
             \/ /\ row # NoRow /\ row' # NoRow /\ row'.state = row.state
                /\ row'.paused = row.paused /\ row'.resolvedTargets = row.resolvedTargets,
             UNCHANGED <<records, installed, pc, snap, snapPool, result>>,
             cleanupSignal' => cleanupSignal, cleanup' = "delete" => cleanup = "delete" \/ cleanupSignal
      PROVE  TeardownInv'
  BY <1>1, <1>w DEF Receivers
<1>2. CASE PersistDeployment
  <2>1. row' # NoRow /\ UNCHANGED <<records, installed, orch, clean>>
    BY <1>2, NewFulfillmentFacts DEF PersistDeployment
  <2>2. pc = "none" /\ cleanup = "none" /\ ~cleanupSignal /\ row = NoRow
    BY <1>2 DEF PersistDeployment, ContractInv, NothingBeforeCreate
  <2> QED BY <1>w, <2>1, <2>2 DEF orch, clean
<1>3. CASE PersistDeploymentAgain
  BY <1>1, <1>3 DEF PersistDeploymentAgain, store, orch, clean
<1>4. CASE CreateStartsOrchestration
  <2>1. UNCHANGED <<row, records, installed, snap, snapPool, result, cleanup, cleanupSignal>>
        /\ (pc' = pc \/ (pc = "none" /\ pc' = "load"))
    BY <1>4 DEF CreateStartsOrchestration, StartInstance, AlreadyRunning, store, orch, clean
  <2> QED BY <1>1, <1>w, <2>1
<1>5. ASSUME NEW m \in Requests, NEW kind \in {"delete", "resume"}, NEW check \in Checks, Request(m, kind, check)
      PROVE  TeardownInv'
  BY <1>1, <1>5 DEF Request, store, orch, clean
<1>6. ASSUME NEW m \in Requests, MutateToDeleting(m) \/ MutateToResumed(m) PROVE TeardownInv'
  <2>1. UNCHANGED <<records, installed, pc, snap, snapPool, result, cleanup, cleanupSignal>>
    BY <1>6 DEF MutateToDeleting, MutateToResumed, orch, clean
  <2>2. CASE row' = row
    BY <1>1, <2>1, <2>2
  <2>3. CASE row' # row
    <3>1. row # NoRow /\ row \in Rec /\ m \in Auths /\ row' # NoRow
      BY <1>6, <2>3, MutateRow DEF Auths
    <3>2. row'.resolvedTargets = row.resolvedTargets
          /\ (~row.paused => row'.state = "deleting" /\ ~row'.paused)
      <4>1. CASE MutateToDeleting(m)
        <5>1. row' = TransitionToDeleting(row, m)
          BY <2>3, <4>1 DEF MutateToDeleting
        <5> QED BY <3>1, <5>1, TargetFacts
      <4>2. CASE MutateToResumed(m)
        <5>1. row' = Resume(row, m) /\ row.paused
          BY <2>3, <4>2 DEF MutateToResumed, Resumable, CanResume
        <5> QED BY <3>1, <5>1, TargetFacts
      <4> QED BY <1>6, <4>1, <4>2
    <3> QED BY <1>w, <2>1, <3>1, <3>2 DEF Receivers
  <2> QED BY <2>2, <2>3
<1>7. ASSUME NEW m \in Requests, StartCleanup(m) PROVE TeardownInv'
  BY <1>1, <1>7 DEF StartCleanup, store, orch
<1>8. ASSUME NEW m \in Requests, ConvergenceLoad(m) PROVE TeardownInv'
  BY <1>1, <1>8 DEF ConvergenceLoad, store, orch, clean
<1>9. ASSUME NEW m \in Requests, ConvergenceStart(m) PROVE TeardownInv'
  <2>1. UNCHANGED <<row, records, installed, snap, snapPool, result, cleanup, cleanupSignal>>
        /\ (pc' = pc \/ (pc = "none" /\ pc' = "load"))
    BY <1>9 DEF ConvergenceStart, StartInstance, AlreadyRunning, store, orch, clean
  <2> QED BY <1>1, <1>w, <2>1
<1>10. ASSUME NEW m \in Requests, MutationFails(m) PROVE TeardownInv'
  BY <1>1, <1>10 DEF MutationFails, store, orch, clean
<1>11. CASE AcquireLockAndLoad
  <2>1. UNCHANGED <<records, installed, result, cleanup, cleanupSignal>> /\ pc = "load"
    BY <1>11 DEF AcquireLockAndLoad, clean
  <2>2. CASE row = NoRow
    <3>1. pc' = "finish" /\ row' = row
      BY <1>11, <2>2 DEF AcquireLockAndLoad
    <3> QED BY <1>w, <2>1, <2>2, <3>1
  <2>3. CASE row # NoRow
    <3>1. /\ row' # NoRow /\ row'.state = row.state /\ row'.paused = row.paused
          /\ row'.resolvedTargets = row.resolvedTargets /\ snap' = row'
      BY <1>0, <1>11, <2>3, LockFacts, LockTargets, RowFacts DEF AcquireLockAndLoad
    <3>2. pc' = IF row.state = "deleting" THEN "deleteTargets" ELSE "place"
      BY <1>11, <2>3 DEF AcquireLockAndLoad
    <3>3. NothingForgotten'
      BY <1>w, <2>1, <2>3, <3>1, <3>2
    <3>4. CASE row.state = "deleting"
      BY <1>w, <2>1, <2>3, <3>1, <3>2, <3>3, <3>4
    <3>5. CASE row.state # "deleting"
      <4>1. ~Over'
        BY <2>1, <2>3, <3>1, <3>2, <3>5
      <4> QED BY <3>3, <4>1
    <3> QED BY <3>4, <3>5
  <2> QED BY <2>2, <2>3
\* A pass that delivers finds the row there, and its snapshot names the same.
<1>d. pc \in Delivering => ~Over /\ row # NoRow /\ snap.resolvedTargets = row.resolvedTargets
                           /\ installed \subseteq snap.resolvedTargets \cup adrift
  OBVIOUS
<1>12. CASE ResolveAndPlan
  <2>1. UNCHANGED <<row, records, installed, snap, snapPool, cleanup, cleanupSignal>> /\ pc = "place"
    BY <1>12 DEF ResolveAndPlan, clean
  <2>2. CASE pc' = "release"
    BY <1>d, <1>w, <2>1, <2>2
  <2>3. CASE pc' = "persist"
    <3>1. result' = Settle("active", {})
      BY <1>12, <2>3 DEF ResolveAndPlan
    <3>2. result'.state = "active" /\ result'.resolvedTargets = {}
      BY <3>1 DEF Settle
    <3>3. snap.resolvedTargets \cap installed' \subseteq adrift'
      BY <1>12, <2>3 DEF ResolveAndPlan, LetGo, EmptyPlacement
    <3>4. installed' \subseteq adrift'
      BY <1>d, <1>w, <2>1, <3>3
    <3> QED BY <1>d, <2>1, <2>3, <3>2, <3>4
  <2>4. CASE pc' = IF Removed # {} THEN "remove" ELSE "deliver"
    <3>1. pc' = "deliver" => snap.resolvedTargets \subseteq Resolve(snapPool)
      BY <2>4 DEF Removed
    <3> QED BY <1>d, <1>w, <2>1, <2>4, <3>1
  <2> QED BY <1>12, <2>2, <2>3, <2>4 DEF ResolveAndPlan
<1>13. CASE RemoveStep
  <2>1. UNCHANGED <<row, records, snap, snapPool, cleanup, cleanupSignal>> /\ pc = "remove"
    BY <1>13 DEF RemoveStep, clean
  <2>2. installed' \subseteq installed
    BY <1>13 DEF RemoveStep, RemoveOk, RemovePart
  <2>3. snap.resolvedTargets \subseteq Resolve(snapPool) \cup Removed
    BY DEF Removed
  <2>4. CASE RemoveOk(Removed) /\ pc' = "check"
    <3>1. installed' \subseteq Resolve(snapPool) \cup adrift
      BY <1>d, <2>1, <2>3, <2>4 DEF RemoveOk
    <3> QED BY <1>d, <1>w, <2>1, <2>2, <2>4, <3>1
  <2>5. CASE pc' = "release"
    BY <1>d, <1>w, <2>1, <2>2, <2>5
  <2>6. CASE pc' = "persist" /\ PassError(Resolve(snapPool))
    <3>1. /\ result'.resolvedTargets = Resolve(snapPool)
          /\ result'.pause \/ result'.state = "failed"
      BY <2>6, DispatchErrorFacts
    <3>2. Removed \cap installed' \subseteq adrift'
      BY <1>13, <2>6 DEF RemoveStep, LetGo, FailedRemoval
    <3>3. installed' \subseteq Resolve(snapPool) \cup adrift'
      BY <1>d, <1>w, <2>1, <2>2, <2>3, <3>2
    <3>4. /\ installed' \subseteq records' \cup adrift'
          /\ installed' \subseteq row'.resolvedTargets \cup adrift'
      BY <1>d, <1>w, <2>1, <2>2
    <3> QED BY <1>d, <2>1, <2>6, <3>1, <3>3, <3>4
  <2>7. \/ RemoveOk(Removed) /\ pc' = "check"
        \/ pc' = "release"
        \/ pc' = "persist" /\ PassError(Resolve(snapPool))
    BY <1>13, DispatchErrorFacts DEF RemoveStep
  <2> QED BY <2>4, <2>5, <2>6, <2>7
<1>14. CASE CheckGeneration
  <2>1. UNCHANGED <<row, records, installed, snap, snapPool, cleanup, cleanupSignal>> /\ pc = "check"
    BY <1>14 DEF CheckGeneration, store, clean
  <2>2. \/ pc' = "persist" /\ result' = Settle("active", Resolve(snapPool))
        \/ pc' = "deliver"
        \/ pc' = "release"
    BY <1>14, <2>1 DEF CheckGeneration
  <2>3. /\ Settle("active", Resolve(snapPool)).state = "active"
        /\ Settle("active", Resolve(snapPool)).resolvedTargets = Resolve(snapPool)
    BY DEF Settle
  <2> QED BY <1>d, <1>w, <2>1, <2>2, <2>3
<1>15. CASE DeliverStep
  <2>1. UNCHANGED <<row, snap, snapPool, cleanup, cleanupSignal>> /\ pc = "deliver"
    BY <1>15 DEF DeliverStep, clean
  <2>2. Receivers \subseteq Resolve(snapPool) /\ Receivers' = Receivers
    BY <2>1 DEF Receivers
  <2>3. /\ installed' \subseteq installed \cup Receivers
        /\ installed' \subseteq records' \cup adrift
    BY <1>15 DEF DeliverStep
  <2>4. /\ installed' \subseteq records' \cup adrift'
        /\ installed' \subseteq Resolve(snapPool) \cup adrift'
        /\ installed' \subseteq row.resolvedTargets \cup adrift' \cup Receivers
    BY <1>d, <1>w, <2>1, <2>2, <2>3
  <2>5. PassError(Resolve(snapPool)) \/ (pc' = "persist" /\ result' = Settle("active", Resolve(snapPool)))
    BY <1>15 DEF DeliverStep
  <2>6. CASE pc' = "release"
    <3>1. (Receivers \ row.resolvedTargets) \cap installed' \subseteq adrift'
      BY <1>15, <1>d, <2>1, <2>6 DEF DeliverStep, LetGo, RetriedPass
    <3>2. installed' \subseteq row.resolvedTargets \cup adrift'
      BY <1>w, <2>4, <3>1
    <3> QED BY <1>d, <2>1, <2>4, <2>6, <3>2
  <2>7. CASE pc' = "persist"
    <3>1. /\ result'.resolvedTargets = Resolve(snapPool)
          /\ result'.pause \/ result'.state \in {"failed", "active"}
      BY <2>5, <2>7, DispatchErrorFacts DEF Settle
    <3> QED BY <1>d, <2>1, <2>2, <2>4, <2>7, <3>1
  <2> QED BY <2>5, <2>6, <2>7, DispatchErrorFacts
<1>16. CASE ExecuteDelete
  <2> DEFINE S == snap.resolvedTargets \cap Registered(snapPool)
  <2>1. UNCHANGED <<row, records, snap, snapPool, cleanup, cleanupSignal>> /\ pc = "deleteTargets"
    BY <1>16 DEF ExecuteDelete, clean
  <2>2. installed \subseteq snap.resolvedTargets \cup adrift
    BY <2>1
  <2>3. CASE RemoveOk(S) /\ pc' = "cleanupData" /\ UNCHANGED result
    <3>1. (snap.resolvedTargets \ Registered(snapPool)) \cap installed' \subseteq adrift'
      BY <1>16, <2>3 DEF ExecuteDelete, LetGo, DeregisteredTargets
    <3>2. installed' \subseteq adrift'
      BY <1>w, <2>2, <2>3, <3>1 DEF RemoveOk
    <3> QED BY <2>1, <2>3, <3>2
  <2>4. CASE RemovePart(S) /\ PassError(snap.resolvedTargets)
    <3>1. installed' \subseteq installed /\ snap.resolvedTargets # {}
      BY <2>4 DEF RemovePart
    <3>2. ~Over /\ snap.resolvedTargets = row.resolvedTargets
      BY <2>1, <3>1
    <3>3. /\ installed' \subseteq records' \cup adrift'
          /\ installed' \subseteq row'.resolvedTargets \cup adrift'
      BY <1>w, <2>1, <2>2, <3>1, <3>2
    <3>4. \/ pc' = "release" /\ UNCHANGED result
          \/ /\ pc' = "persist" /\ result'.resolvedTargets = row'.resolvedTargets
             /\ result'.pause \/ result'.state = "failed"
      BY <2>1, <2>4, <3>2, DispatchErrorFacts
    <3> QED BY <2>1, <3>2, <3>3, <3>4
  <2> QED BY <1>16, <2>3, <2>4 DEF ExecuteDelete
<1>17. CASE CleanupDeliveryData
  <2>1. UNCHANGED <<row, installed, snap, snapPool, cleanup, cleanupSignal>> /\ pc = "cleanupData"
        /\ pc' = "persist" /\ result' = Settle("deleting", {}) /\ records' = {}
    BY <1>17 DEF CleanupDeliveryData, clean
  <2>2. /\ Settle("deleting", {}).state = "deleting" /\ Settle("deleting", {}).resolvedTargets = {}
        /\ Settle("deleting", {}).pause = FALSE
    BY DEF Settle
  <2> QED BY <1>w, <2>1, <2>2
<1>19. CASE SignalDeleteCleanupComplete
  <2>1. UNCHANGED <<row, records, installed, snap, snapPool, result, cleanup>> /\ pc = "signal"
    BY <1>19 DEF SignalDeleteCleanupComplete, store
  <2>2. pc' \in {"load", "finish", "persist", "release"}
    BY <1>19 DEF SignalDeleteCleanupComplete, AfterPersist
  <2> QED BY <1>w, <2>1, <2>2
<1>20. CASE ActivityFails
  <2>1. UNCHANGED <<row, records, installed, snap, snapPool, result, cleanup, cleanupSignal>>
        /\ pc' = "release" /\ pc # "release"
    BY <1>20 DEF ActivityFails, Passing, clean
  <2>2. CASE pc = "persist" /\ row # NoRow
    <3>1. (Receivers \ row.resolvedTargets) \cap installed' \subseteq adrift'
      BY <1>20, <2>1, <2>2 DEF ActivityFails, LetGo, RetriedPass
    <3>2. installed \subseteq row.resolvedTargets \cup adrift'
      BY <1>w, <2>1, <2>2, <3>1
    <3> QED BY <1>w, <2>1, <2>2, <3>2
  <2>3. CASE ~(pc = "persist" /\ row # NoRow)
    BY <1>w, <2>1, <2>3
  <2> QED BY <2>2, <2>3
<1>21. CASE ReleaseLockAndContinue
  <2>1. UNCHANGED <<records, installed, cleanup, cleanupSignal>> /\ pc = "release" /\ pc' = "load"
    BY <1>21 DEF ReleaseLockAndContinue, clean
  <2>2. \/ row' = row
        \/ /\ row # NoRow /\ row' # NoRow /\ row'.state = row.state /\ row'.paused = row.paused
           /\ row'.resolvedTargets = row.resolvedTargets
    BY <1>0, <1>21, LockFacts, LockTargets, RowFacts DEF ReleaseLockAndContinue
  <2> QED BY <1>w, <2>1, <2>2
<1>22. CASE FinishInstance
  <2>1. UNCHANGED <<row, records, installed, cleanup, cleanupSignal>> /\ pc = "finish" /\ pc' = "none"
    BY <1>22 DEF FinishInstance, store, clean
  <2> QED BY <1>w, <2>1
<1>23. CASE CleanupAwaitSignal
  BY <1>1, <1>23 DEF CleanupAwaitSignal, store, orch
<1>24. CASE DeleteDeploymentAndFulfillment
  <2>1. UNCHANGED <<records, installed, pc, snap, snapPool, result, cleanupSignal>>
        /\ cleanup = "delete" /\ row' = NoRow
    BY <1>24 DEF DeleteDeploymentAndFulfillment, orch
  <2> QED BY <1>w, <2>1
<1>25. CASE ChangePool
  BY <1>1, <1>25 DEF ChangePool, orch, clean
<1>26. CASE UNCHANGED vars
  BY <1>1, <1>26 DEF vars, store, orch, clean
<1> QED
  BY <1>0, <1>n, <1>2, <1>3, <1>4, <1>5, <1>6, <1>7, <1>8, <1>9, <1>10, <1>11, <1>12, <1>13, <1>14,
     <1>15, <1>16, <1>17, <1>19, <1>20, <1>21, <1>22, <1>23, <1>24, <1>25, <1>26
     DEF Next, CreateWorkflow, MutationWorkflow, OrchestrationRun, CleanupWorkflow

LEMMA TeardownAlways == Spec => [](TypeOK /\ TeardownInv)
<1>1. Init => ContractInv /\ TeardownInv
  BY DEF Init, ContractInv, NothingBeforeCreate, PassInOrder, DeleteFollowsMutation, Passing,
         Idle, TeardownInv, OverIsClean, NothingForgotten, Delivering
<1>2. TypeOK /\ TypeOK' /\ ContractInv /\ [Next]_vars => ContractInv'
  BY ContractInvStep
<1>3. TypeOK /\ TypeOK' /\ ContractInv /\ TeardownInv /\ [Next]_vars => TeardownInv'
  BY TeardownStep
<1> QED BY <1>1, <1>2, <1>3, TypeCorrect, PTL DEF Spec

\* For every placement, every fault and every bound: outside a pass the row
\* names every target that holds manifests and that the code did not let go of
\* (EmptyPlacement, FailedRemoval, RetriedPass, DeregisteredTargets), however the passes before it paused, failed
\* part-way, were retried or met a changed pool.
THEOREM InstallsStayTracked == Spec => []InstallsTracked
<1>1. TeardownInv => InstallsTracked
  BY DEF TeardownInv, NothingForgotten, InstallsTracked, Passing
<1> QED BY <1>1, TeardownAlways, PTL

\* The row is hard-deleted only when no target holds manifests but those let go
\* of: deletes, resumes and the cleanup workflow that act on a row a delivering
\* pass is about to overwrite included.
THEOREM RemovalFollowsTeardown == Spec => RemovedOnlyWhenTornDown
<1>1. TypeOK /\ TeardownInv /\ [Next]_vars
        => [row # NoRow /\ row' = NoRow => installed \subseteq adrift]_vars
  <2> SUFFICES ASSUME TypeOK, TeardownInv, [Next]_vars, row # NoRow, row' = NoRow
               PROVE  installed \subseteq adrift
    OBVIOUS
  <2>1. row \in Rec
    BY RowFacts DEF TypeOK
  <2>2. CASE PersistDeployment
    BY <2>2, NewFulfillmentFacts DEF PersistDeployment
  <2>3. ASSUME NEW m \in Requests, MutationWorkflow(m) PROVE FALSE
    <3>1. CASE MutateToDeleting(m) \/ MutateToResumed(m)
      BY <3>1, MutateRow
    <3>2. CASE StartCleanup(m) \/ ConvergenceLoad(m) \/ ConvergenceStart(m)
      BY <3>2 DEF StartCleanup, ConvergenceLoad, ConvergenceStart, store
    <3> QED BY <2>3, <3>1, <3>2 DEF MutationWorkflow
  <2>4. CASE AcquireLockAndLoad \/ ReleaseLockAndContinue
    BY <2>1, <2>4, LockFacts, RowFacts DEF AcquireLockAndLoad, ReleaseLockAndContinue
  <2>5. CASE PersistAndCompleteReconciliation
    BY <2>5, PersistRow
  <2>6. CASE DeleteDeploymentAndFulfillment
    BY <2>6 DEF DeleteDeploymentAndFulfillment, TeardownInv, OverIsClean, Over
  <2>7. ASSUME \/ PersistDeploymentAgain \/ CreateStartsOrchestration
               \/ \E m \in Requests : \/ MutationFails(m)
                                      \/ \E kind \in {"delete", "resume"}, check \in Checks : Request(m, kind, check)
               \/ ResolveAndPlan \/ RemoveStep \/ CheckGeneration \/ DeliverStep \/ ExecuteDelete
               \/ CleanupDeliveryData \/ SignalDeleteCleanupComplete \/ FinishInstance \/ ActivityFails
               \/ CleanupAwaitSignal \/ ChangePool \/ UNCHANGED vars
        PROVE  row' = row
    BY <2>7 DEF PersistDeploymentAgain, CreateStartsOrchestration, MutationFails, Request, ResolveAndPlan,
                RemoveStep, CheckGeneration, DeliverStep, ExecuteDelete, CleanupDeliveryData,
                SignalDeleteCleanupComplete, FinishInstance, ActivityFails, CleanupAwaitSignal,
                ChangePool, vars, store
  <2> QED
    BY <2>2, <2>3, <2>4, <2>5, <2>6, <2>7
       DEF Next, CreateWorkflow, OrchestrationRun, CleanupWorkflow
<1> QED BY <1>1, TeardownAlways, PTL DEF Spec, RemovedOnlyWhenTornDown
=============================================================================
