---------------------------- MODULE Fulfillment ----------------------------
(***************************************************************************)
(* The fulfillment aggregate (server/internal/domain/fulfillment.go): its  *)
(* record and the methods that change it, as operators from one record to  *)
(* the next.  A method that can refuse has its refusal as an operator of   *)
(* its own.  Strategies, provenance, labels and timestamps are left out:   *)
(* no property below tells two of their values apart.                      *)
(***************************************************************************)
EXTENDS Naturals

\* FulfillmentState, the lifecycle states.
FulfillmentState == {"creating", "active", "deleting", "failed"}

\* activeWorkflowGen = nil.  Generations of stored rows start at 1.
NoLock == 0

\* The record; pauseReason and statusReason are abstracted to whether there
\* is one.
FulfillmentRecord(auths, targets) ==
    [state           : FulfillmentState,
     paused          : BOOLEAN,
     statusReason    : BOOLEAN,
     generation      : Nat,
     observed        : Nat,
     lock            : Nat,
     auth            : auths,
     resolvedTargets : SUBSET targets]

\* NewFulfillment followed by the Advance*Strategy calls of the create path:
\* they all set the generation to loadedGeneration + 1 = 1.
NewFulfillment(auth) ==
    [state |-> "creating", paused |-> FALSE, statusReason |-> FALSE,
     generation |-> 1, observed |-> 0, lock |-> NoLock,
     auth |-> auth, resolvedTargets |-> {}]

\* advanceGeneration: one more than the generation the transaction loaded.
AdvanceGeneration(f) == [f EXCEPT !.generation = @ + 1]

\* Resume refuses a fulfillment that is not paused.
CanResume(f) == f.paused

Resume(f, auth) ==
    AdvanceGeneration([f EXCEPT !.auth = auth, !.paused = FALSE])

TransitionToDeleting(f, auth) ==
    AdvanceGeneration([f EXCEPT !.auth = auth, !.state = "deleting", !.paused = FALSE])

\* A ReconciliationResult: what a pass of orchestration hands to persistence.
ReconciliationResult(auths, targets) ==
    [pause           : BOOLEAN,
     state           : FulfillmentState,
     resolvedTargets : SUBSET targets,
     auth            : auths]

\* A pausing result leaves the lifecycle state alone; any other sets it and
\* clears the pause.  Targets and credentials are those of the result; only a
\* failed result carries a status reason.
ApplyReconciliationResult(f, r) ==
    [f EXCEPT !.state           = IF r.pause THEN @ ELSE r.state,
              !.paused          = r.pause,
              !.statusReason    = ~r.pause /\ r.state = "failed",
              !.resolvedTargets = r.resolvedTargets,
              !.auth            = r.auth]

\* The needsRestart result of CompleteReconciliation.
NeedsRestart(f, reconciledGen) == f.generation > reconciledGen

\* A wrong version: the lock stays.
CompleteReconciliationKeepsLock(f, reconciledGen) == [f EXCEPT !.observed = reconciledGen]

CompleteReconciliation(f, reconciledGen) ==
    [f EXCEPT !.observed = reconciledGen,
              !.lock     = IF NeedsRestart(f, reconciledGen) THEN @ ELSE NoLock]

\* A wrong version: the lock names the generation after this one.
AcquireOrchestrationLockOffByOne(f) ==
    [f EXCEPT !.lock = IF @ = NoLock THEN f.generation + 1 ELSE @]

AcquireOrchestrationLock(f) ==
    [f EXCEPT !.lock = IF @ = NoLock THEN f.generation ELSE @]

ReleaseOrchestrationLock(f) == [f EXCEPT !.lock = NoLock]

\* What DeploymentView.Etag hashes of the fulfillment: the pause, the
\* credentials and the observed generation are not part of it.
EtagFields(f) == <<f.generation, f.state, f.statusReason, f.resolvedTargets>>
=============================================================================
