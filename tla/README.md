# FleetShift: TLA+ specifications of the server

FleetShift keeps *fulfillments*: the desired state of something (a deployment,
a managed resource) and the targets it is to be delivered to. Every change of a
fulfillment is a new *generation*; durable workflows drive the targets to it and
record the generation they reached. Around that core live the addons: they bring
resource types and delivery agents, provision clusters and report what runs in
them. This directory specifies the core and the stateful parts around it
(`src/server/internal`), checks them with TLC and proves their safety with
TLAPS. Paths below are relative to `src/server/internal` unless they start with
`docs/` or `src/`.

## 1. Inventory

| Component | State | Operations | Interacts with | Hard behaviour | What makes it correct |
|---|---|---|---|---|---|
| Fulfillment aggregate `domain/fulfillment.go`, `etag.go` | generation, observed generation, lifecycle state, pause and status reasons, credentials, resolved targets, `activeWorkflowGen` (the lock) | `Resume`, `TransitionToDeleting`, `ApplyReconciliationResult`, `CompleteReconciliation`, `AcquireOrchestrationLock`, `ReleaseOrchestrationLock` | loaded and stored by every workflow | written by a pass that read it long ago | generations never lost, observed never ahead, deletes not undone |
| Orchestration workflow `domain/orchestration.go`, `placement.go`, `rollout.go` | locals of `Run`: snapshot, placement, result | load, place, plan, remove, check generation, deliver, delete, clean up, persist, signal, release, restart | store, agents, cleanup workflow, engine | at-least-once activities, partial failure, mutations while it runs | every generation reconciled, row removed only after its targets |
| Mutation workflows `domain/create_deployment.go`, `delete_deployment.go`, `resume_deployment.go`, `mutation_workflow.go`, `delete_cleanup.go` | generation they wrote, place in the convergence loop | mutate, start cleanup, poll, start orchestration, await signal, hard delete | store, engine | start races the end of the running instance; replays after a commit | no lost wake-up, no double effect |
| Deployment service `application/deployment_service.go` | none | create, delete, resume, get, list | starts the workflows | read before the workflow's transaction | optimistic checks hold when they are used |
| Delivery aggregate `domain/delivery.go` | state, operation, generation per (fulfillment, target) | `TransitionTo`, `Redispatch`, `Withdraw`, `ResetForRetry`, `Retry` | dispatch and reports | late and repeated reports | a terminal state speaks of its own generation |
| Dispatch cycle `domain/orchestration.go` (`dispatchAndAwait`) | `unacked`, `remaining` | dispatch, await with timeout, process event | agents, signal queue | lost calls, lost acks, stale signals | success means done; every cycle ends |
| Delivery report service `application/delivery_report_service.go` | none (records in the store) | `ReportEvent`, `ReportResult`, `ListActiveDeliveries` | agents, workflow signal | commit and signal are two steps | stale reports are fenced |
| Stores `infrastructure/sqlite`, `infrastructure/postgres` | tables, transactions | begin, get, update, commit, rollback | all of the above | isolation | read-modify-write is atomic |
| In-memory engine `infrastructure/memworkflow/mem.go` | running set, instance registry, signal channels, done channels | start, await, signal, finish | all workflows | four actors under two locks | a vacant slot means the result is there |
| Durable engine binding `infrastructure/goworkflows` | history in its store | the same interface | all workflows | at-least-once activities, signals to ended instances refused | as above |
| Target service `application/target_service.go` | target pool and labels | register, deregister | placement | the pool changes between passes | no target forgotten |
| Managed resources, extension resources and intents `domain/*managed_resource*.go`, `extension_resource.go` | resource row found by name, fulfillment found by ID, cleanup workflow per fulfillment, type definition | create, delete, resume, cleanup, report, define type | fulfillment, orchestration, inventory | workflows of one incarnation meet the rows of the next | row and fulfillment come and go together |
| Produced targets and vault (`ProcessDeliveryOutputs`, cleanup plan) | targets and secrets a delivery produced | register, store, withdraw | target pool | partial failure, replay | no secret or target outlives its fulfillment |
| Inventory reporting `application/inventory_report_service.go` | observed objects | upsert, delete, replace | addons, extension resource rows | reports out of order | a report never touches managed state |
| Kubernetes inventory pipeline `addon/kubernetes/inventory_informer.go`, `inventory_writer.go`, `inventory_manager.go` | informer per kind and generation, three channels, writer memory (pending, acknowledged, retained LIST) | list, watch, batch, flush, retry, shut down | cluster, report service | channels overtake each other, batches fail or fail after they committed, the process ends | the inventory ends up as the cluster; nothing live is deleted |
| Kubernetes indexing runtime `addon/kubernetes/inventory_indexing_runtime.go` | entry per target, per-target lock, restart budget, shutdown flag | `EnsureIndexer`, `StopIndexer`, `StopAll`, restart after an exit | agents, the pipeline above | stops, starts, exits and timeouts cross under two locks | one indexer per target, stopped means stopped, every call returns |
| Addon manager, schema activation `application/addon_manager.go`, `transport/extensionresource` | addon records, type definitions, muxes, registry, router, targets | enable, connect (with undo), disconnect, disable | transports, users of the API | a connect fails after some steps, services are renamed in use | what is served is recorded and has its definition |
| GCP HCP agent `addon/gcphcp` | fence and lock per cluster; in the cloud: cluster, nodepools, IAM, infrastructure, PSC endpoints | deliver, remove, recover | report service, CLS API, hypershift, indexing runtime | calls whose outcome is unknown, restarts half-way, newer generations while older work runs | a cluster keeps what it stands on; results are true when reported |
| Other delivery agents `addon/kind`, `addon/kubernetes`, `addon/scripted` | work in flight, per-cluster marks | deliver, remove, recover | report service | a newer generation overtakes older work | older work never overwrites newer |
| Attestation, OIDC, key registry, query SQL, transports, CLI, clients, SDK, deploy tools | | | | none that is stateful | not modelled, see section 8 |

How they interact: a user call starts a *mutation workflow*, which commits a new
generation to the row in one transaction and then loops: is my generation
observed or superseded? If not, start the *orchestration workflow* of this
fulfillment. The engine runs at most one instance per fulfillment, so the start
may be refused; the loop sleeps and looks again. The instance takes the lock,
snapshots row and pool, resolves placement, removes and delivers target by
target (each a *dispatch cycle* that waits for signals of the agents' reports),
then persists its result to the row *as it is by then*, and runs again if the
generation has moved. A delete also starts a *cleanup workflow* that waits for
the orchestration's signal and deletes the row.

Addons connect at startup: the addon manager activates their schemas, routes
deliveries to their agents and registers their targets, and the agents recover
the deliveries that were active before the workflow workers start. An agent
that brings up a cluster asks the indexing runtime for an indexer of it, whose
pipeline reports objects as inventory rows next to the managed ones.

The hazards this code is exposed to are listed, line by line, in `PROJECT.json`.

## 2. Modules

| Module | Models | Notes |
|---|---|---|
| `Fulfillment` | the aggregate's methods as operators | no variables |
| `Orchestration` | one fulfillment from create to hard delete: all workflows, the row, records, pool | one action per activity |
| `ReconcileContract` | the abstract promise: desired and observed generation | no code of its own |
| `Delivery` | the delivery record's methods as operators | no variables |
| `DeliveryDispatch` | `dispatchAndAwait`, agents, report service | the inside of the single steps `RemoveStep`, `DeliverStep`, `ExecuteDelete` of `Orchestration` |
| `FulfillmentStore` | a write transaction on sqlite and on postgres | the inside of each single-step activity of `Orchestration` |
| `MemWorkflow` | instance registry and guard of the in-memory engine | the inside of `StartInstance` and `FinishInstance` |
| `ManagedResource` | one resource name across its incarnations: create, delete, resume and cleanup workflows, inventory reports, the type definition | extends `Fulfillment`; a pass of the orchestration is what it loads and what it persists |
| `AddonManager` | addons, type definitions and the API surface they bring | a `Connect` step by step |
| `HcpAgent` | the GCP HCP agent and one hosted cluster | the platform side is the summary of `DeliveryDispatch` |
| `IndexHost` | the indexing runtime for one target | one action per critical section |
| `InventoryPipeline` | informer, manager and writer of one kind of object | the inside of the indexer `IndexHost` starts |
| `MCOrchestration`, `MCDispatch`, `MCStore`, `MCAddons`, `MCHcp` | symmetry sets and constant values for TLC | |
| `OrchestrationProofs`, `DispatchProofs`, `StoreProofs`, `ManagedProofs`, `AddonProofs`, `HcpProofs`, `HostProofs`, `PipelineProofs` | theorems about `Orchestration`, `DeliveryDispatch`, `FulfillmentStore` and `MemWorkflow`, `ManagedResource`, `AddonManager`, `HcpAgent`, `IndexHost`, `InventoryPipeline` and their proofs | section 4 |

### Orchestration

`row` is the fulfillment row (the deployment row is written and deleted in the
same transactions). `pc`, `snap`, `snapPool`, `result`, `needsRestart` are the
locals of `OrchestrationWorkflowSpec.Run`; `pc = "none"` means that the engine
runs no instance. `req[m]` is one delete or resume workflow and the service call
before it, `creator` the create workflow, `cleanup` the delete cleanup workflow.
`records` are the targets with a delivery record, `installed` those that really
hold manifests: the ghost the teardown properties speak of.

Each activity is one action named after it. Its refusals are disjuncts: a
missing row, a resume of what is not paused, a failed etag check. At-least-once
execution is modelled where it matters: an activity in `LossyActivities` may
commit and stay where it is, so that it runs again on the row it changed.
`ActivityFails` and `MutationFails` are activities that use up their attempts.
`PassError` is what `Run` does with an error of the pipeline: retry through
`releaseLockAndContinue`, pause (authentication) or settle as failed (terminal).

Read with care:
- the client's own read of an etag and the service's read are one step
  (`Request` takes both from the row); the check itself is in
  `MutateToResumed`, as in the code;
- the version conflict policy is the default one (restart), the rollout the
  immediate one: remove everything that left, check the generation, deliver;
- `BufferedSignals` is the difference between the engines: the in-memory one
  keeps a signal for the next instance, a durable one refuses it;
- `CheckGeneration` that finds a newer generation ends the plan without error,
  and the pass settles as active. This is what the code does;
- a target of the remove step that is not registered any more has no type, so
  no agent is found for it and the pass is retried (`Unroutable`); a delete
  passes by such targets instead.

The history variable `adrift` holds the targets with manifests that the code let
go of; no guard and no other variable reads it. A target gets there in four ways,
each one place of `Run`: placement resolves to nothing (`EmptyPlacement`), the
remove step fails for good or pauses (`FailedRemoval`), a pass that delivered is
retried (`RetriedPass`), a delete meets a deregistered target
(`DeregisteredTargets`). It leaves again when it is torn down or a persisted pass
names it. All four are behaviour of the code (section 5), and with any of them
left out both `InstallsTracked` and `RemovedOnlyWhenTornDown` fail; the properties
say that there is no fifth.

### DeliveryDispatch

A cycle is one call of `dispatchAndAwait`; cycles repeat as the passes of the
workflow do (`PassContinues`), also for the same generation and after a cycle
that ended well: the pass may fail later, at its persist. `inbox` is the signal queue and survives cycles.
`unsent` holds reports that are committed and not signalled, the gap the FIXME
in `delivery_report_service.go` describes. `work` is what agents were handed,
`done` what they finished. The timeout may fire at any time; one that fires
while an answer is under way counts against `MaxDisturbances`.

### FulfillmentStore and MemWorkflow

`FulfillmentStore` runs any mix of the five row transactions step by step.
`Backend` decides the one thing that differs: sqlite's `BEGIN IMMEDIATE` admits
one writer, postgres's `BEGIN` is READ COMMITTED without row locks on read.
`MemWorkflow` runs `Start`, `SignalFulfillmentEvent` and the deferred finish of
a run in the critical sections the code has; channels are made and replaced as
`getInstance` and `removeInstance` do.

### ManagedResource

`row` is the extension resource row of the name, known by the fulfillment it
names; `Unmanaged` is a row an inventory report made. `ful`, `orch`, `cleanup`
and `signal` are kept by fulfillment ID, `call` by user call. Each activity of
`create_managed_resource.go`, `delete_managed_resource.go`,
`resume_managed_resource.go` and `delete_managed_resource_cleanup.go` is one
action; activities in `LossyActivities` may run again after their commit.
`CreateType` and `DeleteType` are the type definition's transactions, the second
refused while rows exist. The cleanup deletes *by name*, as the code does; the
history variable `stale` records that a cleanup ran once more after its own
fulfillment was gone (section 5), the one way in which the pairing breaks.

### AddonManager

`typeDef`, `rows` and `targets` are stored and survive `Restart`; `rec`, `route`
and `api` are memory. `Connect` runs through schemas, agent and target; what a
step has done is what the compensation (`op.created`, `op.activated`, `op.added`,
`op.newTarget`) undoes when a later step fails. `ActivationFails` has one case
for each place where `Activate` can fail, since each leaves something different
to undo. `CreateRow` and `DeleteRow` are users of the API between the steps. The
schemas of an input, and the services that one call deactivates, are sets: they
concern different types, so the order in which the code takes them does not
show, and any order is allowed.

### HcpAgent

`plat` is the delivery record, `call` the call of `Deliver` or `Remove` the
workflow's activity waits in, `work` the goroutine or call that holds the
cluster's lock with its place in `Reconciler.Ensure` or `Delete`; `clusterGen` is
the fence. `cluster`, `pools`, `iam`, `infra` and `psc` are the cloud. A spec is
told apart by the incarnation and generation that wrote it. Every external call
can fail; those that change something may have done so, and a create without
answer stays `inflight` until it takes effect or not. The progress event before
the token exchange (`AnnounceExchange`) and the exchange or its refusal are steps
of their own, since the event is committed. `Crash` stops the server and does
what `RecoverActiveDeliveries` does at the next start.

`EnsureResolves`, `ProbeTimesOut` and the lookup of `DeleteCluster` have the guard
`Answered`: with `LateCreates = FALSE` they wait until a create in flight took
effect or was dropped, whichever flow sent it, also one that crashed or whose
probe ended with an error. The code does not wait there. The guard is an
assumption about the cloud, stated in sections 3 and 4, and `LateCreates = TRUE`
takes it away.

### IndexHost and InventoryPipeline

`IndexHost`: `entry` holds every `managedIndexer` made so far, `tracked` the one
in `h.entries`, `op` the holder of the per-target lock, `proc` the place of each
goroutine: callers, and the goroutine of each indexer, which also runs
`onIndexerExit` and the restart. `quiet` is a history variable: a stop returned
without error and nobody has been on the way to a start since.

`InventoryPipeline`: the cluster is the log of its changes, a resource version is
a place in the log. `eventCh`, `resyncCh` and `removeCh` are the three channels,
`w` the writer's memory of the kind. `Tick(r1, r2)` is a flush with the results
of its two batches: committed, failed, or committed although the caller saw an
error. `lost` and `left` record the two known ways in which a row stays behind
(section 5).

Operators introduced by "A wrong version" are defective variants of the operator
that follows them. They are used by no specification; putting one in place of
its original makes the property named in `PROJECT.json` fail, which shows that
the property depends on that line of the code.

## 3. Runs

All with `tlc -workers 2 -config <cfg> <module>`; states are distinct states.

| Run | States | Checks | Shows |
|---|---|---|---|
| `Orch_driven` | 0.8M | `TypeOK`, `EveryGenerationDriven`, `ConvergesAsPromised` | no wake-up is lost between convergence polling, persist and the end of the instance; under fairness the observed generation catches up |
| `Orch_faults` | 1.9M | `LockHeldByInstance`, `CheckedResumesExclude`, `ImplementsContract`, `InstallsTracked`, `RemovedOnlyWhenTornDown` | with every outcome, fault, lost result and a changing pool: lock, optimistic checks and the contract hold; no target is forgotten, and none is left behind by the hard delete, but those in `adrift` |
| `Orch_delete` | | `ConcurrentDeletePreserved` (violated) | a pass that runs while a delete commits persists `active` over `deleting` (section 5 and the finding in `PROJECT.json`) |
| `Disp_safety` | 1.6M | `TypeOK`, `CycleOkMeansDone` | two targets: stale and late signals complete nothing they should not |
| `Disp_live` | 1.4M | `CycleOkMeansDone`, `RecordIsTruthful`, `CycleEnds` | one target with faults: the same, records speak of their own generation, and no cycle waits for ever |
| `Store_sqlite` | 5.5k | `TypeOK`, `NoMutationLost`, `CommitsAreAtomicSteps` | transactions are atomic steps, as `Orchestration` takes them |
| `Mem_finish` | 35k | `VacantSlotMeansResult` | the atomic finish |
| `Managed_names` | 280k | `TypeOK`, `Paired`, `GoneOnlyAfterTeardown`, `TornDownIsRemoved` | two incarnations of a name, two creates and deletes, a resume, a create repeated after its commit, reports and type deletion: row and fulfillment stay paired, a resource goes only after its own teardown, and then does go |
| `Addon_connect` | 426k | `TypeOK`, `ServedIsAccounted`, `DisabledIsGone`, `RouteMeansConnected`, `ConnectedIsServed`, `FailedConnectPreserves` | a connect that fails anywhere, renames included, leaves neither a service nobody accounts for nor takes one away that worked before and stayed in the input |
| `Hcp_cluster` | 325k | `TypeOK`, `ClusterKeepsInfra`, `DeliveredIsServed`, `RemovedIsGone`, `FenceAdmitsCurrent`, `EveryDispatchAnswered` | with failing and unconfirmed calls, repeats and restarts: results are true of the cloud, and every dispatch gets one, but for the removal that `Stranded` describes |
| `Host_calls` | 226k | `StoppedStaysDown`, `RunningIsTracked`, `CallsReturn` | at most one indexer runs and it is tracked; stopped ones stay down; nobody waits for ever |
| `Pipe_drain` | 212k | `LiveIsCurrent`, `GoneIsGone`, `NeverDeletesLive`, `Drains` | once drained the inventory is the cluster, whatever overtook what, and draining ends |

Where the code does otherwise than a comment or document of the repository says,
section 5 gives the instance that shows it.

### Bounds

- *Two requests* give every pair of concurrent mutations. The properties speak of a generation and the next one, so longer chains repeat
  the same situations; the theorems do without the bound.
- *Two targets* are the least for which a step can be half done; runs about
  interleavings of workflows use one.
- `MaxDisturbances` bounds faults that could repeat for ever. One fault is
  enough to meet each error path; `Disp_live` allows two, so that a retry can
  meet a fault again. In `Orch_faults` the one disturbance is an error, a lost
  result or a pool change. Its placement is a selector that matches both targets
  at first, so a deregistration or relabelling makes the remove step run. A
  placement that becomes empty needs two such changes: `EmptyPlacement` is reached
  with one target or `MaxDisturbances = 2` (the inductive invariant was checked
  there too, with `Checks = {"none"}` and only persist lossy, 5.0M states) and by the theorems.
- `MaxGeneration = 2` in `DeliveryDispatch` gives one stale and one current
  generation, which is all its comparisons can tell apart.
- `Capacity = 1` (16 in the code) makes senders wait, which they otherwise do
  only after 16 signals. `MaxStarts = 3` lets an instance start while one
  finishes and another `Start` waits.
- `Managed_names`: two incarnations are what workflows of one can confuse with
  another; `LossyActivities = {"create"}` (section 5 says what a repeated cleanup
  does).
- `Addon_connect`: two addons with three types, two of them in one collection, so
  that a platform service is shared; six schemas give renames, added
  capabilities and dropped types. Deadlock is checked.
- `Hcp_cluster`: the three generations ask for `{n1}`, `{n2}` and `{n1, n2}`: every
  step has a nodepool to create and one to delete or update. Three faults fail a
  flow, its retry and its cleanup; two restarts also hit a recovered flow.
  `PrereqAttempts = 2` (3 in the code) has a first and a last attempt.
  `LateCreates = FALSE`: a create takes effect, if at all, before anybody looks
  the cluster up again: the 30 s probe, the resolve of a later or recovered flow,
  the lookup of a delete. This is wider than the probe, which the code does not
  reach after a crash or an error.
- `Host_calls`: two callers and two calls cross a start with a stop or another
  start; one exit, one restart attempt (3 in the code) and one timeout.
- `Pipe_drain`: one object through three changes, two generations, one of its
  versions unreadable, two failed batches, one broken watch and one restart. The
  writer keeps objects apart by UID; with one, every interleaving of the three
  channels fits.
- `Disp_safety` and `Disp_live` set `StablePlacement`; section 5 says what happens
  without.

`CHECK_DEADLOCK FALSE`: requests are finite, so every instance ends in a state
where all workflows have returned and nobody calls again; the same holds for
calls, changes and generations in `Managed_names`, `Host_calls`, `Pipe_drain` and
`Hcp_cluster`.

### Fairness

`FairSpec` of `Orchestration`: weak fairness of each workflow. Both engines keep
executing what they accepted (goroutines, or a worker that polls the history).
Users are not fair, and no fault has to happen or to stop, except through its
bound. `FairSpec` of `DeliveryDispatch`: the workflow runs, the server signals
the reports it committed unless it stops, and an agent finishes work it holds:
this last is an assumption on addons that `docs/design/architecture/target_delivery_contract.md`
makes too.

`ManagedResource`: the engine runs every workflow it accepted. `IndexHost`:
goroutines run, and an indexer whose context is cancelled ends (its shutdown has
a deadline); nobody has to call, fail or time out. `InventoryPipeline`: *some*
goroutine goes on while one can; which channel the writer's `select` takes is
free, so `Drains` does not rest on a fair choice. `HcpAgent`: the agent's
goroutines run, CLS ends what it deletes and the outcome of a create is settled,
and the workflow dispatches again what is not acknowledged (its ack timeout).
New generations, faults and restarts are not fair. `AddonManager` has no
liveness: its calls run to their end under one mutex.

## 4. Proofs

`tlapm <module>.tla` checks the proofs of a module. They hold for every value of
the constants that the named `ASSUME` of the component admits (sizes, bounds,
fault budgets); a further hypothesis stands in the theorem and in the table.

| Module | Theorem | States | Hypothesis |
|---|---|---|---|
| `OrchestrationProofs` | `TypeCorrect` | `[]TypeOK` | |
| | `LockHeld` | `[]LockHeldByInstance` | |
| | `ImplementsContractSafety` | `ImplementsContract`, the refinement of `ReconcileContract` | |
| | `ResumesExclude` | `[]CheckedResumesExclude` | |
| | `NoLostWakeUp` | `[]EveryGenerationDriven` | `ReliableMutations` |
| | `InstallsStayTracked` | `[]InstallsTracked` | |
| | `RemovalFollowsTeardown` | `RemovedOnlyWhenTornDown` | |
| `DispatchProofs` | `DispatchTypeCorrect` | `[]TypeOK` | |
| | `OkCyclesAreDone` | `[]CycleOkMeansDone` | `StablePlacement` |
| | `RecordsAreTruthful` | `[]RecordIsTruthful` | `StablePlacement` |
| `StoreProofs` | `StoreTypeCorrect` | `[]TypeOK` | |
| | `SqliteLosesNoMutation` | `[]NoMutationLost` | `Backend = "sqlite"` |
| | `SqliteCommitsAreAtomic` | `CommitsAreAtomicSteps` | `Backend = "sqlite"` |
| | `FinishIsAtomic` | `[]VacantSlotMeansResult` | |
| `ManagedProofs` | `ManagedTypeCorrect` | `[]TypeOK` | |
| | `RowAndFulfillmentPaired` | `[]Paired` | |
| | `GoneAfterTeardown` | `GoneOnlyAfterTeardown` | |
| `AddonProofs` | `AddonTypeCorrect` | `[]TypeOK` | |
| | `ServicesAreAccounted` | `[]ServedIsAccounted` | |
| | `DisableIsComplete` | `[]DisabledIsGone` | |
| | `RoutesAreConnected` | `[]RouteMeansConnected` | |
| | `ConnectedAddonsAreServed` | `[]ConnectedIsServed` | |
| | `FailedConnectKeepsServed` | `FailedConnectPreserves` | |
| `HcpProofs` | `HcpTypeCorrect` | `[]TypeOK` | |
| | `FenceNeverRefusesCurrent` | `[]FenceAdmitsCurrent` | |
| | `ClusterNeverLosesInfra` | `[]ClusterKeepsInfra` | `LateCreates = FALSE` |
| | `RemovedLeavesNothing` | `[]RemovedIsGone` | `LateCreates = FALSE` |
| | `DeliveredHasCluster` | `[]DeliveredIsServed` | `LateCreates = FALSE` |
| `HostProofs` | `HostTypeCorrect` | `[]TypeOK` | |
| | `RunningIndexerIsTracked` | `[]RunningIsTracked` | |
| | `StoppedIndexerStaysDown` | `[]StoppedStaysDown` | |
| `PipelineProofs` | `PipelineTypeCorrect` | `[]TypeOK` | |
| | `LiveObjectsAreCurrent` | `[]LiveIsCurrent` | |
| | `DeletedRowsAreGone` | `[]GoneIsGone` | |
| | `NeverDeletesLiveRows` | `NeverDeletesLive` | |

None of the hypotheses can be dropped: section 5 names, for each, the trace that
breaks the property without it.

- `ReliableMutations`: commits of create and resume keep their answers and
  mutation workflows do not give up. Neither mutation is idempotent.
- `StablePlacement`: a target is not both removed and delivered to in one
  generation. The completion of one would count for the other.
- `Backend = "sqlite"`: postgres is opened READ COMMITTED.
- `LateCreates = FALSE`: a create takes effect, if at all, before the cluster is
  looked up again, by whichever flow. The code does not wait for this.

### The inductive invariants

Every invariant below was also checked with TLC on the constants of the run.

*Lock.* `LockHeldByInstance` says nothing of the place where the instance has
persisted and still has to send its signal, but from there it ends. `LockInv`
adds that the lock is free there unless the pass is to restart.

*Contract.* A persist maps to `Reconcile` (or a stutter when it is repeated)
only if the snapshot's generation lies between the observed and the current one:
`PassInOrder`. Removal maps to `Remove` only if somebody mutated and a pass
settled since: `DeleteFollowsMutation` follows the deleting state from the row
through the pass and the signal to the cleanup workflow. `NothingBeforeCreate`
rules out everything else before the row exists.

*Wake-up.* `EveryGenerationDriven` is not inductive: the create workflow is a
driver only while the generation is the one it wrote (`StrictlyDriven`), until
then nobody else starts the instance (`FirstGenerationWaits`), and a workflow in
its convergence loop knows a generation the row has or had
(`RequestsFollowRow`): if it is superseded, the superseding workflow drives.
The argument step by step: persist keeps driving when the generation moved
(`NeedsRestart`), the instance ends only when it did not, a mutation adds its
own workflow, and that one leaves only when its generation is observed,
superseded, or handed to an instance it started itself.

*Resumes.* `ResumeInv`: no two requests wrote the same generation, none wrote one
the row has not reached, and a checked resume wrote the one after what its
caller saw; two that saw the same would have written the same.

*Teardown.* The theorems have no hypothesis: every outcome, retry, lost result
and pool change is allowed. `NothingForgotten` follows the installed
targets that are not adrift from the row into the pass's snapshot and result and
back to the row, through retries, where the snapshot is dropped and the row must
still name them. `OverIsClean` says that from the pass that persisted a teardown
to the hard delete only what is adrift is installed and neither the row (nothing
paused, no target) nor a pass can bring anything back; this is what a resume or
delete that races the cleanup would have to break.

*Dispatch.* A late signal is harmless because of where it comes from:
`WorkIsRecorded` (agents work only on what a record asked for, now or earlier)
gives `SignalsSound` (a success, queued or not yet sent, is about work that was
done if the record is still at its generation), and `CycleKeepsOperation`, the
only place that needs `StablePlacement`, rules out that it speaks of the other
operation. `CycleProgresses` adds up the targets a cycle no longer waits for.

*Store.* One writer is open (`OneOpen`), its copy is the row or the mutated row
(`CopiesAreFresh`), and the committed mutations are counted by the generation
(`CommittedAreDone`).

*Finish.* The running set follows the run's place, guard.mu is held while it
finishes, and results are one short of starts until the result is delivered.

*Managed resources.* `SignalMeansTornDown`: a cleanup that is about to delete
belongs to a fulfillment whose removal was persisted; `SnapsAreSound` carries
this through the pass; `UnusedAreFresh` and `CallsHoldUsedIds` keep incarnations
apart. `stale` is the exception section 5 describes.

*Addons.* `Sound`: between two calls of the activator its muxes, owners and
platform services follow from the registry. Three lemmas say that `Activate`,
in all three cases, only puts the schema into the registry, that a failed
`Activate` leaves everything as it was, and that `Deactivate` takes out exactly
the given services that are served; the rest of the proof is about the registry
alone. `Backed`: the served name is the recorded one, so a teardown by recorded
name reaches it. `Undo`: whatever this `Connect` registered and is served is in
its compensation; `Kept`: nothing that was served before is. `Known` has the
detail that makes a rename work: a type that was ever activated has a
capability, so a later empty schema is refused and cannot strand its name.
`Live`: a recorded name is served once the `Connect` has come past its type.

*HCP agent.* `WorldInv` ties the cloud to the place of the work: no create is in
flight past the resolve and the probe, so where the flows saw nothing nothing
appears. `VacantInv` says that a removal that is done, or whose result is still
in the outbox, or that left a fence ahead of the platform, left nothing;
`ServedInv` that only a repeat of the same delivery works on a delivered cluster.
`FenceInv` is the single-process part: before a restart removals run inside
their call only.

*Indexing host.* `Goroutines`, `Starting`, `LockHeld` and `Closing` say who may be
where while which lock is held; `Running` is the property. `Quiet` needs that
nobody who `MayStart` is left. `Budget` counts the entries made against calls
and crashes, which bounds the set of entries.

*Inventory pipeline.* `PipelineInv` relates the log of the cluster to the four
places where a version can be: ahead of the informer's cursor, in a channel, in
the writer's memory, in the inventory. Behind it: a UID the log deletes never
comes back, and the channels hold events and LISTs in the order of the log.
`Consistent` says of every version that is pending, sent, stored or reported
that the informer has seen it (it is within `Horizon`), of a retained LIST that
it is true of its revision, and that no LIST the writer would still accept is
older than what the writer knows: the informer watches only after its LIST was
answered. From this a LIST takes away only rows of
objects that are gone (`NeverDeletesLive`). `LiveFollowed` names the place that
holds the newest version of each live object, `GoneFollowed` the place that
holds each deletion the inventory lacks; with nothing on its way they are
`LiveIsCurrent` and `GoneIsGone`. `RowsKnown`, that every row has a name the
writer reported or retains or is one of the exceptions, is what lets a LIST
account for the rows of deleted objects. The invariant is stated
over the components of the state as parameters, so that a step can be taken
apart: an incoming LIST adopts its generation and then commits or is retained, a
flush retries the retained LIST (`ListCommitted`) and then sends what is pending
(`Flushed`), each part from a consistent state to a consistent one.

### Only model-checked

Liveness: `ConvergesAsPromised`, `CycleEnds`, `TornDownIsRemoved`,
`EveryDispatchAnswered`, `CallsReturn`, `Drains`. Fairness is out of the prover's
reach. Every invariant and every safety action property of the runs is stated by
a theorem.

## 5. Behaviours met while modelling

These follow from the code and are outside what the runs claim; each can be seen
by changing constants of a run (start from its `.cfg`), or by reading the lines.

Core:

| Behaviour | Where | How to see it |
|---|---|---|
| a pass that started before a delete committed persists `active` over `deleting`; the next pass re-delivers instead of deleting. The comment above says concurrent mutations "are preserved", a TODO at `delete_deployment.go:46` asks for it | `fulfillment.go:205` | run `Orch_delete` |
| persist also writes the snapshot's credentials over newer ones | `fulfillment.go:210` | the same trace, field `auth` |
| a placement that resolves to no target returns before the delta is computed: previous targets are neither removed nor remembered (`target_delivery_contract.md:96` promises removal) | `orchestration.go:933` | with `LetGo({})` for `LetGo(EmptyPlacement)` both teardown properties fail in `Orch_faults` with one target |
| a resume that is replayed after its commit is refused, and the generation it wrote has no driver | `resume_deployment.go:101` | `Orch_driven` with `LossyActivities = {"resume"}`, `Outcomes = {"auth_failed"}`: `EveryGenerationDriven` fails |
| a create that is replayed after its commit fails on its own row, which stays without orchestration | `create_deployment.go:47` | `Orch_driven` with `"create"` in `LossyActivities`: the same property fails |
| a retryable failure of the first pass persists no target; a delete that follows removes the row and leaves what was installed | `orchestration.go:862`, `:976` | `RetriedPass`, in `Orch_faults` as above |
| a remove step that fails for good or pauses persists the new placement as the resolved targets: what is left on the targets to be removed is not remembered | `orchestration.go:1047`, `:811` | `FailedRemoval`, the same |
| a target that was deregistered while it held manifests makes every remove step fail, and the pass is retried for as long as the target is gone | `orchestration.go:1389`, `infrastructure/delivery/routing.go:70` | `Unroutable` in `RemoveStep` |
| a delete passes by targets that are not registered any more: the row goes, what they hold stays | `orchestration.go:976` | `DeregisteredTargets`, the same |
| a mutation workflow whose activity uses up its attempts after the commit leaves its generation to the next mutation | `mem.go:514` | `Orch_driven` with `AttemptsRunOut = TRUE` |
| a static placement that names an unregistered target retries until it is registered (intended, `releaseLockAndContinue`) | `placement.go:22` | reading |
| a delete that races the hard delete of an earlier one leaves a cleanup workflow nobody signals | `delete_deployment.go:115` | `row = NoRow /\ creator # "persist" ~> cleanup \in {"none", "done"}` fails under `FairSpec` |
| the etag does not change with the pause, which the API shows | `etag.go:76` | `EtagFields` |
| on PostgreSQL two overlapping read-modify-write transactions lose a mutation; `delete_deployment.go:43` counts on "serialized" writes | `postgres/store.go:28` | `Store_sqlite` with `Backend = "postgres"`: `NoMutationLost` fails |
| an agent that restarts with work of a superseded generation does not get it back, and the cycle waits for it for ever (`target_delivery_contract.md:106`) | `delivery_report_service.go:288` | `Disp_live` with `AgentRestarts = {"current", "superseded"}`: `CycleEnds` fails |
| a completion signal lost between commit and signal leaves the cycle waiting (a FIXME in the code says so) | `delivery_report_service.go:198` | `Disp_live` with `LossySignals = {"completed"}`: `CycleEnds` fails |
| after a failed cycle the next generation reaches a target still at work on the old one | `orchestration.go:408` | a state of `Disp_safety` with work of two generations for one target |
| a target removed and delivered to within one generation: one completion counts for the other | `orchestration.go:1239` | `Disp_live` with `StablePlacement = FALSE`: `RecordIsTruthful` fails, and without it in the cfg `CycleOkMeansDone` |
| `Start` takes its channel before the guard, so a run may listen to a channel that was removed from the registry | `mem.go:340` | `running /\ entry # NoChannel => entry = run.ch` fails in `MemWorkflow` |

Managed resources and addons:

| Behaviour | Where | How to see it |
|---|---|---|
| a second delete of one incarnation that starts its cleanup after the first one's has ended makes a cleanup that takes, by name, the row of the resource created since; its fulfillment stays without row | `delete_managed_resource_cleanup.go:47` | `Paired` without `~stale` fails in `Managed_names` |
| the same when the cleanup activity is repeated, which its comment calls idempotent | `delete_managed_resource_cleanup.go:36` | `LossyActivities = {"cleanup"}` |
| an inventory report that arrives after the cleanup makes the row anew, without managed state: the name can neither be created nor deleted by users | `sqlite/extension_resource_repo.go:395` | a state with `row = Unmanaged` |
| the resume workflow's instance ID is name and generation, which repeat across incarnations | `resume_managed_resource.go` | reading |
| two reports of one resource apply in the order of their transactions, whenever they were observed | `inventory_report_service.go:198` | reading |
| a capability added to a definition stays when the connect fails, against the comment at `:178`; the schema without it is refused from then on | `addon_manager.go:639` | a state of `Addon_connect` after `ActivationFails` with a larger `typeDef` |
| a connect that renames the service of a type and then fails takes the old one away and leaves a dead activation in the record; a second failed connect takes it for one that was there before | `addon_manager.go:661` | `FailedConnectPreserves` speaks of `op.kept`, which leaves a renamed schema out |
| services that a connect tore down as stale are not brought back when it fails | `addon_manager.go:208` | reading |
| `Disconnect` checks no state: a disabled addon becomes enabled | `addon_manager.go:397` | `Disconnect` |
| definitions outlive the registration when resources refuse their delete, or across a restart | `addon_manager.go:342` | history variable `orphaned` |

Agents and inventory:

| Behaviour | Where | How to see it |
|---|---|---|
| a create that takes effect after the cluster was looked up again (the probe gave it up, or the flow that sent it crashed and a later flow or delete found none) leaves a cluster without IAM and infrastructure; later deliveries only update it | `gcphcp/reconcile_backend.go:358`, `:447`, `gcphcp/reconcile.go:199` | `Hcp_cluster` with `LateCreates = TRUE`: `ClusterKeepsInfra` fails |
| after a restart, the recovered delete and the workflow's repeated `Remove` of one generation: the first clears the fence and reports, the second sets it again and may fail; generation 1 of the resource created anew is refused until the next restart | `gcphcp/agent.go:422` | `FenceAdmitsCurrent` without `crashes = 0` fails |
| a stale `Remove` is reported `Delivered` | `gcphcp/agent.go:422` | `RefuseStale` |
| a delete interrupted after the cluster ended has no cluster ID and skips the wait for PSC endpoints | `gcphcp/reconcile_backend.go:215` | a state with `work.pc = "destroyInfra"` and `psc` |
| infrastructure that cannot be created leaves the IAM resources until a removal | `gcphcp/reconcile.go:291` | `CreatePrereqFails` |
| recovery passes by a delivery without token. One that is pending waits until it is dispatched again. A removal whose first progress event was committed when the server stopped is progressing, so it is not dispatched again either: it is never answered | `gcphcp/agent.go:154`, `gcphcp/reconcile.go:137`, `orchestration.go:501` | `Crash`; without `Stranded` `EveryDispatchAnswered` fails in `Hcp_cluster` |
| `Deliver` waits for the lock inside the workflow's activity, up to the 55 minutes of a reconcile | `gcphcp/agent.go:271` | `call.pc = "lock"` |
| during the restart backoff no entry is there: a stop returns at once without error and the restart brings the indexer back | `inventory_indexing_runtime.go:415` | `quiet` excludes it (`StoppedStaysDown`) |
| the attempt count is put on the replacement after `EnsureIndexer` returned: an indexer that exits before that has a fresh budget, and the count may go to an entry made since | `inventory_indexing_runtime.go:467` | `proc[e].pc = "carry"` |
| after a stop that timed out the entry is still ready: `EnsureIndexer` of the same input succeeds for an indexer that is about to end | `inventory_indexing_runtime.go:224` | `CallTimesOut` |
| a LIST that overtakes events lets a deleted object's row come back until the next LIST; stored versions can go backwards in between | `inventory_writer.go:211` | `Drained` is needed in `LiveIsCurrent` and `GoneIsGone` |
| the removal of an old generation drops pending work of the new one | `inventory_writer.go:273` | history variable `lost` |
| a retained LIST commits the names computed when it came in; names acknowledged since are forgotten and their rows stay. One way there: the object is listed in a version that cannot be extracted, the batch fails and is retained, an older readable version that was pending is sent and acknowledged, and then the retained batch commits | `inventory_writer.go:850` | history variable `left` (`LeftAfter`); without `m.reported` in it `GoneIsGone` fails with `UIDs = {a, b}`, `Unreadable = {3}`, `MaxChanges = 4`, `MaxGeneration = 1`, `MaxFailures = 2`, `MaxBreaks = 2`, `MaxRestarts = 0` (found by the proof: `Pipe_drain` is too small for it) |
| a refusal of a LIST reaches only informers that are already cancelled: the informer of the running generation is answered with success or waits | `inventory_writer.go:261`, `:764` | a step of the proof |
| the guard that drops an upsert after a delete of the same UID in one batch never fires: a UID does not come back, and the events of one object come in order | `inventory_writer.go:236` | a step of the proof |
| rows of an earlier generation or process stay until a LIST of the new one accounts for them; a batch that committed with an error can leave a row nobody acknowledges | `inventory_writer.go:533` | the same |
| kind: a newer generation, or a removal, that arrives while older work of the delivery is in flight is skipped without an answer and relies on the ack timeout; the mark is removed before the report and again afterwards, which may remove the mark of a redelivery | `kind/agent.go:246` | not modelled, reading |

## 6. Plan

Done: the core, managed resources, addon manager, GCP HCP agent, indexing
runtime and inventory pipeline, and the safety theorems of section 4. Next:

1. `KindAgent`: marks of work in flight and fences of the kind agent, as an
   implementation of the agent of `DeliveryDispatch`.
2. `DeliveryOutputs`: `ProcessDeliveryOutputs`, vault and target registration, the
   cleanup plan of the orchestration: replay is idempotent, no produced target
   or secret outlives its fulfillment.
3. Abstract specifications worth stating: a dispatch cycle as one atomic
   outcome, implemented by `DeliveryDispatch`; one serial history of the row,
   implemented by `FulfillmentStore`.

## 7. Assumptions in one place

- A write activity is atomic: proved for sqlite (`SqliteCommitsAreAtomic`), false
  for postgres.
- At most one instance per fulfillment: the engine's guard (`MemWorkflow`,
  `FinishIsAtomic`).
- A dispatch cycle returns success only when its targets finished
  (`OkCyclesAreDone`, for a placement stable within a generation).
- Mutation workflows do not exhaust their attempts (`AttemptsRunOut = FALSE`) in
  the runs and the theorem about wake-ups; `Orch_faults` and the other
  theorems do without.
- `AddonManager`: service names include the type's singular, so two types never
  share one; one target type per addon (two addons of one target type would
  share a router entry); only `bootstrap/addons.go` calls `Enable` and `Connect`.
- `HcpAgent`: the platform makes one call at a time per fulfillment; recovery
  runs before the workflow workers do (`bootstrap/server.go`); the agent's reports
  arrive; manifests are well formed; a recovered delivery is of the current
  generation (`ListActiveDeliveries` leaves out the others, section 5).
- `IndexHost`: an indexer exits unasked only after a crash or an invalid
  namespace filter; `bootstrap/server.go` cancels the application context before
  it calls `StopAll`, which is why `HostCancelled` is an action of its own.
- `InventoryPipeline`: a UID never comes back, and inventory names are made from
  UIDs; discovery is summed up by start and stop of the kind.

## 8. Not modelled

Of the 97 thousand lines counted as implementation the greater part is code
without a state machine of its own: generated protobuf, repository and workflow
contract tests, proofs of concept under `src/poc`, clients, SDK and deploy tools,
SQL of two backends, the query compiler, transports. A map that covered a third
of them would have to name lines no definition translates; the share stays small
because what is stateful is small.

Attestation and provenance (cryptography, no state machine), OIDC and the key
registry (external services), the query compiler (text generation), transports,
bootstrap and CLI (request mapping), web and CLI clients, extensions, SDK and
deploy tools (outside the core protocol). Of the modelled parts: strategy
versions, provenance, timestamps, manifests and labels as data; rollouts other
than the immediate one; version conflict policies other than the default; trust
bundles; edges of the inventory graph (their sink drops them). The kind,
kubernetes and scripted agents and the outputs of deliveries are planned in
section 6 and marked `not_modelled` in `PROJECT.json`.
