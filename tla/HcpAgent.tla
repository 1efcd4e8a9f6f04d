------------------------------ MODULE HcpAgent ------------------------------
(***************************************************************************)
(* The GCP HCP delivery agent and one hosted cluster: the generation fence *)
(* and the lock of the cluster, the reconciler's create, update and delete *)
(* flows step by step, the cloud resources they leave behind, and what     *)
(* happens when a call fails, its outcome is not known, or the server      *)
(* stops in the middle and recovers its active deliveries.                 *)
(*                                                                         *)
(* The platform side is what DeliveryDispatch.tla looks inside: it makes   *)
(* one call at a time, again when a dispatch is not acknowledged or the    *)
(* pass is repeated, and starts over with generation 1 when the resource   *)
(* is created anew after its removal.                                      *)
(***************************************************************************)
EXTENDS Naturals, FiniteSets

CONSTANTS
    Nodepools,       \* nodepool IDs
    Desired,         \* the nodepools the spec of each generation asks for
    Tokens,          \* whether a generation comes with a caller token
    PrereqAttempts,  \* unconfirmedPrereqMaxAttempts
    LateCreates,     \* a create may take effect after the next lookup of the cluster
    MaxGeneration,   \* bound on generations of one fulfillment
    MaxIncarnations, \* bound on fulfillments for the cluster name
    MaxFaults,       \* bound on failing external calls
    MaxCrashes       \* bound on stops of the server

Generations == 1 .. MaxGeneration
Incarnations == 1 .. MaxIncarnations

ASSUME HcpAssumption ==
    /\ {MaxGeneration, MaxIncarnations, MaxFaults, MaxCrashes, PrereqAttempts} \subseteq Nat
    /\ MaxGeneration >= 1 /\ MaxIncarnations >= 1 /\ PrereqAttempts >= 1
    /\ Desired \in [Generations -> SUBSET Nodepools]
    /\ Tokens \subseteq BOOLEAN /\ Tokens # {}
    /\ LateCreates \in BOOLEAN

VARIABLES
    plat,       \* the delivery as the platform last dispatched it, and its state
    call,       \* the call of Deliver or Remove under way
    clusterGen, \* the fence: highest generation accepted, 0 for none
    work,       \* the goroutine or call that holds the cluster's lock
    outbox,     \* results of removals whose report was handed to a goroutine
    cluster,    \* the cluster in CLS: phase and the version of its spec
    pools,      \* its nodepools, each with the version it was written by
    iam,        \* the IAM resources of the name exist
    infra,      \* the infrastructure of the name exists
    psc,        \* PSC endpoints of the cluster exist
    inflight,   \* a create without an answer that may still take effect: its version
    indexer,    \* the generation whose indexer runs, 0 for none
    faults,
    crashes

world == <<cluster, pools, iam, infra, psc, inflight>>
vars == <<plat, call, clusterGen, work, outbox, world, indexer, faults, crashes>>

Ops == {"deliver", "remove"}
Active == {"pending", "progressing"}
Terminal == {"delivered", "failed", "auth_failed"}
Delivery == [inc : Incarnations, gen : Generations, op : Ops, token : BOOLEAN]

\* What a spec was written by; a later incarnation starts again at 1.
Version(d) == [inc |-> d.inc, gen |-> d.gen]
NoVersion == [inc |-> 0, gen |-> 0]
Versions == [inc : Incarnations, gen : Generations]
Absent == [phase |-> "absent", spec |-> NoVersion]

EnsurePlaces == {"auth", "exchange", "resolve", "update", "iam", "infra", "create", "probe",
                 "repairIam", "repairInfra", "repairUpdate", "cleanup",
                 "nodepools", "ready", "register", "healthy", "index"}
DeletePlaces == {"stop", "auth", "exchange", "resolve", "gone", "psc", "destroyInfra", "destroyIam"}

NoCall == [pc |-> "none"]
NoWork == [pc |-> "none"]

TypeOK ==
    /\ plat \in [d : Delivery, state : Active \cup Terminal]
    /\ call \in {NoCall} \cup [pc : {"accept", "lock", "busy"}, d : Delivery]
    /\ clusterGen \in 0 .. MaxGeneration
    /\ work \in {NoWork}
         \cup [pc : EnsurePlaces \cup DeletePlaces, d : Delivery, sync : BOOLEAN,
               tries : 0 .. PrereqAttempts - 1]
    /\ outbox \subseteq Delivery
    /\ cluster \in {Absent} \cup [phase : {"up", "deleting"}, spec : Versions]
    /\ pools \subseteq [id : Nodepools, spec : Versions]
    /\ {iam, infra, psc} \subseteq BOOLEAN
    /\ inflight \in Versions \cup {NoVersion}
    /\ indexer \in 0 .. MaxGeneration
    /\ faults \in 0 .. MaxFaults /\ crashes \in 0 .. MaxCrashes

First(inc, op, tok) == [inc |-> inc, gen |-> 1, op |-> op, token |-> tok]

Init ==
    /\ \E tok \in Tokens : plat = [d |-> First(1, "deliver", tok), state |-> "pending"]
    /\ call = [pc |-> "accept", d |-> plat.d]
    /\ clusterGen = 0 /\ work = NoWork /\ outbox = {}
    /\ cluster = Absent /\ pools = {}
    /\ iam = FALSE /\ infra = FALSE /\ psc = FALSE
    /\ inflight = NoVersion /\ indexer = 0
    /\ faults = 0 /\ crashes = 0

---------------------------------------------------------------------------
(* The platform: DeliverToTarget and RemoveFromTarget, one call at a time. *)

Dispatch(d) ==
    /\ call = NoCall
    /\ plat' = [d |-> d, state |-> "pending"]
    /\ call' = [pc |-> "accept", d |-> d]
    /\ UNCHANGED <<clusterGen, work, outbox, world, indexer, faults, crashes>>

\* A mutation; the work of the generation before may not have ended.
NewGeneration ==
    /\ plat.d.gen < MaxGeneration
    /\ \E op \in Ops, tok \in Tokens :
          Dispatch([plat.d EXCEPT !.gen = @ + 1, !.op = op, !.token = tok])

\* No ack came in time, or the pass is run again.
Redispatch == plat.state \in {"pending", "failed", "delivered"} /\ Dispatch(plat.d)

\* The resource was removed and is created anew.
Recreate ==
    /\ plat.d.op = "remove" /\ plat.state = "delivered"
    /\ plat.d.inc < MaxIncarnations
    /\ \E tok \in Tokens : Dispatch(First(plat.d.inc + 1, "deliver", tok))

\* ReportResult: the first terminal report of the current dispatch counts.
Report(d, result) ==
    plat' = [plat EXCEPT !.state = IF plat.d = d /\ @ \in Active THEN result ELSE @]
\* ReportEvent.
Progress(d) ==
    plat' = [plat EXCEPT !.state = IF plat.d = d /\ @ = "pending" THEN "progressing" ELSE @]

RemovalReported(d) ==
    /\ d \in outbox
    /\ Report(d, "delivered") /\ outbox' = outbox \ {d}
    /\ UNCHANGED <<call, clusterGen, work, world, indexer, faults, crashes>>

---------------------------------------------------------------------------
(* Deliver and Remove up to the lock.                                      *)

acceptGeneration(gen) == gen >= clusterGen

\* A removal that is refused is reported as done all the same.
RefuseStale ==
    /\ call.pc = "accept" /\ ~acceptGeneration(call.d.gen)
    /\ IF call.d.op = "deliver"
       THEN Report(call.d, "failed") /\ UNCHANGED outbox
       ELSE outbox' = outbox \cup {call.d} /\ UNCHANGED plat
    /\ call' = NoCall
    /\ UNCHANGED <<clusterGen, work, world, indexer, faults, crashes>>

Accept ==
    /\ call.pc = "accept" /\ acceptGeneration(call.d.gen)
    /\ clusterGen' = call.d.gen
    /\ IF call.d.op = "deliver" /\ ~call.d.token
       THEN Report(call.d, "auth_failed") /\ call' = NoCall
       ELSE call' = [call EXCEPT !.pc = "lock"] /\ UNCHANGED plat
    /\ UNCHANGED <<work, outbox, world, indexer, faults, crashes>>

Started(d, sync) ==
    [pc |-> IF d.op = "deliver" THEN "auth" ELSE "stop", d |-> d, sync |-> sync, tries |-> 0]

\* A delivery goes on in a goroutine that owns the lock, a removal in the call.
TakeLock ==
    /\ call.pc = "lock" /\ work = NoWork
    /\ work' = Started(call.d, call.d.op = "remove")
    /\ call' = IF call.d.op = "remove" THEN [call EXCEPT !.pc = "busy"] ELSE NoCall
    /\ UNCHANGED <<plat, clusterGen, outbox, world, indexer, faults, crashes>>

---------------------------------------------------------------------------
(* Steps of the work.                                                      *)

At(op, place) == work.pc = place /\ work.d.op = op
Goto(place) == work' = [work EXCEPT !.pc = place, !.tries = 0]
Unlock == work' = NoWork /\ call' = IF work.sync THEN NoCall ELSE call

Finish(result) == Unlock /\ Report(work.d, result) /\ UNCHANGED <<clusterGen, outbox, indexer>>
\* Any of the calls may meet expired credentials.
Fails == \E result \in {"failed", "auth_failed"} : Finish(result)
Continue(place) == Goto(place) /\ UNCHANGED <<plat, call, clusterGen, outbox, indexer>>
Fault == faults < MaxFaults /\ faults' = faults + 1
NoFault == faults' = faults

\* An external call fails that changes nothing, and the flow returns its error.
StepFails ==
    /\ work # NoWork
    /\ work.pc \in {"exchange", "resolve", "probe", "ready", "register", "healthy", "gone", "psc"}
    /\ work.pc = "exchange" => work.d.token
    /\ Fault /\ Fails
    /\ UNCHANGED <<world, crashes>>

\* exchangeAndCreateClient commits a progress event first, which acknowledges
\* the dispatch, whether there is a token to exchange or not.
AnnounceExchange ==
    /\ work.pc = "auth"
    /\ Progress(work.d) /\ Goto("exchange") /\ NoFault
    /\ UNCHANGED <<call, clusterGen, outbox, indexer, world, crashes>>

Exchange ==
    /\ work.pc = "exchange" /\ work.d.token
    /\ Continue("resolve") /\ NoFault
    /\ UNCHANGED <<world, crashes>>

\* A removal without a caller token; a delivery without one was refused before.
ExchangeRefused ==
    /\ work.pc = "exchange" /\ ~work.d.token
    /\ Finish("auth_failed") /\ NoFault
    /\ UNCHANGED <<world, crashes>>

---------------------------------------------------------------------------
(* Reconciler.Ensure.                                                      *)

Exists == cluster # Absent
\* No create is still on its way, unless those may take effect at any time.
\* The code does not wait: without LateCreates this is the assumption that a
\* create takes effect, if it does, before anybody looks the cluster up again:
\* the probe, but also the flow that comes after a crash, a probe that errored
\* or a delivery that ended.
Answered == LateCreates \/ inflight = NoVersion

EnsureResolves ==
    /\ At("deliver", "resolve") /\ Answered
    /\ Continue(IF Exists THEN "update" ELSE "iam")
    /\ NoFault /\ UNCHANGED <<world, crashes>>

\* GetCluster and UpdateCluster; the cluster may have ended since.
UpdateCluster ==
    /\ work.pc \in {"update", "repairUpdate"}
    /\ IF Exists
       THEN /\ cluster' = [cluster EXCEPT !.spec = Version(work.d)]
            /\ Continue("nodepools")
       ELSE Finish("failed") /\ UNCHANGED cluster
    /\ NoFault /\ UNCHANGED <<pools, iam, infra, psc, inflight, crashes>>

\* An update that fails may have done its work.
UpdateFails ==
    /\ work.pc \in {"update", "repairUpdate"} /\ Exists
    /\ \E v \in {cluster.spec, Version(work.d)} : cluster' = [cluster EXCEPT !.spec = v]
    /\ Fault /\ Fails
    /\ UNCHANGED <<pools, iam, infra, psc, inflight, crashes>>

\* retryUnconfirmedPrereqCreate: an attempt that fails may have done its work.
NextOf == [iam |-> "infra", infra |-> "create",
           repairIam |-> "repairInfra", repairInfra |-> "repairUpdate"]
Makes(there) == IF work.pc \in {"iam", "repairIam"}
                THEN iam' = there /\ UNCHANGED infra
                ELSE infra' = there /\ UNCHANGED iam
Made == IF work.pc \in {"iam", "repairIam"} THEN iam ELSE infra

CreatePrereq ==
    /\ work.pc \in DOMAIN NextOf
    /\ Makes(TRUE) /\ Continue(NextOf[work.pc]) /\ NoFault
    /\ UNCHANGED <<cluster, pools, psc, inflight, crashes>>

\* A wrong version: one attempt too many.
CreatePrereqFailsOnceMore ==
    /\ work.pc \in DOMAIN NextOf
    /\ Fault
    /\ \E there \in {Made, TRUE} : Makes(there)
    /\ IF work.tries = PrereqAttempts
       THEN Fails
       ELSE /\ work' = [work EXCEPT !.tries = @ + 1]
            /\ UNCHANGED <<plat, call, clusterGen, outbox, indexer>>
    /\ UNCHANGED <<cluster, pools, psc, inflight, crashes>>

CreatePrereqFails ==
    /\ work.pc \in DOMAIN NextOf
    /\ Fault
    /\ \E there \in {Made, TRUE} : Makes(there)
    /\ IF work.tries + 1 = PrereqAttempts
       THEN Fails
       ELSE /\ work' = [work EXCEPT !.tries = @ + 1]
            /\ UNCHANGED <<plat, call, clusterGen, outbox, indexer>>
    /\ UNCHANGED <<cluster, pools, psc, inflight, crashes>>

Created(v) == cluster' = [phase |-> "up", spec |-> v] /\ psc' = TRUE

CreateCluster ==
    /\ work.pc = "create"
    /\ ~Exists
    /\ Created(Version(work.d)) /\ Continue("nodepools") /\ NoFault
    /\ UNCHANGED <<pools, iam, infra, inflight, crashes>>

\* The spec cannot be built, or CLS answers 400, 401 or 403: nothing was made.
CreateRefused ==
    /\ work.pc = "create"
    /\ Fault /\ Continue("cleanup")
    /\ UNCHANGED <<world, crashes>>

\* A wrong version: every error of the create is taken for a refusal.
CreateUnconfirmedCleansUp ==
    /\ work.pc = "create"
    /\ Fault
    /\ inflight' \in {NoVersion, Version(work.d)}
    /\ Continue("cleanup")
    /\ UNCHANGED <<cluster, pools, iam, infra, psc, crashes>>

\* Any other error, or an answer without ID: the create may come true later.
CreateUnconfirmed ==
    /\ work.pc = "create"
    /\ Exists \/ faults < MaxFaults
    /\ faults' = IF Exists THEN faults ELSE faults + 1
    /\ inflight' \in {NoVersion, Version(work.d)}
    /\ Continue("probe")
    /\ UNCHANGED <<cluster, pools, iam, infra, psc, crashes>>

\* resolveClusterAfterUnconfirmedCreate.
ProbeFinds ==
    /\ work.pc = "probe" /\ Exists
    /\ Continue("repairIam") /\ NoFault
    /\ UNCHANGED <<world, crashes>>

ProbeTimesOut ==
    /\ work.pc = "probe" /\ ~Exists /\ Answered
    /\ Continue("cleanup") /\ NoFault
    /\ UNCHANGED <<world, crashes>>

\* cleanupCreateResources tries both whatever becomes of the first.
CleanupCreate ==
    /\ work.pc = "cleanup"
    /\ infra' \in {FALSE, infra} /\ iam' \in {FALSE, iam}
    /\ IF infra' \/ iam' THEN Fault ELSE NoFault
    /\ Fails
    /\ UNCHANGED <<cluster, pools, psc, inflight, crashes>>

---------------------------------------------------------------------------
(* reconcileNodepools: create what is missing, update what is there, then  *)
(* delete what is no longer desired.                                       *)

Ids(ps) == {p.id : p \in ps}
Missing == Desired[work.d.gen] \ Ids(pools)
Present == Desired[work.d.gen] \cap Ids(pools)
Removed == Ids(pools) \ Desired[work.d.gen]

PoolsAfter(adds, updates, deletes) ==
    {p \in pools : p.id \notin updates \cup deletes}
      \cup [id : adds \cup updates, spec : {Version(work.d)}]

\* A wrong version: nodepools that are no longer desired stay.
ReconcileNodepoolsKeeps ==
    /\ work.pc = "nodepools"
    /\ IF Exists
       THEN pools' = PoolsAfter(Missing, Present, {}) /\ Continue("ready")
       ELSE UNCHANGED pools /\ Finish("failed")
    /\ NoFault /\ UNCHANGED <<cluster, iam, infra, psc, inflight, crashes>>

ReconcileNodepools ==
    /\ work.pc = "nodepools"
    /\ IF Exists
       THEN pools' = PoolsAfter(Missing, Present, Removed) /\ Continue("ready")
       ELSE UNCHANGED pools /\ Finish("failed")
    /\ NoFault /\ UNCHANGED <<cluster, iam, infra, psc, inflight, crashes>>

\* One of the calls fails; those before it stay done.
ReconcileNodepoolsFails ==
    /\ work.pc = "nodepools" /\ Exists
    /\ Fault /\ Fails
    /\ \/ \E a \in SUBSET Missing : pools' = PoolsAfter(a, {}, {})
       \/ \E u \in SUBSET Present : pools' = PoolsAfter(Missing, u, {})
       \/ \E r \in SUBSET Removed : pools' = PoolsAfter(Missing, Present, r)
    /\ UNCHANGED <<cluster, iam, infra, psc, inflight, crashes>>

---------------------------------------------------------------------------
(* The rest of Ensure waits for the cluster; then the indexer.             *)

AfterWait == [ready |-> "register", register |-> "healthy", healthy |-> "index"]

\* PollClusterReady, completeGuestRegistration, PollDesiredNodepoolsHealthy.
AwaitCluster ==
    /\ work.pc \in DOMAIN AfterWait
    /\ \/ cluster.phase = "up" /\ Continue(AfterWait[work.pc])
       \/ cluster.phase = "absent" /\ Finish("failed")
    /\ NoFault /\ UNCHANGED <<world, crashes>>

\* deliverAsync: EnsureIndexer before Delivered.
EnsureIndexer ==
    /\ work.pc = "index"
    /\ \/ NoFault /\ indexer' = work.d.gen /\ Report(work.d, "delivered")
       \/ Fault /\ UNCHANGED indexer /\ Report(work.d, "failed")
    /\ Unlock
    /\ UNCHANGED <<clusterGen, outbox, world, crashes>>

---------------------------------------------------------------------------
(* Reconciler.Delete, in Remove and in deleteAsync.                        *)

\* stopIndexer discards its error.
StopIndexer ==
    /\ work.pc = "stop"
    /\ \/ NoFault /\ indexer' = 0
       \/ Fault /\ UNCHANGED indexer
    /\ Goto("auth")
    /\ UNCHANGED <<plat, call, clusterGen, outbox, world, crashes>>

\* A wrong version: without a cluster there is no infrastructure to destroy.
DeleteClusterSkipsInfra ==
    /\ At("remove", "resolve") /\ Answered
    /\ IF Exists
       THEN cluster' = [cluster EXCEPT !.phase = "deleting"] /\ Continue("gone")
       ELSE UNCHANGED cluster /\ Continue("destroyIam")
    /\ NoFault /\ UNCHANGED <<pools, iam, infra, psc, inflight, crashes>>

\* deleteClusterIfPresent: a cluster that is gone has no ID to wait with.
DeleteCluster ==
    /\ At("remove", "resolve") /\ Answered
    /\ IF Exists
       THEN cluster' = [cluster EXCEPT !.phase = "deleting"] /\ Continue("gone")
       ELSE UNCHANGED cluster /\ Continue("destroyInfra")
    /\ NoFault /\ UNCHANGED <<pools, iam, infra, psc, inflight, crashes>>

\* So may a delete; a failed resolve is one of StepFails.
DeleteClusterFails ==
    /\ At("remove", "resolve") /\ Exists
    /\ cluster' = [cluster EXCEPT !.phase = "deleting"]
    /\ Fault /\ Fails
    /\ UNCHANGED <<pools, iam, infra, psc, inflight, crashes>>

\* The cluster ends between the two requests of deleteClusterIfPresent.
DeleteFindsNone ==
    /\ At("remove", "resolve") /\ cluster.phase = "deleting"
    /\ cluster' = Absent /\ pools' = {}
    /\ Continue("psc")
    /\ NoFault /\ UNCHANGED <<iam, infra, psc, inflight, crashes>>

PollClusterDeleted ==
    /\ work.pc = "gone" /\ ~Exists
    /\ Continue("psc")
    /\ NoFault /\ UNCHANGED <<world, crashes>>

WaitForPSCCleanup ==
    /\ work.pc = "psc" /\ ~psc
    /\ Continue("destroyInfra")
    /\ NoFault /\ UNCHANGED <<world, crashes>>

DestroyInfra ==
    /\ work.pc = "destroyInfra"
    /\ infra' = FALSE /\ Continue("destroyIam")
    /\ NoFault /\ UNCHANGED <<cluster, pools, iam, psc, inflight, crashes>>

\* A wrong version: the fence remembers a cluster that is gone.
DestroyIAMKeepsFence ==
    /\ work.pc = "destroyIam"
    /\ iam' = FALSE /\ Unlock
    /\ IF work.sync
       THEN outbox' = outbox \cup {work.d} /\ UNCHANGED plat
       ELSE Report(work.d, "delivered") /\ UNCHANGED outbox
    /\ NoFault /\ UNCHANGED <<clusterGen, cluster, pools, infra, psc, inflight, indexer, crashes>>

\* The fence forgets the cluster; Remove unlocks before it reports.
DestroyIAM ==
    /\ work.pc = "destroyIam"
    /\ iam' = FALSE /\ clusterGen' = 0 /\ Unlock
    /\ IF work.sync
       THEN outbox' = outbox \cup {work.d} /\ UNCHANGED plat
       ELSE Report(work.d, "delivered") /\ UNCHANGED outbox
    /\ NoFault /\ UNCHANGED <<cluster, pools, infra, psc, inflight, indexer, crashes>>

\* A destroy that fails may have done its work.
DestroyFails ==
    /\ \/ work.pc = "destroyInfra" /\ infra' \in {FALSE, infra} /\ UNCHANGED iam
       \/ work.pc = "destroyIam" /\ iam' \in {FALSE, iam} /\ UNCHANGED infra
    /\ Fault /\ Fails
    /\ UNCHANGED <<cluster, pools, psc, inflight, crashes>>

---------------------------------------------------------------------------
(* CLS and the server around them.                                         *)

CreateTakesEffect ==
    /\ inflight # NoVersion
    /\ \/ ~Exists /\ Created(inflight)
       \/ UNCHANGED <<cluster, psc>>
    /\ inflight' = NoVersion
    /\ UNCHANGED <<plat, call, clusterGen, work, outbox, pools, iam, infra, indexer, faults, crashes>>

ClusterEnds ==
    /\ cluster.phase = "deleting"
    /\ cluster' = Absent /\ pools' = {}
    /\ UNCHANGED <<plat, call, clusterGen, work, outbox, iam, infra, psc, inflight, indexer,
                   faults, crashes>>

PscEnds ==
    /\ psc /\ ~Exists
    /\ psc' = FALSE
    /\ UNCHANGED <<plat, call, clusterGen, work, outbox, cluster, pools, iam, infra, inflight,
                   indexer, faults, crashes>>

\* A wrong version: active deliveries are left to the workflow.
CrashForgets ==
    /\ crashes < MaxCrashes
    /\ crashes' = crashes + 1
    /\ call' = NoCall /\ outbox' = {} /\ indexer' = 0
    /\ clusterGen' = 0 /\ work' = NoWork
    /\ UNCHANGED <<plat, world, faults>>

\* The server stops and starts again: RecoverActiveDeliveries runs before the
\* workflows do.  It passes by a delivery without token.
Crash ==
    /\ crashes < MaxCrashes
    /\ crashes' = crashes + 1
    /\ call' = NoCall /\ outbox' = {} /\ indexer' = 0
    /\ IF plat.state \in Active
       THEN /\ clusterGen' = plat.d.gen
            /\ work' = IF plat.d.token THEN Started(plat.d, FALSE) ELSE NoWork
       ELSE clusterGen' = 0 /\ work' = NoWork
    /\ UNCHANGED <<plat, world, faults>>

---------------------------------------------------------------------------

Platform == NewGeneration \/ Redispatch \/ Recreate
CallStep == RefuseStale \/ Accept \/ TakeLock
WorkStep ==
    \/ AnnounceExchange \/ Exchange \/ ExchangeRefused \/ StepFails
    \/ EnsureResolves \/ UpdateCluster \/ UpdateFails \/ CreatePrereq \/ CreatePrereqFails
    \/ CreateCluster \/ CreateRefused \/ CreateUnconfirmed \/ ProbeFinds \/ ProbeTimesOut
    \/ CleanupCreate \/ ReconcileNodepools \/ ReconcileNodepoolsFails \/ AwaitCluster
    \/ EnsureIndexer \/ StopIndexer \/ DeleteCluster \/ DeleteClusterFails \/ DeleteFindsNone
    \/ PollClusterDeleted \/ WaitForPSCCleanup \/ DestroyInfra \/ DestroyIAM \/ DestroyFails
ClsStep == CreateTakesEffect \/ ClusterEnds \/ PscEnds

Next ==
    \/ Platform \/ CallStep \/ WorkStep \/ ClsStep
    \/ \E d \in outbox : RemovalReported(d)
    \/ Crash

Spec == Init /\ [][Next]_vars

\* The agent's goroutines run, CLS ends what it deletes and answers what it
\* was asked, and the workflow dispatches again what is not acknowledged.
FairSpec ==
    /\ Spec
    /\ WF_vars(CallStep) /\ WF_vars(WorkStep) /\ WF_vars(ClsStep)
    /\ WF_vars(\E d \in outbox : RemovalReported(d))
    /\ WF_vars(plat.state = "pending" /\ Redispatch)

---------------------------------------------------------------------------

\* A cluster that exists keeps its IAM resources and infrastructure: neither
\* the cleanup after a failed or unconfirmed create nor a delete that was
\* interrupted takes them away from under it.
ClusterKeepsInfra == Exists => iam /\ infra

\* A delivery that counts as delivered has its cluster: the spec and exactly
\* the nodepools of that generation, and no indexer of another one.
DeliveredIsServed ==
    plat.state = "delivered" /\ plat.d.op = "deliver" =>
        /\ cluster = [phase |-> "up", spec |-> Version(plat.d)]
        /\ pools = [id : Desired[plat.d.gen], spec : {Version(plat.d)}]
        /\ indexer \in {0, plat.d.gen}

\* A removal that counts as delivered has left nothing to pay for.
RemovedIsGone ==
    plat.state = "delivered" /\ plat.d.op = "remove" => ~Exists /\ ~iam /\ ~infra

\* The fence is against late calls: until the server stops, what the platform
\* dispatches is never refused, whichever generations and incarnations came
\* before.
FenceAdmitsCurrent == crashes = 0 /\ call.pc = "accept" => acceptGeneration(call.d.gen)

\* A removal without token that was acknowledged when the server stopped:
\* recovery passes it by and RemoveFromTarget does not dispatch it again.
Stranded ==
    /\ crashes > 0 /\ work = NoWork
    /\ plat.state = "progressing" /\ plat.d.op = "remove" /\ ~plat.d.token

\* Every dispatch is answered, also when the server stops on the way, but for
\* a removal without token that the server stopped on between its first
\* progress event and the refusal of its empty token.
EveryDispatchAnswered == plat.state \in Active ~> plat.state \in Terminal \/ Stranded
=============================================================================
