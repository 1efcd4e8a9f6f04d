----------------------------- MODULE HcpProofs -----------------------------
(***************************************************************************)
(* What HcpAgent.tla checks for two nodepools, three generations and two   *)
(* incarnations, proved for any number of them, of failing calls and of    *)
(* stops of the server.                                                    *)
(***************************************************************************)
EXTENDS HcpAgent, TLAPS

PlatRec == [d : Delivery, state : Active \cup Terminal]
CallRec == [pc : {"accept", "lock", "busy"}, d : Delivery]
Places  == EnsurePlaces \cup DeletePlaces
WorkRec == [pc : Places, d : Delivery, sync : BOOLEAN, tries : 0 .. PrereqAttempts - 1]

-----------------------------------------------------------------------------
(* The invariant: types                                                    *)

WorldTypes ==
    /\ cluster \in {Absent} \cup [phase : {"up", "deleting"}, spec : Versions]
    /\ pools \subseteq [id : Nodepools, spec : Versions]
    /\ iam \in BOOLEAN /\ infra \in BOOLEAN /\ psc \in BOOLEAN
    /\ inflight \in Versions \cup {NoVersion}

Types ==
    /\ plat \in PlatRec
    /\ call \in {NoCall} \cup CallRec
    /\ clusterGen \in 0 .. MaxGeneration
    /\ work \in {NoWork} \cup WorkRec
    /\ outbox \subseteq Delivery
    /\ WorldTypes
    /\ indexer \in 0 .. MaxGeneration
    /\ faults \in 0 .. MaxFaults /\ crashes \in 0 .. MaxCrashes

-----------------------------------------------------------------------------
(* The invariant: calls, the lock and the fence                            *)

\* The call under way is the platform's last dispatch; a removal holds the lock
\* inside its call, and it is past "pending" once it exchanged credentials.
CallsAndLock ==
    /\ call # NoCall => call.d = plat.d
    /\ call.pc = "busy" => work # NoWork /\ work.sync
    /\ call.pc \in {"lock", "busy"} => clusterGen <= plat.d.gen
    /\ work # NoWork =>
          /\ work.pc \in IF work.d.op = "deliver" THEN EnsurePlaces ELSE DeletePlaces
          /\ work.sync => /\ call = [pc |-> "busy", d |-> work.d] /\ work.d.op = "remove"
                          /\ work.pc \notin {"stop", "auth"} => plat.state # "pending"

\* Results wait in the outbox for removals of the last dispatch or of earlier
\* ones.
OutboxIsOfThePast ==
    \A d \in outbox :
       /\ d.op = "remove"
       /\ d = plat.d \/ d.inc < plat.d.inc \/ (d.inc = plat.d.inc /\ d.gen < plat.d.gen)

\* Until the server stops, a removal runs in its call only; so its result is
\* out, and the fence forgotten, before the platform can dispatch again.
FenceInv ==
    crashes = 0 =>
       /\ clusterGen <= plat.d.gen
       /\ work # NoWork /\ ~work.sync => work.d.op = "deliver"
       /\ plat.d.op = "remove" /\ call # NoCall => plat.state \in Active
       /\ plat.d.op = "remove" /\ plat.state = "delivered" => clusterGen = 0
       /\ plat.d \in outbox => call = NoCall /\ clusterGen = 0 /\ plat.state = "progressing"

-----------------------------------------------------------------------------
(* The invariant: the cloud resources                                      *)

ServedPools(d) == [id : Desired[d.gen], spec : {Version(d)}]
Up(d) == [phase |-> "up", spec |-> Version(d)]

\* Where the work is tells what is there: no create is on its way past the
\* resolve and the probe, so nothing appears where the flows saw nothing.
WorldInv ==
    /\ Exists => inflight = NoVersion /\ iam /\ infra
    /\ inflight # NoVersion =>
          iam /\ infra /\ work.pc \in {"none", "stop", "auth", "exchange", "resolve", "probe"}
    /\ work.pc \in {"iam", "infra", "create", "cleanup", "psc", "destroyInfra", "destroyIam"}
          => ~Exists
    /\ work.pc = "infra" => iam
    /\ work.pc = "create" => iam /\ infra
    /\ work.pc = "destroyIam" => ~infra
    /\ work.pc = "nodepools" /\ Exists => cluster.spec = Version(work.d)
    /\ work.pc = "ready" /\ Exists => cluster.spec = Version(work.d) /\ pools = ServedPools(work.d)
    /\ work.pc \in {"register", "healthy", "index"}
          => cluster = Up(work.d) /\ pools = ServedPools(work.d)

\* Nothing is there and nobody is about to make anything.
Vacant == /\ ~Exists /\ ~iam /\ ~infra /\ inflight = NoVersion
          /\ work # NoWork => work.d.op = "remove"

\* A removal that is done, or whose result is on its way, left nothing; and a
\* fence ahead of the platform is one that outlived its cluster.
VacantInv ==
    /\ plat.d.op = "remove" /\ plat.state = "delivered" => Vacant
    /\ plat.d \in outbox => Vacant
    /\ clusterGen > plat.d.gen => Vacant

\* While a delivery counts as delivered, the lock is free or held by a repeated
\* dispatch of the same delivery, which finds everything as it should be.
ServedInv ==
    plat.d.op = "deliver" /\ plat.state = "delivered" =>
       /\ cluster = Up(plat.d) /\ pools = ServedPools(plat.d) /\ indexer \in {0, plat.d.gen}
       /\ work # NoWork =>
             /\ work.d = plat.d
             /\ work.pc \in {"auth", "exchange", "resolve", "update", "nodepools", "ready", "register",
                             "healthy", "index"}

-----------------------------------------------------------------------------
(* Facts about the pieces                                                  *)

LEMMA TypesAreTypeOK == Types => TypeOK
BY DEF Types, WorldTypes, TypeOK, PlatRec, CallRec, WorkRec, Places

LEMMA ConstantFacts ==
    /\ MaxGeneration \in Nat /\ MaxGeneration >= 1 /\ MaxIncarnations \in Nat /\ MaxIncarnations >= 1
    /\ MaxFaults \in Nat /\ MaxCrashes \in Nat /\ PrereqAttempts \in Nat /\ PrereqAttempts >= 1
    /\ 0 \in 0 .. PrereqAttempts - 1
    /\ Desired \in [Generations -> SUBSET Nodepools] /\ Tokens \subseteq BOOLEAN
BY HcpAssumption

LEMMA DeliveryFields ==
    ASSUME NEW d \in Delivery
    PROVE  /\ d.inc \in Incarnations /\ d.gen \in Generations /\ d.op \in {"deliver", "remove"}
           /\ d.token \in BOOLEAN
           /\ d.inc \in Nat /\ d.gen \in Nat /\ d.gen \in 0 .. MaxGeneration /\ d.gen >= 1
           /\ Version(d) \in Versions
<1>1. d.inc \in Incarnations /\ d.gen \in Generations /\ d.op \in {"deliver", "remove"}
      /\ d.token \in BOOLEAN
  BY DEF Delivery, Ops
<1> QED BY <1>1, ConstantFacts DEF Incarnations, Generations, Version, Versions

\* No work has no place; any other work is a record.
LEMMA WorkFacts ==
    ASSUME work \in {NoWork} \cup WorkRec
    PROVE  /\ NoWork.pc = "none" /\ NoWork \notin WorkRec
           /\ work = NoWork <=> work.pc = "none"
           /\ work # NoWork => /\ work \in WorkRec /\ work.pc \in Places /\ work.d \in Delivery
                               /\ work.sync \in BOOLEAN /\ work.tries \in 0 .. PrereqAttempts - 1
<1>1. NoWork.pc = "none" /\ "none" \notin Places
  BY DEF NoWork, Places, EnsurePlaces, DeletePlaces
<1>2. \A q \in WorkRec : /\ q.pc \in Places /\ q.d \in Delivery
                         /\ q.sync \in BOOLEAN /\ q.tries \in 0 .. PrereqAttempts - 1
  BY DEF WorkRec
<1> QED BY <1>1, <1>2

\* The same of calls.
LEMMA CallFacts ==
    ASSUME call \in {NoCall} \cup CallRec
    PROVE  /\ NoCall.pc = "none" /\ NoCall \notin CallRec
           /\ call = NoCall <=> call.pc = "none"
           /\ call # NoCall => /\ call \in CallRec /\ call.d \in Delivery
                               /\ call.pc \in {"accept", "lock", "busy"}
<1>1. NoCall.pc = "none"
  BY DEF NoCall
<1>2. \A q \in CallRec : q.pc \in {"accept", "lock", "busy"} /\ q.d \in Delivery
  BY DEF CallRec
<1> QED BY <1>1, <1>2

\* A report moves the state of the platform's delivery only if it is about that
\* very dispatch and none was terminal before.
LEMMA ReportFacts ==
    ASSUME plat \in PlatRec, NEW d, NEW r \in Terminal, Report(d, r)
    PROVE  /\ plat' \in PlatRec /\ plat'.d = plat.d
           /\ plat'.state = plat.state \/ (plat.d = d /\ plat.state \in Active /\ plat'.state = r)
<1> DEFINE s == IF plat.d = d /\ plat.state \in Active THEN r ELSE plat.state
<1>1. plat' = [plat EXCEPT !.state = s]
  BY DEF Report
<1>2. s \in Active \cup Terminal
  BY DEF PlatRec
<1>3. s = plat.state \/ (plat.d = d /\ plat.state \in Active /\ s = r)
  OBVIOUS
<1> HIDE DEF s
<1> QED BY <1>1, <1>2, <1>3 DEF PlatRec

LEMMA ProgressFacts ==
    ASSUME plat \in PlatRec, NEW d, Progress(d)
    PROVE  /\ plat' \in PlatRec /\ plat'.d = plat.d
           /\ plat'.state = plat.state \/ (plat.state = "pending" /\ plat'.state = "progressing")
           /\ plat.d = d => plat'.state # "pending"
<1> DEFINE s == IF plat.d = d /\ plat.state = "pending" THEN "progressing" ELSE plat.state
<1>1. plat' = [plat EXCEPT !.state = s]
  BY DEF Progress
<1>2. s \in Active \cup Terminal
  BY DEF PlatRec, Active
<1>3. s = plat.state \/ (plat.state = "pending" /\ s = "progressing")
  OBVIOUS
<1>4. plat.d = d => s # "pending"
  OBVIOUS
<1> HIDE DEF s
<1> QED BY <1>1, <1>2, <1>3, <1>4 DEF PlatRec

LEMMA GotoFacts ==
    ASSUME work \in WorkRec, NEW place \in Places, Goto(place)
    PROVE  work' \in WorkRec /\ work'.pc = place /\ work'.d = work.d /\ work'.sync = work.sync
BY ConstantFacts DEF Goto, WorkRec

LEMMA StartedFacts ==
    ASSUME NEW d \in Delivery, NEW sync \in BOOLEAN
    PROVE  /\ Started(d, sync) \in WorkRec /\ Started(d, sync).d = d /\ Started(d, sync).sync = sync
           /\ Started(d, sync).pc = IF d.op = "deliver" THEN "auth" ELSE "stop"
BY ConstantFacts DEF Started, WorkRec, Places, EnsurePlaces, DeletePlaces

LEMMA FaultFacts ==
    ASSUME faults \in 0 .. MaxFaults, Fault \/ NoFault
    PROVE  faults' \in 0 .. MaxFaults
BY ConstantFacts DEF Fault, NoFault

-----------------------------------------------------------------------------
(* What a step of the work does to everything but the cloud                *)

\* It moves to another place of its flow ...
WorkMoves ==
    /\ work' \in WorkRec /\ work'.d = work.d /\ work'.sync = work.sync
    /\ UNCHANGED <<call, clusterGen, outbox>>
    /\ UNCHANGED plat \/ Progress(work.d)
    /\ work'.pc \in {"stop", "auth"} \/ work.pc \notin {"stop", "auth"} \/ Progress(work.d)
    /\ work.d.op = "deliver" /\ work.pc \in EnsurePlaces => work'.pc \in EnsurePlaces
    /\ work.d.op = "remove" /\ work.pc \in DeletePlaces => work'.pc \in DeletePlaces

\* ... or fails, or reports that the cluster is served; the last way to end is
\* DestroyIAM.
WorkDelivers ==
    /\ work.pc = "index" /\ indexer' = work.d.gen
    /\ Unlock /\ Report(work.d, "delivered")
    /\ UNCHANGED <<clusterGen, outbox, world>>

LEMMA ContinueMoves ==
    ASSUME work \in WorkRec, NEW place \in Places, Continue(place), work.pc \notin {"stop", "auth"},
           \/ work.pc \notin DeletePlaces /\ place \in EnsurePlaces
           \/ work.pc \notin EnsurePlaces /\ place \in DeletePlaces
           \/ work.d.op = "deliver" /\ place \in EnsurePlaces
           \/ work.d.op = "remove" /\ place \in DeletePlaces
    PROVE  WorkMoves /\ work'.pc = place /\ UNCHANGED <<plat, indexer>>
<1>1. work' \in WorkRec /\ work'.pc = place /\ work'.d = work.d /\ work'.sync = work.sync
  BY GotoFacts DEF Continue
<1>2. UNCHANGED <<plat, call, clusterGen, outbox, indexer>>
  BY DEF Continue
<1> QED BY <1>1, <1>2 DEF WorkMoves

\* Types of the nodepools a reconciliation leaves.
LEMMA PoolTypes ==
    ASSUME Types, work \in WorkRec, NEW a \in SUBSET Desired[work.d.gen],
           NEW u \in SUBSET Desired[work.d.gen], NEW x
    PROVE  PoolsAfter(a, u, x) \subseteq [id : Nodepools, spec : Versions]
<1>1. work.d \in Delivery
  BY WorkFacts DEF Types
<1>2. Desired[work.d.gen] \subseteq Nodepools /\ Version(work.d) \in Versions
  BY <1>1, DeliveryFields, ConstantFacts
<1> HIDE DEF Version
<1> QED BY <1>2 DEF Types, WorldTypes, PoolsAfter

LEMMA WorkControl ==
    ASSUME Types, WorkStep
    PROVE  /\ work \in WorkRec /\ crashes' = crashes
           /\ faults' \in 0 .. MaxFaults /\ indexer' \in 0 .. MaxGeneration /\ WorldTypes'
           /\ WorkMoves \/ Fails \/ WorkDelivers \/ DestroyIAM
<1>0. work \in WorkRec /\ work.pc \in Places /\ work.d \in Delivery /\ Version(work.d) \in Versions
      /\ work.d.gen \in 0 .. MaxGeneration
  <2>1. work # NoWork
    BY WorkFacts
       DEF Types, WorkStep, AnnounceExchange, Exchange, ExchangeRefused, StepFails, EnsureResolves, UpdateCluster,
           UpdateFails, CreatePrereq, CreatePrereqFails, CreateCluster, CreateRefused,
           CreateUnconfirmed, ProbeFinds, ProbeTimesOut, CleanupCreate, ReconcileNodepools,
           ReconcileNodepoolsFails, AwaitCluster, EnsureIndexer, StopIndexer, DeleteCluster,
           DeleteClusterFails, DeleteFindsNone, PollClusterDeleted, WaitForPSCCleanup,
           DestroyInfra, DestroyIAM, DestroyFails, At, NextOf, AfterWait
  <2> QED BY <2>1, WorkFacts, DeliveryFields DEF Types
<1>a. plat \in PlatRec /\ WorldTypes /\ faults \in 0 .. MaxFaults /\ indexer \in 0 .. MaxGeneration
  BY DEF Types
<1>b. WorldTypes /\ UNCHANGED world => WorldTypes'
  BY DEF WorldTypes, world
<1>c. Finish("failed") \/ Finish("auth_failed") => Fails
  BY DEF Fails
<1>d. Fails => UNCHANGED indexer
  BY DEF Fails, Finish
<1>e. ASSUME Exists PROVE cluster \in [phase : {"up", "deleting"}, spec : Versions]
  BY <1>a, <1>e DEF WorldTypes, Exists
<1>p. ASSUME NEW q \in EnsurePlaces \cup DeletePlaces PROVE q \in Places
  BY <1>p DEF Places
<1> USE DEF EnsurePlaces, DeletePlaces
<1>1. CASE AnnounceExchange
  <2>1. Progress(work.d) /\ Goto("exchange") /\ NoFault /\ work.pc = "auth"
        /\ UNCHANGED <<call, clusterGen, outbox, indexer, world, crashes>>
    BY <1>1 DEF AnnounceExchange
  <2>2. work' \in WorkRec /\ work'.pc = "exchange" /\ work'.d = work.d /\ work'.sync = work.sync
    BY <1>0, <1>p, <2>1, GotoFacts
  <2> QED BY <1>0, <1>a, <1>b, <2>1, <2>2, FaultFacts DEF WorkMoves
<1>x. CASE Exchange
  <2>1. work.pc = "exchange" /\ NoFault /\ Continue("resolve") /\ UNCHANGED <<world, crashes>>
    BY <1>x DEF Exchange
  <2>2. WorkMoves /\ UNCHANGED indexer
    <3>1. work.d.op \in {"deliver", "remove"}
      BY <1>0, DeliveryFields
    <3> QED BY <1>0, <1>p, <2>1, <3>1, ContinueMoves
  <2> QED BY <1>0, <1>a, <1>b, <2>1, <2>2, FaultFacts
<1>2. CASE ExchangeRefused \/ StepFails
  BY <1>0, <1>2, <1>a, <1>b, <1>c, <1>d, FaultFacts DEF ExchangeRefused, StepFails
<1>3. CASE EnsureResolves
  <2>1. work.d.op = "deliver" /\ work.pc = "resolve" /\ NoFault /\ UNCHANGED <<world, crashes>>
        /\ (Continue("update") \/ Continue("iam"))
    BY <1>3 DEF EnsureResolves, At
  <2>2. WorkMoves /\ UNCHANGED indexer
    BY <1>0, <1>p, <2>1, ContinueMoves
  <2> QED BY <1>0, <1>a, <1>b, <2>1, <2>2, FaultFacts
<1>4. CASE UpdateCluster
  <2>1. work.pc \in {"update", "repairUpdate"} /\ NoFault
        /\ UNCHANGED <<pools, iam, infra, psc, inflight, crashes>>
        /\ \/ Exists /\ cluster' = [cluster EXCEPT !.spec = Version(work.d)] /\ Continue("nodepools")
           \/ Finish("failed") /\ UNCHANGED cluster
    BY <1>4 DEF UpdateCluster
  <2>2. (WorkMoves /\ UNCHANGED indexer) \/ Fails
    BY <1>0, <1>c, <1>p, <2>1, ContinueMoves
  <2>3. WorldTypes'
    BY <1>0, <1>a, <1>e, <2>1 DEF WorldTypes
  <2> QED BY <1>0, <1>a, <1>d, <2>1, <2>2, <2>3, FaultFacts
<1>5. CASE UpdateFails
  <2>1. Fault /\ Fails /\ Exists /\ UNCHANGED <<pools, iam, infra, psc, inflight, crashes>>
        /\ \E v \in {cluster.spec, Version(work.d)} : cluster' = [cluster EXCEPT !.spec = v]
    BY <1>5 DEF UpdateFails
  <2>2. WorldTypes'
    BY <1>0, <1>a, <1>e, <2>1 DEF WorldTypes
  <2> QED BY <1>0, <1>a, <1>d, <2>1, <2>2, FaultFacts
<1>6. CASE CreatePrereq
  <2>1. work.pc \in {"iam", "infra", "repairIam", "repairInfra"} /\ NoFault /\ Continue(NextOf[work.pc])
        /\ UNCHANGED <<cluster, pools, psc, inflight, crashes>> /\ Makes(TRUE)
    BY <1>6 DEF CreatePrereq, NextOf
  <2>2. NextOf[work.pc] \in {"infra", "create", "repairInfra", "repairUpdate"}
    BY <2>1 DEF NextOf
  <2>3. WorkMoves /\ UNCHANGED indexer
    BY <1>0, <1>p, <2>1, <2>2, ContinueMoves
  <2>4. WorldTypes'
    BY <1>a, <2>1 DEF WorldTypes, Makes
  <2> QED BY <1>0, <1>a, <2>1, <2>3, <2>4, FaultFacts
<1>7. CASE CreatePrereqFails
  <2>1. work.pc \in {"iam", "infra", "repairIam", "repairInfra"} /\ Fault
        /\ UNCHANGED <<cluster, pools, psc, inflight, crashes>>
        /\ \E there \in {Made, TRUE} : Makes(there)
    BY <1>7 DEF CreatePrereqFails, NextOf
  <2>2. WorldTypes'
    BY <1>a, <2>1 DEF WorldTypes, Makes, Made
  <2>3. CASE Fails
    BY <1>0, <1>a, <1>d, <2>1, <2>2, <2>3, FaultFacts
  <2>4. CASE /\ work.tries + 1 # PrereqAttempts /\ work' = [work EXCEPT !.tries = @ + 1]
             /\ UNCHANGED <<plat, call, clusterGen, outbox, indexer>>
    <3>1. work.tries \in 0 .. PrereqAttempts - 1 /\ work.tries + 1 \in 0 .. PrereqAttempts - 1
      BY <1>0, <2>4, ConstantFacts DEF WorkRec
    <3>2. work' \in WorkRec /\ work'.pc = work.pc /\ work'.d = work.d /\ work'.sync = work.sync
      BY <1>0, <2>4, <3>1 DEF WorkRec
    <3>3. WorkMoves
      BY <2>1, <2>4, <3>2 DEF WorkMoves
    <3> QED BY <1>0, <1>a, <2>1, <2>2, <2>4, <3>3, FaultFacts
  <2> QED BY <1>7, <2>3, <2>4 DEF CreatePrereqFails
<1>8. CASE CreateCluster
  <2>1. work.pc = "create" /\ NoFault /\ Continue("nodepools") /\ Created(Version(work.d))
        /\ UNCHANGED <<pools, iam, infra, inflight, crashes>>
    BY <1>8 DEF CreateCluster
  <2>2. WorkMoves /\ UNCHANGED indexer
    BY <1>0, <1>p, <2>1, ContinueMoves
  <2>3. WorldTypes'
    BY <1>0, <1>a, <2>1 DEF WorldTypes, Created
  <2> QED BY <1>0, <1>a, <2>1, <2>2, <2>3, FaultFacts
<1>9. CASE CreateRefused \/ ProbeTimesOut
  <2>1. work.pc \in {"create", "probe"} /\ (Fault \/ NoFault) /\ Continue("cleanup")
        /\ UNCHANGED <<world, crashes>>
    BY <1>9 DEF CreateRefused, ProbeTimesOut
  <2>2. WorkMoves /\ UNCHANGED indexer
    BY <1>0, <1>p, <2>1, ContinueMoves
  <2> QED BY <1>0, <1>a, <1>b, <2>1, <2>2, FaultFacts
<1>10. CASE CreateUnconfirmed
  <2>1. work.pc = "create" /\ (Fault \/ NoFault) /\ Continue("probe")
        /\ inflight' \in {NoVersion, Version(work.d)} /\ UNCHANGED <<cluster, pools, iam, infra, psc, crashes>>
    BY <1>10 DEF CreateUnconfirmed, Fault, NoFault
  <2>2. WorkMoves /\ UNCHANGED indexer
    BY <1>0, <1>p, <2>1, ContinueMoves
  <2>3. WorldTypes'
    BY <1>0, <1>a, <2>1 DEF WorldTypes
  <2> QED BY <1>0, <1>a, <2>1, <2>2, <2>3, FaultFacts
<1>11. CASE ProbeFinds
  <2>1. work.pc = "probe" /\ NoFault /\ Continue("repairIam") /\ UNCHANGED <<world, crashes>>
    BY <1>11 DEF ProbeFinds
  <2>2. WorkMoves /\ UNCHANGED indexer
    BY <1>0, <1>p, <2>1, ContinueMoves
  <2> QED BY <1>0, <1>a, <1>b, <2>1, <2>2, FaultFacts
<1>12. CASE CleanupCreate
  <2>1. Fails /\ (Fault \/ NoFault) /\ infra' \in {FALSE, infra} /\ iam' \in {FALSE, iam}
        /\ UNCHANGED <<cluster, pools, psc, inflight, crashes>>
    BY <1>12 DEF CleanupCreate
  <2>2. WorldTypes'
    BY <1>a, <2>1 DEF WorldTypes
  <2> QED BY <1>0, <1>a, <1>d, <2>1, <2>2, FaultFacts
<1>13. CASE ReconcileNodepools
  <2>1. work.pc = "nodepools" /\ NoFault /\ UNCHANGED <<cluster, iam, infra, psc, inflight, crashes>>
        /\ \/ pools' = PoolsAfter(Missing, Present, Removed) /\ Continue("ready")
           \/ UNCHANGED pools /\ Finish("failed")
    BY <1>13 DEF ReconcileNodepools
  <2>2. (WorkMoves /\ UNCHANGED indexer) \/ Fails
    BY <1>0, <1>c, <1>p, <2>1, ContinueMoves
  <2>3. pools' \subseteq [id : Nodepools, spec : Versions]
    <3>1. Missing \subseteq Desired[work.d.gen] /\ Present \subseteq Desired[work.d.gen]
      BY DEF Missing, Present
    <3> QED BY <1>0, <1>a, <2>1, <3>1, PoolTypes DEF WorldTypes
  <2>4. WorldTypes'
    BY <1>a, <2>1, <2>3 DEF WorldTypes
  <2> QED BY <1>0, <1>a, <1>d, <2>1, <2>2, <2>4, FaultFacts
<1>14. CASE ReconcileNodepoolsFails
  <2>1. Fault /\ Fails /\ UNCHANGED <<cluster, iam, infra, psc, inflight, crashes>>
        /\ \/ \E a \in SUBSET Missing : pools' = PoolsAfter(a, {}, {})
           \/ \E u \in SUBSET Present : pools' = PoolsAfter(Missing, u, {})
           \/ \E r \in SUBSET Removed : pools' = PoolsAfter(Missing, Present, r)
    BY <1>14 DEF ReconcileNodepoolsFails
  <2>2. pools' \subseteq [id : Nodepools, spec : Versions]
    <3>1. Missing \subseteq Desired[work.d.gen] /\ Present \subseteq Desired[work.d.gen]
      BY DEF Missing, Present
    <3> QED BY <1>0, <2>1, <3>1, PoolTypes
  <2>3. WorldTypes'
    BY <1>a, <2>1, <2>2 DEF WorldTypes
  <2> QED BY <1>0, <1>a, <1>d, <2>1, <2>3, FaultFacts
<1>15. CASE AwaitCluster
  <2>1. work.pc \in {"ready", "register", "healthy"} /\ NoFault /\ UNCHANGED <<world, crashes>>
        /\ (Continue(AfterWait[work.pc]) \/ Finish("failed"))
    BY <1>15 DEF AwaitCluster, AfterWait
  <2>2. AfterWait[work.pc] \in {"register", "healthy", "index"}
    BY <2>1 DEF AfterWait
  <2>3. (WorkMoves /\ UNCHANGED indexer) \/ Fails
    BY <1>0, <1>c, <1>p, <2>1, <2>2, ContinueMoves
  <2> QED BY <1>0, <1>a, <1>b, <1>d, <2>1, <2>3, FaultFacts
<1>16. CASE EnsureIndexer
  <2>1. work.pc = "index" /\ UNCHANGED <<clusterGen, outbox, world, crashes>> /\ Unlock
        /\ \/ NoFault /\ indexer' = work.d.gen /\ Report(work.d, "delivered")
           \/ Fault /\ UNCHANGED indexer /\ Report(work.d, "failed")
    BY <1>16 DEF EnsureIndexer
  <2>2. WorkDelivers \/ Fails
    BY <1>c, <2>1 DEF WorkDelivers, Finish
  <2> QED BY <1>0, <1>a, <1>b, <2>1, <2>2, FaultFacts
<1>17. CASE StopIndexer
  <2>1. work.pc = "stop" /\ Goto("auth") /\ UNCHANGED <<plat, call, clusterGen, outbox, world, crashes>>
        /\ indexer' \in {0, indexer} /\ (Fault \/ NoFault)
    BY <1>17 DEF StopIndexer
  <2>2. work' \in WorkRec /\ work'.pc = "auth" /\ work'.d = work.d /\ work'.sync = work.sync
    BY <1>0, <1>p, <2>1, GotoFacts
  <2>3. WorkMoves
    BY <2>1, <2>2 DEF WorkMoves
  <2> QED BY <1>0, <1>a, <1>b, <2>1, <2>3, FaultFacts, ConstantFacts
<1>18. CASE DeleteCluster
  <2>1. work.pc = "resolve" /\ work.d.op = "remove" /\ NoFault
        /\ UNCHANGED <<pools, iam, infra, psc, inflight, crashes>>
        /\ \/ Exists /\ cluster' = [cluster EXCEPT !.phase = "deleting"] /\ Continue("gone")
           \/ UNCHANGED cluster /\ Continue("destroyInfra")
    BY <1>18 DEF DeleteCluster, At
  <2>2. WorkMoves /\ UNCHANGED indexer
    BY <1>0, <1>p, <2>1, ContinueMoves
  <2>3. WorldTypes'
    BY <1>a, <1>e, <2>1 DEF WorldTypes
  <2> QED BY <1>0, <1>a, <2>1, <2>2, <2>3, FaultFacts
<1>19. CASE DeleteClusterFails
  <2>1. Fault /\ Fails /\ Exists /\ cluster' = [cluster EXCEPT !.phase = "deleting"]
        /\ UNCHANGED <<pools, iam, infra, psc, inflight, crashes>>
    BY <1>19 DEF DeleteClusterFails
  <2>2. WorldTypes'
    BY <1>a, <1>e, <2>1 DEF WorldTypes
  <2> QED BY <1>0, <1>a, <1>d, <2>1, <2>2, FaultFacts
<1>20. CASE DeleteFindsNone
  <2>1. work.pc = "resolve" /\ work.d.op = "remove" /\ NoFault /\ cluster' = Absent /\ pools' = {}
        /\ Continue("psc") /\ UNCHANGED <<iam, infra, psc, inflight, crashes>>
    BY <1>20 DEF DeleteFindsNone, At
  <2>2. WorkMoves /\ UNCHANGED indexer
    BY <1>0, <1>p, <2>1, ContinueMoves
  <2>3. WorldTypes'
    BY <1>a, <2>1 DEF WorldTypes
  <2> QED BY <1>0, <1>a, <2>1, <2>2, <2>3, FaultFacts
<1>21. CASE PollClusterDeleted \/ WaitForPSCCleanup
  <2>1. work.pc \in {"gone", "psc"} /\ NoFault /\ UNCHANGED <<world, crashes>>
        /\ (Continue("psc") \/ Continue("destroyInfra"))
    BY <1>21 DEF PollClusterDeleted, WaitForPSCCleanup
  <2>2. WorkMoves /\ UNCHANGED indexer
    BY <1>0, <1>p, <2>1, ContinueMoves
  <2> QED BY <1>0, <1>a, <1>b, <2>1, <2>2, FaultFacts
<1>22. CASE DestroyInfra
  <2>1. work.pc = "destroyInfra" /\ NoFault /\ infra' = FALSE /\ Continue("destroyIam")
        /\ UNCHANGED <<cluster, pools, iam, psc, inflight, crashes>>
    BY <1>22 DEF DestroyInfra
  <2>2. WorkMoves /\ UNCHANGED indexer
    BY <1>0, <1>p, <2>1, ContinueMoves
  <2>3. WorldTypes'
    BY <1>a, <2>1 DEF WorldTypes
  <2> QED BY <1>0, <1>a, <2>1, <2>2, <2>3, FaultFacts
<1>23. CASE DestroyIAM
  <2>1. NoFault /\ iam' = FALSE /\ UNCHANGED <<cluster, pools, infra, psc, inflight, indexer, crashes>>
    BY <1>23 DEF DestroyIAM
  <2>2. WorldTypes'
    BY <1>a, <2>1 DEF WorldTypes
  <2> QED BY <1>0, <1>a, <1>23, <2>1, <2>2, FaultFacts
<1>24. CASE DestroyFails
  <2>1. Fault /\ Fails /\ infra' \in {FALSE, infra} /\ iam' \in {FALSE, iam}
        /\ UNCHANGED <<cluster, pools, psc, inflight, crashes>>
    BY <1>24 DEF DestroyFails
  <2>2. WorldTypes'
    BY <1>a, <2>1 DEF WorldTypes
  <2> QED BY <1>0, <1>a, <1>d, <2>1, <2>2, FaultFacts
<1> QED BY <1>1, <1>x, <1>2, <1>3, <1>4, <1>5, <1>6, <1>7, <1>8, <1>9, <1>10, <1>11, <1>12, <1>13,
           <1>14, <1>15, <1>16, <1>17, <1>18, <1>19, <1>20, <1>21, <1>22, <1>23, <1>24 DEF WorkStep

\* What the platform dispatches: the last delivery again, its next generation,
\* or the first of the next incarnation once a removal is done.
LEMMA DispatchFacts ==
    ASSUME Types, Platform
    PROVE  \E d \in Delivery :
              /\ Dispatch(d)
              /\ \/ d = plat.d /\ plat.state \in {"pending", "failed", "delivered"}
                 \/ d.inc = plat.d.inc /\ d.gen = plat.d.gen + 1
                 \/ /\ plat.d.op = "remove" /\ plat.state = "delivered"
                    /\ d.inc = plat.d.inc + 1 /\ d.op = "deliver"
<1>0. plat.d \in Delivery
  BY DEF Types, PlatRec
<1>1. CASE NewGeneration
  <2>1. PICK op \in Ops, tok \in Tokens :
           Dispatch([plat.d EXCEPT !.gen = @ + 1, !.op = op, !.token = tok])
    BY <1>1 DEF NewGeneration
  <2> DEFINE d == [plat.d EXCEPT !.gen = @ + 1, !.op = op, !.token = tok]
  <2>2. plat.d.gen + 1 \in Generations /\ tok \in BOOLEAN
    BY <1>0, <1>1, DeliveryFields, ConstantFacts DEF NewGeneration, Generations
  <2>3. d \in Delivery /\ d.inc = plat.d.inc /\ d.gen = plat.d.gen + 1
    BY <1>0, <2>2 DEF Delivery
  <2> QED BY <2>1, <2>3
<1>2. CASE Redispatch
  BY <1>0, <1>2 DEF Redispatch
<1>3. CASE Recreate
  <2>1. PICK tok \in Tokens : Dispatch(First(plat.d.inc + 1, "deliver", tok))
    BY <1>3 DEF Recreate
  <2>2. plat.d.inc + 1 \in Incarnations /\ 1 \in Generations /\ tok \in BOOLEAN
    BY <1>0, <1>3, DeliveryFields, ConstantFacts DEF Recreate, Incarnations, Generations
  <2>3. First(plat.d.inc + 1, "deliver", tok) \in Delivery
        /\ First(plat.d.inc + 1, "deliver", tok).inc = plat.d.inc + 1
        /\ First(plat.d.inc + 1, "deliver", tok).op = "deliver"
    BY <2>2 DEF First, Delivery, Ops
  <2> QED BY <1>3, <2>1, <2>3 DEF Recreate
<1> QED BY <1>1, <1>2, <1>3 DEF Platform

\* Unlocking keeps the types, and reports about the work's delivery do.
LEMMA UnlockFacts ==
    ASSUME Types, work \in WorkRec, Unlock
    PROVE  work' = NoWork /\ call' \in {call, NoCall} /\ (work.sync => call' = NoCall)
           /\ (~work.sync => call' = call)
BY DEF Unlock

LEMMA TypesInit == Init => Types
<1> SUFFICES ASSUME Init PROVE Types
  OBVIOUS
<1>1. PICK tok \in Tokens : plat = [d |-> First(1, "deliver", tok), state |-> "pending"]
  BY DEF Init
<1>2. First(1, "deliver", tok) \in Delivery
  BY ConstantFacts DEF First, Delivery, Ops, Incarnations, Generations
<1>3. plat \in PlatRec /\ plat.d \in Delivery
  BY <1>1, <1>2 DEF PlatRec, Active
<1>4. call \in CallRec
  BY <1>3 DEF Init, CallRec
<1>5. WorldTypes
  BY DEF Init, WorldTypes
<1> QED BY <1>3, <1>4, <1>5, ConstantFacts DEF Init, Types

LEMMA TypesStep == Types /\ [Next]_vars => Types'
<1> SUFFICES ASSUME Types, [Next]_vars PROVE Types'
  OBVIOUS
<1>0. /\ plat \in PlatRec /\ call \in {NoCall} \cup CallRec /\ clusterGen \in 0 .. MaxGeneration
      /\ work \in {NoWork} \cup WorkRec /\ outbox \subseteq Delivery /\ WorldTypes
      /\ indexer \in 0 .. MaxGeneration /\ faults \in 0 .. MaxFaults /\ crashes \in 0 .. MaxCrashes
      /\ plat.d \in Delivery
  BY DEF Types, PlatRec
<1>w. UNCHANGED world => WorldTypes'
  BY <1>0 DEF WorldTypes, world
<1>z. 0 \in 0 .. MaxGeneration
  BY ConstantFacts
<1>1. CASE Platform
  <2>1. PICK d \in Delivery : Dispatch(d)
    BY <1>1, DispatchFacts
  <2>2. plat' \in PlatRec /\ call' \in CallRec
    BY <2>1 DEF Dispatch, PlatRec, CallRec, Active
  <2> QED BY <1>0, <1>w, <2>1, <2>2 DEF Dispatch, Types
<1>2. CASE RefuseStale
  <2>1. call \in CallRec /\ call.d \in Delivery
    BY <1>0, <1>2, CallFacts DEF RefuseStale
  <2>2. plat' \in PlatRec /\ outbox' \subseteq Delivery
    BY <1>0, <1>2, <2>1, ReportFacts DEF RefuseStale, Terminal
  <2> QED BY <1>0, <1>w, <1>2, <2>2 DEF RefuseStale, Types
<1>3. CASE Accept
  <2>1. call \in CallRec /\ call.d \in Delivery
    BY <1>0, <1>3, CallFacts DEF Accept
  <2>2. plat' \in PlatRec
    BY <1>0, <1>3, ReportFacts DEF Accept, Terminal
  <2>3. call' \in {NoCall} \cup CallRec
    BY <1>3, <2>1 DEF Accept, CallRec
  <2>4. clusterGen' \in 0 .. MaxGeneration
    BY <1>3, <2>1, DeliveryFields DEF Accept
  <2> QED BY <1>0, <1>w, <1>3, <2>2, <2>3, <2>4 DEF Accept, Types
<1>4. CASE TakeLock
  <2>1. call \in CallRec /\ call.d \in Delivery
    BY <1>0, <1>4, CallFacts DEF TakeLock
  <2>2. work' \in WorkRec
    <3>1. (call.d.op = "remove") \in BOOLEAN
      OBVIOUS
    <3> QED BY <1>4, <2>1, <3>1, StartedFacts DEF TakeLock
  <2>3. call' \in {NoCall} \cup CallRec
    BY <1>4, <2>1 DEF TakeLock, CallRec
  <2> QED BY <1>0, <1>w, <1>4, <2>2, <2>3 DEF TakeLock, Types
<1>5. CASE WorkStep
  <2>0. /\ work \in WorkRec /\ work.d \in Delivery /\ crashes' = crashes
        /\ faults' \in 0 .. MaxFaults /\ indexer' \in 0 .. MaxGeneration /\ WorldTypes'
        /\ WorkMoves \/ Fails \/ WorkDelivers \/ DestroyIAM
    BY <1>5, WorkControl, WorkFacts DEF Types
  <2>1. CASE WorkMoves
    <3>1. plat' \in PlatRec
      BY <1>0, <2>1, ProgressFacts DEF WorkMoves
    <3> QED BY <1>0, <2>0, <2>1, <3>1 DEF WorkMoves, Types
  <2>2. CASE Fails
    <3>1. PICK r \in {"failed", "auth_failed"} : Finish(r)
      BY <2>2 DEF Fails
    <3>2. plat' \in PlatRec
      BY <1>0, <3>1, ReportFacts DEF Finish, Terminal
    <3>3. work' = NoWork /\ call' \in {call, NoCall}
      BY <2>0, <3>1, UnlockFacts DEF Finish
    <3> QED BY <1>0, <2>0, <3>1, <3>2, <3>3 DEF Finish, Types
  <2>3. CASE WorkDelivers
    <3>2. plat' \in PlatRec
      BY <1>0, <2>3, ReportFacts DEF WorkDelivers, Terminal
    <3>3. work' = NoWork /\ call' \in {call, NoCall}
      BY <2>0, <2>3, UnlockFacts DEF WorkDelivers
    <3> QED BY <1>0, <2>0, <2>3, <3>2, <3>3 DEF WorkDelivers, Types
  <2>4. CASE DestroyIAM
    <3>2. plat' \in PlatRec /\ outbox' \subseteq Delivery
      BY <1>0, <2>0, <2>4, ReportFacts DEF DestroyIAM, Terminal
    <3>3. work' = NoWork /\ call' \in {call, NoCall}
      BY <2>0, <2>4, UnlockFacts DEF DestroyIAM
    <3> QED BY <1>0, <1>z, <2>0, <2>4, <3>2, <3>3 DEF DestroyIAM, Types
  <2> QED BY <2>0, <2>1, <2>2, <2>3, <2>4
<1>6. CASE CreateTakesEffect
  <2>1. inflight \in Versions /\ inflight' = NoVersion /\ UNCHANGED <<pools, iam, infra>>
    BY <1>0, <1>6 DEF CreateTakesEffect, WorldTypes
  <2>2. \/ cluster' = [phase |-> "up", spec |-> inflight] /\ psc' = TRUE
        \/ UNCHANGED <<cluster, psc>>
    BY <1>6 DEF CreateTakesEffect, Created
  <2>3. cluster' \in {Absent} \cup [phase : {"up", "deleting"}, spec : Versions]
    BY <1>0, <2>1, <2>2 DEF WorldTypes
  <2>4. psc' \in BOOLEAN
    BY <1>0, <2>2, Zenon DEF WorldTypes
  <2>5. WorldTypes'
    BY <1>0, <2>1, <2>3, <2>4 DEF WorldTypes
  <2> QED BY <1>0, <1>6, <2>5 DEF CreateTakesEffect, Types
<1>7. CASE ClusterEnds
  <2>1. WorldTypes'
    BY <1>0, <1>7 DEF ClusterEnds, WorldTypes
  <2> QED BY <1>0, <1>7, <2>1 DEF ClusterEnds, Types
<1>8. CASE PscEnds
  <2>1. WorldTypes'
    BY <1>0, <1>8 DEF PscEnds, WorldTypes
  <2> QED BY <1>0, <1>8, <2>1 DEF PscEnds, Types
<1>9. ASSUME NEW d \in outbox, RemovalReported(d) PROVE Types'
  <2>1. plat' \in PlatRec
    BY <1>0, <1>9, ReportFacts DEF RemovalReported, Terminal
  <2> QED BY <1>0, <1>w, <1>9, <2>1 DEF RemovalReported, Types
<1>10. CASE Crash
  <2>1. work' \in {NoWork} \cup WorkRec
    BY <1>0, <1>10, StartedFacts DEF Crash
  <2>2. clusterGen' \in 0 .. MaxGeneration
    BY <1>0, <1>z, <1>10, DeliveryFields DEF Crash
  <2>3. crashes' \in 0 .. MaxCrashes
    BY <1>0, <1>10, ConstantFacts DEF Crash
  <2> QED BY <1>0, <1>w, <1>z, <1>10, <2>1, <2>2, <2>3 DEF Crash, Types
<1>11. CASE UNCHANGED vars
  <2>1. UNCHANGED <<plat, call, clusterGen, work, outbox, world, indexer, faults, crashes>>
    BY <1>11 DEF vars
  <2> QED BY <1>0, <1>w, <2>1 DEF Types
<1> QED BY <1>1, <1>2, <1>3, <1>4, <1>5, <1>6, <1>7, <1>8, <1>9, <1>10, <1>11
        DEF Next, CallStep, ClsStep

\* The types of the agent's call, work and reports and of the objects in the
\* cloud: no flow leaves its places or exceeds its attempts at prerequisites,
\* and the fence and the indexer never pass the last generation.
THEOREM HcpTypeCorrect == Spec => []TypeOK
<1>1. Spec => []Types
  BY TypesInit, TypesStep, PTL DEF Spec
<1> QED BY <1>1, TypesAreTypeOK, PTL

-----------------------------------------------------------------------------
(* Calls, the lock and the fence                                           *)

ControlInv == CallsAndLock /\ OutboxIsOfThePast /\ FenceInv

\* The same in fields, for the states the steps below start from.
LEMMA PlatFacts ==
    ASSUME Types
    PROVE  /\ plat.d \in Delivery /\ plat.d.inc \in Nat /\ plat.d.gen \in Nat /\ plat.d.gen >= 1
           /\ plat.d.op \in {"deliver", "remove"}
           /\ plat.state \in {"pending", "progressing", "delivered", "failed", "auth_failed"}
           /\ clusterGen \in Nat /\ crashes \in Nat
<1>1. plat.d \in Delivery /\ plat.state \in Active \cup Terminal
  BY DEF Types, PlatRec
<1> QED BY <1>1, DeliveryFields, ConstantFacts DEF Types, Active, Terminal

\* A step that ends the work: the lock is free, and a removal's call is over.
LEMMA EndsWork ==
    ASSUME Types, CallsAndLock, work \in WorkRec, Unlock, plat'.d = plat.d,
           clusterGen' \in {0, clusterGen}
    PROVE  CallsAndLock'
<1>1. work' = NoWork /\ call' \in {call, NoCall} /\ (work.sync => call' = NoCall)
  BY UnlockFacts
<1>2. call'.pc # "busy"
  BY <1>1, CallFacts DEF Types, CallsAndLock
<1>3. call' # NoCall => call'.d = plat'.d
  BY <1>1 DEF CallsAndLock
<1>4. call'.pc \in {"lock", "busy"} => clusterGen' <= plat'.d.gen
  BY <1>1, <1>2, PlatFacts, CallFacts DEF Types, CallsAndLock
<1> QED BY <1>1, <1>2, <1>3, <1>4 DEF CallsAndLock

LEMMA ControlInit == Init => ControlInv
<1> SUFFICES ASSUME Init PROVE ControlInv
  OBVIOUS
<1>1. PICK tok \in Tokens : plat = [d |-> First(1, "deliver", tok), state |-> "pending"]
  BY DEF Init
<1>2. plat.d.op = "deliver" /\ plat.d.gen = 1
  BY <1>1 DEF First
<1>3. call.d = plat.d /\ call.pc = "accept" /\ work = NoWork /\ outbox = {} /\ clusterGen = 0
  BY DEF Init
<1> QED BY <1>2, <1>3 DEF ControlInv, CallsAndLock, OutboxIsOfThePast, FenceInv

LEMMA ControlStep == Types /\ ControlInv /\ [Next]_vars => ControlInv'
<1> SUFFICES ASSUME Types, ControlInv, [Next]_vars PROVE ControlInv'
  OBVIOUS
<1>0. CallsAndLock /\ OutboxIsOfThePast /\ FenceInv
  BY DEF ControlInv
<1>t. plat \in PlatRec /\ call \in {NoCall} \cup CallRec /\ work \in {NoWork} \cup WorkRec
  BY DEF Types
<1>1. CASE Platform
  <2>1. PICK d \in Delivery :
              /\ Dispatch(d)
              /\ \/ d = plat.d /\ plat.state \in {"pending", "failed", "delivered"}
                 \/ d.inc = plat.d.inc /\ d.gen = plat.d.gen + 1
                 \/ /\ plat.d.op = "remove" /\ plat.state = "delivered"
                    /\ d.inc = plat.d.inc + 1 /\ d.op = "deliver"
    BY <1>1, DispatchFacts
  <2>2. /\ call = NoCall /\ plat'.d = d /\ plat'.state = "pending"
        /\ call'.pc = "accept" /\ call'.d = d
        /\ UNCHANGED <<clusterGen, work, outbox, crashes>>
    BY <2>1 DEF Dispatch
  <2>3. d.inc \in Nat /\ d.gen \in Nat /\ d.gen >= 1
    BY DeliveryFields
  <2>4. CallsAndLock'
    <3>1. work # NoWork => ~work.sync
      BY <1>0, <2>2, CallFacts DEF CallsAndLock, Types
    <3> QED BY <1>0, <2>2, <3>1 DEF CallsAndLock
  <2>5. OutboxIsOfThePast'
    BY <1>0, <2>1, <2>2, <2>3, PlatFacts, DeliveryFields DEF OutboxIsOfThePast, Types
  <2>6. FenceInv'
    <3> SUFFICES ASSUME crashes = 0
                 PROVE  /\ clusterGen <= d.gen
                        /\ work # NoWork /\ ~work.sync => work.d.op = "deliver"
                        /\ d \notin outbox
      BY <2>2 DEF FenceInv, Active
    <3>1. clusterGen <= d.gen
      BY <1>0, <2>1, <2>3, PlatFacts DEF FenceInv
    <3>2. d \notin outbox
      BY <1>0, <2>1, <2>3, PlatFacts DEF FenceInv, OutboxIsOfThePast
    <3> QED BY <1>0, <3>1, <3>2 DEF FenceInv
  <2> QED BY <2>4, <2>5, <2>6 DEF ControlInv
<1>2. CASE RefuseStale
  <2>1. /\ call # NoCall /\ call.d = plat.d /\ call.pc = "accept" /\ call' = NoCall
        /\ clusterGen > plat.d.gen /\ UNCHANGED <<clusterGen, work, crashes>>
    BY <1>0, <1>2, <1>t, CallFacts, PlatFacts DEF RefuseStale, CallsAndLock, acceptGeneration
  <2>2. \/ call.d.op = "deliver" /\ Report(call.d, "failed") /\ UNCHANGED outbox
        \/ call.d.op = "remove" /\ outbox' = outbox \cup {call.d} /\ UNCHANGED plat
    BY <1>2, <2>1, PlatFacts DEF RefuseStale
  <2>3. plat'.d = plat.d
    BY <1>t, <2>2, ReportFacts DEF Terminal
  <2>4. crashes # 0
    BY <1>0, <2>1, PlatFacts DEF FenceInv
  <2>5. CallsAndLock'
    <3>1. work # NoWork => ~work.sync
      BY <1>0, <2>1 DEF CallsAndLock
    <3> QED BY <1>0, <1>t, <2>1, <2>3, <3>1, CallFacts DEF CallsAndLock
  <2>6. OutboxIsOfThePast'
    BY <1>0, <2>1, <2>2, <2>3 DEF OutboxIsOfThePast
  <2> QED BY <2>1, <2>4, <2>5, <2>6 DEF ControlInv, FenceInv
<1>3. CASE Accept
  <2>1. /\ call # NoCall /\ call.d = plat.d /\ call.pc = "accept" /\ call \in CallRec
        /\ clusterGen' = plat.d.gen /\ UNCHANGED <<work, outbox, crashes>>
    BY <1>0, <1>3, <1>t, CallFacts DEF Accept, CallsAndLock
  <2>2. \/ plat.d.op = "deliver" /\ Report(call.d, "auth_failed") /\ call' = NoCall
        \/ call' = [call EXCEPT !.pc = "lock"] /\ UNCHANGED plat
    BY <1>3, <2>1 DEF Accept
  <2>3. plat'.d = plat.d /\ (plat.d.op = "remove" => plat'.state = plat.state)
    BY <1>t, <2>2, ReportFacts DEF Terminal
  <2>4. call' = NoCall \/ (call'.pc = "lock" /\ call'.d = call.d)
    BY <2>1, <2>2 DEF CallRec
  <2>5. NoCall.pc = "none"
    BY DEF NoCall
  <2>6. CallsAndLock'
    <3>1. work # NoWork => ~work.sync
      BY <1>0, <2>1 DEF CallsAndLock
    <3> QED BY <1>0, <2>1, <2>3, <2>4, <2>5, <3>1, PlatFacts DEF CallsAndLock
  <2>7. OutboxIsOfThePast'
    BY <1>0, <2>1, <2>3 DEF OutboxIsOfThePast
  <2>8. FenceInv'
    <3> SUFFICES ASSUME crashes = 0 PROVE FenceInv'
      BY <2>1 DEF FenceInv
    <3>1. plat.d \notin outbox /\ (plat.d.op = "remove" => plat.state \in Active)
      BY <1>0, <2>1 DEF FenceInv
    <3> QED BY <1>0, <2>1, <2>3, <3>1, PlatFacts DEF FenceInv, Active
  <2> QED BY <2>6, <2>7, <2>8 DEF ControlInv
<1>4. CASE TakeLock
  <2>1. /\ call # NoCall /\ call.d = plat.d /\ call.pc = "lock" /\ call \in CallRec
        /\ work = NoWork /\ work' = Started(plat.d, plat.d.op = "remove")
        /\ UNCHANGED <<plat, clusterGen, outbox, crashes>>
    BY <1>0, <1>4, <1>t, CallFacts DEF TakeLock, CallsAndLock
  <2>2. \/ plat.d.op = "remove" /\ call' = [call EXCEPT !.pc = "busy"]
        \/ plat.d.op = "deliver" /\ call' = NoCall
    BY <1>4, <2>1, PlatFacts DEF TakeLock
  <2>3. \/ plat.d.op = "remove" /\ call' = [pc |-> "busy", d |-> plat.d]
        \/ plat.d.op = "deliver" /\ call' = NoCall
    BY <2>1, <2>2 DEF CallRec
  <2>4. /\ work' \in WorkRec /\ work'.d = plat.d /\ work'.sync = (plat.d.op = "remove")
        /\ work'.pc = IF plat.d.op = "deliver" THEN "auth" ELSE "stop"
    <3>1. (plat.d.op = "remove") \in BOOLEAN
      OBVIOUS
    <3> QED BY <2>1, <3>1, PlatFacts, StartedFacts
  <2>5. NoCall.pc = "none"
    BY DEF NoCall
  <2>6. CallsAndLock'
    <3>1. clusterGen <= plat.d.gen
      BY <1>0, <2>1 DEF CallsAndLock
    <3>2. work' # NoWork
      BY <1>t, <2>4, WorkFacts
    <3>3. CASE plat.d.op = "remove"
      <4>1. call' = [pc |-> "busy", d |-> work'.d] /\ call'.pc = "busy" /\ call'.d = plat'.d
            /\ work'.pc = "stop" /\ work'.d.op = "remove" /\ clusterGen' <= plat'.d.gen
        BY <2>1, <2>3, <2>4, <3>1, <3>3
      <4>2. work'.sync
        BY <2>4, <3>3, Zenon
      <4> QED BY <3>2, <4>1, <4>2 DEF CallsAndLock, DeletePlaces
    <3>4. CASE plat.d.op = "deliver"
      <4>1. call' = NoCall /\ ~work'.sync /\ work'.pc = "auth" /\ work'.d.op = "deliver"
        BY <2>1, <2>3, <2>4, <3>4
      <4> QED BY <2>5, <3>2, <4>1 DEF CallsAndLock, EnsurePlaces
    <3> QED BY <3>3, <3>4, PlatFacts
  <2>7. OutboxIsOfThePast'
    BY <1>0, <2>1 DEF OutboxIsOfThePast
  <2>8. FenceInv'
    BY <1>0, <2>1, <2>3, <2>4, PlatFacts DEF FenceInv
  <2> QED BY <2>6, <2>7, <2>8 DEF ControlInv
<1>5. CASE WorkStep
  <2>0. /\ work \in WorkRec /\ work # NoWork /\ crashes' = crashes
        /\ WorkMoves \/ Fails \/ WorkDelivers \/ DestroyIAM
        /\ work.sync \in BOOLEAN
        /\ work.d.op \in {"deliver", "remove"}
    BY <1>5, WorkControl, WorkFacts, DeliveryFields DEF Types
  <2>s. work.sync => /\ call = [pc |-> "busy", d |-> work.d] /\ call # NoCall /\ call.pc = "busy"
                     /\ plat.d = work.d /\ work.d.op = "remove"
    BY <1>0, <2>0, CallFacts DEF CallsAndLock, Types
  <2>1. CASE WorkMoves
    <3>1. UNCHANGED <<call, clusterGen, outbox, crashes>>
      BY <2>0, <2>1 DEF WorkMoves
    <3>2. /\ plat'.d = plat.d
          /\ plat'.state = plat.state \/ (plat.state = "pending" /\ plat'.state = "progressing")
      BY <1>t, <2>1, ProgressFacts DEF WorkMoves
    <3>3. work' # NoWork /\ work'.d = work.d /\ work'.sync = work.sync
      BY <2>1, WorkFacts, <1>t DEF WorkMoves
    <3>4. work'.pc \in IF work'.d.op = "deliver" THEN EnsurePlaces ELSE DeletePlaces
      BY <1>0, <2>0, <2>1 DEF WorkMoves, CallsAndLock
    <3>5. work.sync /\ work'.pc \notin {"stop", "auth"} => plat'.state # "pending"
      BY <1>0, <1>t, <2>0, <2>1, <2>s, <3>2, ProgressFacts DEF WorkMoves, CallsAndLock
    <3>6. CallsAndLock'
      BY <1>0, <2>0, <3>1, <3>2, <3>3, <3>4, <3>5 DEF CallsAndLock
    <3>7. OutboxIsOfThePast'
      BY <1>0, <3>1, <3>2 DEF OutboxIsOfThePast
    <3>8. FenceInv'
      BY <1>0, <2>0, <3>1, <3>2, <3>3 DEF FenceInv, Active
    <3> QED BY <3>6, <3>7, <3>8 DEF ControlInv
  <2>2. CASE Fails \/ WorkDelivers
    <3>1. PICK r \in {"failed", "auth_failed", "delivered"} :
             /\ Unlock /\ Report(work.d, r) /\ UNCHANGED <<clusterGen, outbox>>
             /\ r = "delivered" => work.pc = "index"
      BY <2>2 DEF Fails, Finish, WorkDelivers
    <3>2. plat'.d = plat.d
          /\ (plat'.state = plat.state \/ (plat.d = work.d /\ plat.state \in Active /\ plat'.state = r))
      BY <1>t, <3>1, ReportFacts DEF Terminal
    <3>3. work' = NoWork /\ call' \in {call, NoCall} /\ (work.sync => call' = NoCall)
      BY <2>0, <3>1, UnlockFacts
    <3>4. CallsAndLock'
      BY <1>0, <2>0, <3>1, <3>2, EndsWork
    <3>5. OutboxIsOfThePast'
      BY <1>0, <3>1, <3>2 DEF OutboxIsOfThePast
    <3>6. FenceInv'
      <4> SUFFICES ASSUME crashes = 0 PROVE FenceInv'
        BY <2>0 DEF FenceInv
      <4>1. work.d.op = "remove" => work.sync /\ r # "delivered"
        BY <1>0, <2>0, <3>1 DEF FenceInv, CallsAndLock, EnsurePlaces, DeletePlaces
      <4>2. plat.d \in outbox => plat'.state = plat.state
        BY <1>0, <2>0, <2>s, <3>2, <4>1 DEF FenceInv, OutboxIsOfThePast
      <4>3. plat.d.op = "remove" /\ call' # NoCall => plat'.state = plat.state /\ call' = call
        BY <2>s, <3>2, <3>3, <4>1
      <4>4. plat.d.op = "remove" /\ plat'.state = "delivered" => plat.state = "delivered"
        BY <3>2, <4>1
      <4>5. plat.d \in outbox => call = NoCall /\ call' = NoCall
        BY <1>0, <3>3 DEF FenceInv
      <4> QED BY <1>0, <2>0, <3>1, <3>2, <3>3, <4>2, <4>3, <4>4, <4>5 DEF FenceInv
    <3> QED BY <3>4, <3>5, <3>6 DEF ControlInv
  <2>3. CASE DestroyIAM
    <3>1. /\ work.pc = "destroyIam" /\ clusterGen' = 0 /\ Unlock
          /\ \/ work.sync /\ outbox' = outbox \cup {work.d} /\ UNCHANGED plat
             \/ ~work.sync /\ Report(work.d, "delivered") /\ UNCHANGED outbox
      BY <2>3 DEF DestroyIAM
    <3>2. plat'.d = plat.d
      BY <1>t, <3>1, ReportFacts DEF Terminal
    <3>3. work' = NoWork /\ call' \in {call, NoCall} /\ (work.sync => call' = NoCall)
      BY <2>0, <3>1, UnlockFacts
    <3>4. CallsAndLock'
      BY <1>0, <2>0, <3>1, <3>2, EndsWork
    <3>5. OutboxIsOfThePast'
      BY <1>0, <2>s, <3>1, <3>2 DEF OutboxIsOfThePast
    <3>6. FenceInv'
      <4> SUFFICES ASSUME crashes = 0 PROVE FenceInv'
        BY <2>0 DEF FenceInv
      <4>1. work.sync
        BY <1>0, <2>0, <3>1 DEF FenceInv, CallsAndLock, EnsurePlaces
      <4>2. plat.state \in Active /\ plat.state # "pending"
        BY <1>0, <2>0, <2>s, <3>1, <4>1 DEF FenceInv, CallsAndLock
      <4> QED BY <2>0, <3>1, <3>3, <4>1, <4>2, PlatFacts DEF FenceInv, Active
    <3> QED BY <3>4, <3>5, <3>6 DEF ControlInv
  <2> QED BY <2>0, <2>1, <2>2, <2>3
<1>6. CASE ClsStep \/ UNCHANGED vars
  <2>1. UNCHANGED <<plat, call, clusterGen, work, outbox, crashes>>
    BY <1>6 DEF ClsStep, CreateTakesEffect, ClusterEnds, PscEnds, vars
  <2> QED BY <1>0, <2>1 DEF ControlInv, CallsAndLock, OutboxIsOfThePast, FenceInv
<1>7. ASSUME NEW d \in outbox, RemovalReported(d) PROVE ControlInv'
  <2>1. Report(d, "delivered") /\ outbox' = outbox \ {d} /\ UNCHANGED <<call, clusterGen, work, crashes>>
    BY <1>7 DEF RemovalReported
  <2>2. plat'.d = plat.d /\ (plat'.state = plat.state \/ (plat.d = d /\ plat'.state = "delivered"))
    BY <1>t, <2>1, ReportFacts DEF Terminal
  <2>3. CallsAndLock'
    BY <1>0, <2>1, <2>2 DEF CallsAndLock
  <2>4. OutboxIsOfThePast'
    BY <1>0, <2>1, <2>2 DEF OutboxIsOfThePast
  <2>5. FenceInv'
    <3> SUFFICES ASSUME crashes = 0 PROVE FenceInv'
      BY <2>1 DEF FenceInv
    <3> QED BY <1>0, <1>7, <2>1, <2>2 DEF FenceInv
  <2> QED BY <2>3, <2>4, <2>5 DEF ControlInv
<1>8. CASE Crash
  <2>1. call' = NoCall /\ outbox' = {} /\ crashes' = crashes + 1 /\ UNCHANGED plat
        /\ work' \in {NoWork, Started(plat.d, FALSE)}
    BY <1>8 DEF Crash
  <2>2. work' = NoWork \/ /\ work'.sync = FALSE /\ work'.d = plat.d
                          /\ work'.pc = IF plat.d.op = "deliver" THEN "auth" ELSE "stop"
    BY <2>1, PlatFacts, StartedFacts
  <2>3. NoCall.pc = "none"
    BY DEF NoCall
  <2>4. CallsAndLock'
    BY <2>1, <2>2, <2>3 DEF CallsAndLock, EnsurePlaces, DeletePlaces
  <2>5. crashes' # 0
    BY <2>1, PlatFacts
  <2> QED BY <2>1, <2>4, <2>5 DEF ControlInv, OutboxIsOfThePast, FenceInv
<1> QED BY <1>1, <1>2, <1>3, <1>4, <1>5, <1>6, <1>7, <1>8 DEF Next, CallStep

\* Until the server stops, the generation fence of the agent refuses nothing
\* the platform dispatches: acceptGeneration is about late calls only.
THEOREM FenceNeverRefusesCurrent == Spec => []FenceAdmitsCurrent
<1>1. Types /\ ControlInv => FenceAdmitsCurrent
  <2> SUFFICES ASSUME Types, ControlInv, crashes = 0, call.pc = "accept"
               PROVE  acceptGeneration(call.d.gen)
    BY DEF FenceAdmitsCurrent
  <2>1. call.d = plat.d
    BY CallFacts DEF Types, ControlInv, CallsAndLock
  <2> QED BY <2>1, PlatFacts DEF ControlInv, FenceInv, acceptGeneration
<1>2. Spec => [](Types /\ ControlInv)
  BY TypesInit, TypesStep, ControlInit, ControlStep, PTL DEF Spec
<1> QED BY <1>1, <1>2, PTL

-----------------------------------------------------------------------------
(* The cloud resources                                                     *)

\* What holds wherever the work is.
Resources == /\ Exists => inflight = NoVersion /\ iam /\ infra
             /\ inflight # NoVersion => iam /\ infra

\* Places that assume nothing.
LEMMA IdlePlaces ==
    ASSUME Resources', work'.pc \in {"none", "stop", "auth", "exchange", "resolve"}
    PROVE  WorldInv'
BY DEF Resources, WorldInv

\* Reconciling the nodepools makes them those of the generation ...
LEMMA PoolsReconciled == PoolsAfter(Missing, Present, Removed) = ServedPools(work.d)
<1>1. Present \cup Removed = Ids(pools) /\ Missing \cup Present = Desired[work.d.gen]
  BY DEF Present, Removed, Missing
<1>2. {p \in pools : p.id \notin Present \cup Removed} = {}
  BY <1>1 DEF Ids
<1> QED BY <1>1, <1>2 DEF PoolsAfter, ServedPools

\* ... and changes nothing when they are, as far as it gets.
LEMMA PoolsUnchanged ==
    ASSUME pools = ServedPools(work.d)
    PROVE  /\ Missing = {} /\ Removed = {}
           /\ \A u \in SUBSET Present : PoolsAfter({}, u, {}) = pools
<1> DEFINE v == Version(work.d)
           D == Desired[work.d.gen]
<1>1. pools = [id : D, spec : {v}]
  BY DEF ServedPools
<1>2. Ids(pools) = D
  <2>1. \A i \in D : [id |-> i, spec |-> v] \in pools /\ [id |-> i, spec |-> v].id = i
    BY <1>1
  <2>2. \A p \in pools : p.id \in D
    BY <1>1
  <2> QED BY <2>1, <2>2 DEF Ids
<1>3. Missing = {} /\ Removed = {} /\ Present = D
  BY <1>2 DEF Missing, Removed, Present
<1>4. ASSUME NEW u \in SUBSET D PROVE PoolsAfter({}, u, {}) = pools
  <2>1. PoolsAfter({}, u, {}) = {p \in pools : p.id \notin u} \cup [id : u, spec : {v}]
    BY DEF PoolsAfter
  <2>2. {p \in pools : p.id \notin u} \cup [id : u, spec : {v}] = pools
    <3> HIDE DEF v, D
    <3>1. ASSUME NEW p \in pools, p.id \in u PROVE p \in [id : u, spec : {v}]
      BY <1>1, <3>1
    <3>2. [id : u, spec : {v}] \subseteq pools
      BY <1>1, <1>4
    <3> QED BY <3>1, <3>2
  <2> QED BY <2>1, <2>2
<1> QED BY <1>3, <1>4

\* Facts about the cluster's record.
LEMMA ClusterFacts ==
    ASSUME Types
    PROVE  /\ Exists => cluster \in [phase : {"up", "deleting"}, spec : Versions]
           /\ cluster.phase = "absent" <=> ~Exists
           /\ \A v : Exists => /\ [cluster EXCEPT !.spec = v] # Absent
                               /\ [cluster EXCEPT !.spec = v].spec = v
                               /\ [cluster EXCEPT !.phase = "deleting"] # Absent
           /\ \A v : [phase |-> "up", spec |-> v] # Absent
           /\ \A v : cluster.phase = "up" /\ cluster.spec = v => cluster = [phase |-> "up", spec |-> v]
<1>1. Absent.phase = "absent"
  BY DEF Absent
<1>2. Exists => cluster \in [phase : {"up", "deleting"}, spec : Versions]
  BY DEF Types, WorldTypes, Exists
<1>3. ASSUME NEW c \in [phase : {"up", "deleting"}, spec : Versions]
      PROVE  /\ c.phase # "absent" /\ DOMAIN c = {"phase", "spec"}
             /\ \A v : /\ [c EXCEPT !.spec = v].phase # "absent"
                       /\ [c EXCEPT !.spec = v].spec = v
                       /\ [c EXCEPT !.phase = "deleting"].phase # "absent"
                       /\ c.phase = "up" /\ c.spec = v => c = [phase |-> "up", spec |-> v]
  BY <1>3
<1>4. \A v : [phase |-> "up", spec |-> v].phase = "up"
  OBVIOUS
<1> QED BY <1>1, <1>2, <1>3, <1>4 DEF Exists

LEMMA WorldInit == Init => WorldInv
<1> SUFFICES ASSUME Init PROVE WorldInv
  OBVIOUS
<1>1. ~Exists /\ work = NoWork /\ inflight = NoVersion
  BY DEF Init, Exists
<1>2. NoWork.pc = "none"
  BY DEF NoWork
<1> QED BY <1>1, <1>2 DEF WorldInv

\* The work's steps, one by one.
LEMMA WorldWorkStep ==
    ASSUME LateCreates = FALSE, Types, ControlInv, WorldInv, WorkStep
    PROVE  WorldInv'
<1>0. work \in WorkRec /\ work # NoWork /\ work.pc \in Places /\ Resources
  BY WorkControl, WorkFacts DEF Types, WorldInv, Resources
<1>f. ASSUME Fails \/ Finish("failed"), Resources' PROVE WorldInv'
  <2>1. work' = NoWork
    BY <1>f DEF Fails, Finish, Unlock
  <2>2. work'.pc = "none"
    BY <2>1 DEF NoWork
  <2> QED BY <1>f, <2>2, IdlePlaces
<1>u. UNCHANGED world => Resources' /\ (Exists <=> Exists')
  BY <1>0 DEF world, Resources, Exists
<1>c. ASSUME NEW place \in Places, Continue(place)
      PROVE  work' \in WorkRec /\ work'.pc = place /\ work'.d = work.d
  BY <1>0, <1>c, GotoFacts DEF Continue
<1>p. /\ EnsurePlaces \subseteq Places /\ DeletePlaces \subseteq Places
  BY DEF Places
<1>a. Answered => inflight = NoVersion
  BY DEF Answered
<1> USE DEF EnsurePlaces, DeletePlaces
<1>1. CASE AnnounceExchange
  <2>1. work'.pc = "exchange" /\ UNCHANGED world
    BY <1>0, <1>1, <1>p, GotoFacts DEF AnnounceExchange
  <2> QED BY <1>u, <2>1, IdlePlaces
<1>x. CASE Exchange
  <2>1. work'.pc = "resolve" /\ UNCHANGED world
    BY <1>c, <1>p, <1>x DEF Exchange
  <2> QED BY <1>u, <2>1, IdlePlaces
<1>2. CASE ExchangeRefused \/ StepFails
  <2>1. UNCHANGED world /\ (Fails \/ Finish("auth_failed"))
    BY <1>2 DEF ExchangeRefused, StepFails
  <2> QED BY <1>f, <1>u, <2>1 DEF Fails
<1>3. CASE EnsureResolves
  <2>1. UNCHANGED world /\ inflight = NoVersion /\ work'.pc \in {"update", "iam"}
        /\ (work'.pc = "iam" => ~Exists)
    BY <1>3, <1>a, <1>c, <1>p DEF EnsureResolves
  <2>2. Resources' /\ (Exists <=> Exists') /\ inflight' = NoVersion
    BY <1>u, <2>1 DEF world
  <2> QED BY <2>1, <2>2 DEF WorldInv, Resources
<1>4. CASE UpdateCluster
  <2>1. CASE Exists
    <3>1. cluster' = [cluster EXCEPT !.spec = Version(work.d)] /\ Continue("nodepools")
          /\ UNCHANGED <<iam, infra, inflight>>
      BY <1>4, <2>1 DEF UpdateCluster
    <3>2. work'.pc = "nodepools" /\ work'.d = work.d
      BY <1>c, <1>p, <3>1
    <3>3. cluster'.spec = Version(work'.d) /\ Exists'
      BY <2>1, <3>1, <3>2, ClusterFacts DEF Exists, Version
    <3>4. inflight' = NoVersion /\ iam' /\ infra'
      BY <1>0, <2>1, <3>1 DEF Resources
    <3> QED BY <3>2, <3>3, <3>4 DEF WorldInv
  <2>2. CASE ~Exists
    <3>1. UNCHANGED world /\ Finish("failed")
      BY <1>4, <2>2 DEF UpdateCluster, world
    <3> QED BY <1>f, <1>u, <3>1
  <2> QED BY <2>1, <2>2
<1>5. CASE UpdateFails \/ ReconcileNodepoolsFails \/ DeleteClusterFails
  <2>1. Exists /\ Fails /\ UNCHANGED <<iam, infra, inflight>>
    BY <1>5 DEF UpdateFails, ReconcileNodepoolsFails, DeleteClusterFails
  <2> QED BY <1>0, <1>f, <2>1 DEF Resources
<1>6. CASE CreatePrereq
  <2>1. work.pc \in {"iam", "infra", "repairIam", "repairInfra"} /\ Continue(NextOf[work.pc])
        /\ UNCHANGED <<cluster, pools, psc, inflight>> /\ Makes(TRUE)
    BY <1>6 DEF CreatePrereq, NextOf
  <2>2. \/ work.pc = "iam" /\ work'.pc = "infra" /\ iam' = TRUE /\ UNCHANGED infra
        \/ work.pc = "infra" /\ work'.pc = "create" /\ infra' = TRUE /\ UNCHANGED iam
        \/ work.pc = "repairIam" /\ work'.pc = "repairInfra" /\ iam' = TRUE /\ UNCHANGED infra
        \/ work.pc = "repairInfra" /\ work'.pc = "repairUpdate" /\ infra' = TRUE /\ UNCHANGED iam
    BY <1>c, <1>p, <2>1 DEF NextOf, Makes
  <2>3. inflight' = NoVersion /\ (Exists' <=> Exists)
    BY <2>1 DEF WorldInv, Exists
  <2>4. Exists' => iam' /\ infra'
    BY <1>0, <2>2, <2>3 DEF Resources
  <2>5. work'.pc \in {"infra", "create"} => ~Exists' /\ iam'
    BY <2>2, <2>3 DEF WorldInv
  <2>6. work'.pc = "create" => infra'
    BY <2>2
  <2> QED BY <2>2, <2>3, <2>4, <2>5, <2>6 DEF WorldInv
<1>7. CASE CreatePrereqFails
  <2>1. work.pc \in {"iam", "infra", "repairIam", "repairInfra"}
        /\ UNCHANGED <<cluster, pools, psc, inflight>>
        /\ \E there \in {Made, TRUE} : Makes(there)
    BY <1>7 DEF CreatePrereqFails, NextOf
  <2>2. (iam => iam') /\ (infra => infra')
    BY <2>1 DEF Makes, Made
  <2>3. inflight' = NoVersion /\ (Exists' <=> Exists)
    BY <2>1 DEF WorldInv, Exists
  <2>4. Resources'
    BY <1>0, <2>2, <2>3 DEF Resources
  <2>5. CASE Fails
    BY <1>f, <2>4, <2>5
  <2>6. CASE work' = [work EXCEPT !.tries = @ + 1]
    <3>1. work'.pc = work.pc
      BY <1>0, <2>6 DEF WorkRec
    <3> QED BY <2>1, <2>2, <2>3, <2>4, <3>1 DEF WorldInv, Resources
  <2> QED BY <1>7, <2>5, <2>6 DEF CreatePrereqFails
<1>8. CASE CreateCluster
  <2>1. work.pc = "create" /\ cluster' = Up(work.d) /\ work'.pc = "nodepools" /\ work'.d = work.d
        /\ UNCHANGED <<iam, infra, inflight>>
    BY <1>8, <1>c, <1>p DEF CreateCluster, Created, Up
  <2>2. iam' /\ infra' /\ inflight' = NoVersion
    BY <2>1 DEF WorldInv
  <2>3. Exists' /\ cluster'.spec = Version(work'.d)
    BY <2>1, ClusterFacts DEF Up, Exists, Version
  <2> QED BY <2>1, <2>2, <2>3 DEF WorldInv
<1>9. CASE CreateRefused \/ ProbeTimesOut
  <2>1. UNCHANGED world /\ work'.pc = "cleanup" /\ ~Exists /\ inflight = NoVersion
    BY <1>9, <1>a, <1>c, <1>p DEF CreateRefused, ProbeTimesOut, WorldInv
  <2>2. ~Exists' /\ inflight' = NoVersion
    BY <1>u, <2>1 DEF world
  <2> QED BY <2>1, <2>2 DEF WorldInv
<1>10. CASE CreateUnconfirmed
  <2>1. work.pc = "create" /\ work'.pc = "probe" /\ UNCHANGED <<cluster, iam, infra>>
    BY <1>10, <1>c, <1>p DEF CreateUnconfirmed
  <2>2. ~Exists' /\ iam' /\ infra'
    BY <2>1 DEF WorldInv, Exists
  <2> QED BY <2>1, <2>2 DEF WorldInv
<1>11. CASE ProbeFinds
  <2>1. UNCHANGED world /\ work'.pc = "repairIam" /\ Exists
    BY <1>11, <1>c, <1>p DEF ProbeFinds
  <2>2. Resources' /\ Exists'
    BY <1>u, <2>1
  <2> QED BY <2>1, <2>2 DEF WorldInv, Resources
<1>12. CASE CleanupCreate
  <2>1. Fails /\ ~Exists /\ inflight = NoVersion /\ UNCHANGED <<cluster, inflight>>
    BY <1>12 DEF CleanupCreate, WorldInv
  <2> QED BY <1>f, <2>1 DEF Resources, Exists
<1>13. CASE ReconcileNodepools
  <2>0. UNCHANGED <<cluster, iam, infra, inflight>> /\ work.pc = "nodepools"
    BY <1>13 DEF ReconcileNodepools
  <2>1. Resources' /\ (Exists' <=> Exists)
    BY <1>0, <2>0 DEF Resources, Exists
  <2>2. CASE Exists
    <3>1. pools' = ServedPools(work.d) /\ work'.pc = "ready" /\ work'.d = work.d
      BY <1>13, <1>c, <1>p, <2>2, PoolsReconciled DEF ReconcileNodepools
    <3>2. cluster'.spec = Version(work'.d) /\ pools' = ServedPools(work'.d)
      BY <2>0, <2>2, <3>1 DEF WorldInv, Version, ServedPools
    <3> QED BY <2>1, <2>2, <3>1, <3>2 DEF WorldInv, Resources
  <2>3. CASE ~Exists
    BY <1>13, <1>f, <2>1, <2>3 DEF ReconcileNodepools
  <2> QED BY <2>2, <2>3
<1>14. CASE AwaitCluster
  <2>1. work.pc \in {"ready", "register", "healthy"} /\ UNCHANGED world
        /\ \/ cluster.phase = "up" /\ Continue(AfterWait[work.pc])
           \/ Finish("failed")
    BY <1>14 DEF AwaitCluster, AfterWait
  <2>2. CASE Finish("failed")
    BY <1>f, <1>u, <2>1, <2>2
  <2>3. CASE cluster.phase = "up" /\ Continue(AfterWait[work.pc])
    <3>1. AfterWait[work.pc] \in {"register", "healthy", "index"}
      BY <2>1 DEF AfterWait
    <3>2. work'.pc \in {"register", "healthy", "index"} /\ work'.d = work.d
      BY <1>c, <1>p, <2>3, <3>1
    <3>3. Exists /\ cluster = Up(work.d) /\ pools = ServedPools(work.d)
      <4>1. Exists
        BY <2>3, ClusterFacts
      <4>2. cluster.spec = Version(work.d) => cluster = Up(work.d)
        BY <2>3, ClusterFacts DEF Up
      <4> QED BY <2>1, <4>1, <4>2 DEF WorldInv
    <3>4. Resources' /\ Exists' /\ cluster' = Up(work'.d) /\ pools' = ServedPools(work'.d)
      BY <1>u, <2>1, <3>2, <3>3 DEF world, Up, ServedPools, Version
    <3> QED BY <3>2, <3>4 DEF WorldInv, Resources
  <2> QED BY <2>1, <2>2, <2>3
<1>15. CASE EnsureIndexer
  <2>1. work' = NoWork /\ UNCHANGED world
    BY <1>15 DEF EnsureIndexer, Unlock
  <2> QED BY <1>u, <2>1, IdlePlaces DEF NoWork
<1>16. CASE StopIndexer
  <2>1. work'.pc = "auth" /\ UNCHANGED world
    BY <1>0, <1>16, <1>p, GotoFacts DEF StopIndexer
  <2> QED BY <1>u, <2>1, IdlePlaces
<1>17. CASE DeleteCluster
  <2>1. inflight' = NoVersion /\ UNCHANGED <<iam, infra>>
    BY <1>17, <1>a DEF DeleteCluster
  <2>2. CASE Exists
    <3>1. work'.pc = "gone"
      BY <1>17, <1>c, <1>p, <2>2 DEF DeleteCluster
    <3>2. iam' /\ infra'
      BY <1>0, <2>1, <2>2 DEF Resources
    <3> QED BY <2>1, <3>1, <3>2 DEF WorldInv
  <2>3. CASE ~Exists
    <3>1. work'.pc = "destroyInfra" /\ ~Exists'
      BY <1>17, <1>c, <1>p, <2>3 DEF DeleteCluster, Exists
    <3> QED BY <2>1, <3>1 DEF WorldInv
  <2> QED BY <2>2, <2>3
<1>18. CASE DeleteFindsNone
  <2>1. Exists
    BY <1>18, ClusterFacts DEF DeleteFindsNone
  <2>2. work'.pc = "psc" /\ ~Exists' /\ inflight' = NoVersion
    BY <1>0, <1>18, <1>c, <1>p, <2>1 DEF DeleteFindsNone, Exists, Resources
  <2> QED BY <2>2 DEF WorldInv
<1>19. CASE PollClusterDeleted \/ WaitForPSCCleanup
  <2>1. UNCHANGED world /\ work'.pc \in {"psc", "destroyInfra"} /\ ~Exists /\ inflight = NoVersion
    BY <1>19, <1>c, <1>p DEF PollClusterDeleted, WaitForPSCCleanup, WorldInv
  <2>2. ~Exists' /\ inflight' = NoVersion
    BY <1>u, <2>1 DEF world
  <2> QED BY <2>1, <2>2 DEF WorldInv
<1>20. CASE DestroyInfra
  <2>1. work'.pc = "destroyIam" /\ infra' = FALSE /\ UNCHANGED <<cluster, inflight>>
        /\ work.pc = "destroyInfra"
    BY <1>20, <1>c, <1>p DEF DestroyInfra
  <2>2. ~Exists' /\ inflight' = NoVersion
    BY <2>1 DEF WorldInv, Exists
  <2> QED BY <2>1, <2>2 DEF WorldInv
<1>21. CASE DestroyIAM
  <2>1. work' = NoWork /\ UNCHANGED <<cluster, inflight>> /\ work.pc = "destroyIam"
    BY <1>21 DEF DestroyIAM, Unlock
  <2>2. ~Exists' /\ inflight' = NoVersion
    BY <2>1 DEF WorldInv, Exists
  <2>3. Resources'
    BY <2>2 DEF Resources
  <2> QED BY <2>1, <2>3, IdlePlaces DEF NoWork
<1>22. CASE DestroyFails
  <2>1. Fails /\ UNCHANGED <<cluster, inflight>> /\ work.pc \in {"destroyInfra", "destroyIam"}
    BY <1>22 DEF DestroyFails
  <2>2. ~Exists' /\ inflight' = NoVersion
    BY <2>1 DEF WorldInv, Exists
  <2> QED BY <1>f, <2>1, <2>2 DEF Resources
<1> QED BY <1>1, <1>x, <1>2, <1>3, <1>4, <1>5, <1>6, <1>7, <1>8, <1>9, <1>10, <1>11, <1>12, <1>13,
           <1>14, <1>15, <1>16, <1>17, <1>18, <1>19, <1>20, <1>21, <1>22 DEF WorkStep

LEMMA WorldStep ==
    ASSUME LateCreates = FALSE, Types, ControlInv, WorldInv, [Next]_vars
    PROVE  WorldInv'
<1>0. Resources /\ plat.d \in Delivery
  BY PlatFacts DEF WorldInv, Resources
<1>1. CASE Platform \/ RefuseStale \/ Accept \/ (\E d \in outbox : RemovalReported(d)) \/ UNCHANGED vars
  <2>1. UNCHANGED <<work, world>>
    BY <1>1 DEF Platform, NewGeneration, Redispatch, Recreate, Dispatch, RefuseStale, Accept,
                RemovalReported, vars
  <2> QED BY <2>1 DEF world, WorldInv, Exists
<1>2. CASE TakeLock \/ Crash
  <2>1. UNCHANGED world
    BY <1>2 DEF TakeLock, Crash
  <2>2. work'.pc \in {"none", "auth", "stop"}
    BY <1>2, <1>0 DEF TakeLock, Crash, Started, NoWork
  <2>3. Resources'
    BY <1>0, <2>1 DEF world, Resources, Exists
  <2> QED BY <2>2, <2>3, IdlePlaces
<1>3. CASE WorkStep
  BY <1>3, WorldWorkStep
<1>4. CASE CreateTakesEffect
  <2>1. iam' /\ infra' /\ inflight' = NoVersion /\ work' = work
        /\ work.pc \in {"none", "stop", "auth", "exchange", "resolve", "probe"}
    BY <1>4 DEF CreateTakesEffect, WorldInv
  <2> QED BY <2>1 DEF WorldInv
<1>5. CASE ClusterEnds
  <2>1. Exists /\ cluster.phase = "deleting"
    BY <1>5, ClusterFacts DEF ClusterEnds
  <2>2. ~Exists' /\ inflight' = NoVersion /\ UNCHANGED <<iam, infra, work>>
    BY <1>0, <1>5, <2>1 DEF ClusterEnds, Exists, Resources
  <2>3. work.pc \notin {"register", "healthy", "index"}
    BY <2>1 DEF WorldInv, Up
  <2> QED BY <2>2, <2>3 DEF WorldInv
<1>6. CASE PscEnds
  BY <1>6 DEF PscEnds, WorldInv, Exists
<1> QED BY <1>1, <1>2, <1>3, <1>4, <1>5, <1>6 DEF Next, CallStep, ClsStep

\* Without creates that take effect after the next lookup of the cluster, one that
\* exists keeps its IAM resources and its infrastructure, whatever fails or
\* stops in the flows of the reconciler that make and unmake them.
THEOREM ClusterNeverLosesInfra ==
    ASSUME LateCreates = FALSE
    PROVE  Spec => []ClusterKeepsInfra
<1>1. Types /\ ControlInv /\ WorldInv /\ [Next]_vars => WorldInv'
  BY WorldStep
<1>2. WorldInv => ClusterKeepsInfra
  BY DEF WorldInv, ClusterKeepsInfra
<1> QED BY <1>1, <1>2, TypesInit, TypesStep, ControlInit, ControlStep, WorldInit, PTL DEF Spec

-----------------------------------------------------------------------------
(* Removed and served                                                      *)

\* Where nothing is, a removal finds nothing and makes nothing.
LEMMA VacantWork ==
    ASSUME Types, CallsAndLock, Vacant, WorkStep
    PROVE  Vacant'
<1>0. /\ work \in WorkRec /\ work # NoWork /\ work.d.op = "remove" /\ work.pc \in DeletePlaces
      /\ ~Exists /\ ~iam /\ ~infra /\ inflight = NoVersion
      /\ WorkMoves \/ Fails \/ WorkDelivers \/ DestroyIAM
  BY WorkControl, WorkFacts DEF Types, CallsAndLock, Vacant
<1>1. work' # NoWork => work'.d.op = "remove"
  BY <1>0 DEF WorkMoves, Fails, Finish, WorkDelivers, DestroyIAM, Unlock
<1> USE DEF DeletePlaces
<1>2. cluster' = cluster /\ inflight' = inflight
  <2>1. cluster.phase # "deleting"
    BY <1>0, ClusterFacts
  <2> QED BY <1>0, <2>1
       DEF WorkStep, AnnounceExchange, Exchange, ExchangeRefused, StepFails, EnsureResolves, UpdateCluster,
           UpdateFails, CreatePrereq, CreatePrereqFails, CreateCluster, CreateRefused,
           CreateUnconfirmed, ProbeFinds, ProbeTimesOut, CleanupCreate, ReconcileNodepools,
           ReconcileNodepoolsFails, AwaitCluster, EnsureIndexer, StopIndexer, DeleteCluster,
           DeleteClusterFails, DeleteFindsNone, PollClusterDeleted, WaitForPSCCleanup,
           DestroyInfra, DestroyIAM, DestroyFails, At, NextOf, AfterWait, world
<1>3. ~iam' /\ ~infra'
  <2>1. ~CreatePrereq /\ ~CreatePrereqFails /\ ~CleanupCreate
    BY <1>0 DEF CreatePrereq, CreatePrereqFails, CleanupCreate, NextOf
  <2>2. CASE DestroyInfra \/ DestroyIAM \/ DestroyFails
    <3>1. (iam' = FALSE \/ iam' = iam) /\ (infra' = FALSE \/ infra' = infra)
      BY <2>2 DEF DestroyInfra, DestroyIAM, DestroyFails, Continue
    <3>2. ~iam /\ ~infra
      BY <1>0
    <3>3. ~iam'
      BY <3>1, <3>2, Zenon
    <3>4. ~infra'
      BY <3>1, <3>2, Zenon
    <3> QED BY <3>3, <3>4
  <2>3. CASE ~(DestroyInfra \/ DestroyIAM \/ DestroyFails)
    <3>1. UNCHANGED <<iam, infra>>
      BY <1>0, <2>1, <2>3
         DEF WorkStep, AnnounceExchange, Exchange, ExchangeRefused, StepFails, EnsureResolves, UpdateCluster,
             UpdateFails, CreateCluster, CreateRefused, CreateUnconfirmed, ProbeFinds,
             ProbeTimesOut, ReconcileNodepools, ReconcileNodepoolsFails, AwaitCluster,
             EnsureIndexer, StopIndexer, DeleteCluster, DeleteClusterFails, DeleteFindsNone,
             PollClusterDeleted, WaitForPSCCleanup, world
    <3> QED BY <1>0, <3>1
  <2> QED BY <2>2, <2>3
<1> QED BY <1>0, <1>1, <1>2, <1>3 DEF Vacant, Exists

LEMMA VacantStep ==
    ASSUME Types, ControlInv, WorldInv, VacantInv, [Next]_vars
    PROVE  VacantInv'
<1>0. CallsAndLock /\ OutboxIsOfThePast
  BY DEF ControlInv
<1>t. plat \in PlatRec /\ call \in {NoCall} \cup CallRec /\ work \in {NoWork} \cup WorkRec
  BY DEF Types
<1>s. Vacant /\ UNCHANGED <<work, world>> => Vacant'
  BY DEF Vacant, world, Exists
<1>1. CASE Platform
  <2>1. PICK d \in Delivery :
              /\ Dispatch(d)
              /\ \/ d = plat.d /\ plat.state \in {"pending", "failed", "delivered"}
                 \/ d.inc = plat.d.inc /\ d.gen = plat.d.gen + 1
                 \/ /\ plat.d.op = "remove" /\ plat.state = "delivered"
                    /\ d.inc = plat.d.inc + 1 /\ d.op = "deliver"
    BY <1>1, DispatchFacts
  <2>2. plat'.d = d /\ plat'.state = "pending" /\ UNCHANGED <<clusterGen, outbox, work, world>>
    BY <2>1 DEF Dispatch
  <2>3. d.inc \in Nat /\ d.gen \in Nat
    BY DeliveryFields
  <2>4. d \in outbox => Vacant
    <3>1. d \in outbox => d = plat.d
      BY <1>0, <2>1, <2>3, PlatFacts DEF OutboxIsOfThePast
    <3> QED BY <3>1 DEF VacantInv
  <2>5. clusterGen > d.gen => Vacant
    BY <2>1, <2>3, PlatFacts DEF VacantInv
  <2> QED BY <1>s, <2>2, <2>4, <2>5 DEF VacantInv
<1>2. CASE RefuseStale
  <2>1. call # NoCall /\ call.d = plat.d /\ clusterGen > plat.d.gen
        /\ UNCHANGED <<clusterGen, work, world>>
    BY <1>0, <1>2, <1>t, CallFacts, PlatFacts DEF RefuseStale, CallsAndLock, acceptGeneration
  <2> QED BY <1>s, <2>1 DEF VacantInv
<1>3. CASE Accept
  <2>1. call # NoCall /\ call.d = plat.d /\ clusterGen' = plat.d.gen /\ UNCHANGED <<outbox, work, world>>
    BY <1>0, <1>3, <1>t, CallFacts DEF Accept, CallsAndLock
  <2>2. Report(call.d, "auth_failed") \/ UNCHANGED plat
    BY <1>3 DEF Accept
  <2>3. plat'.d = plat.d /\ (plat'.state = "delivered" => plat.state = "delivered")
    BY <1>t, <2>2, ReportFacts DEF Terminal
  <2> QED BY <1>s, <2>1, <2>3, PlatFacts DEF VacantInv
<1>4. CASE TakeLock
  <2>1. call # NoCall /\ call.d = plat.d /\ call.pc = "lock" /\ work' = Started(plat.d, plat.d.op = "remove")
        /\ UNCHANGED <<plat, clusterGen, outbox, world>>
    BY <1>0, <1>4, <1>t, CallFacts DEF TakeLock, CallsAndLock
  <2>2. work'.d = plat.d
    BY <2>1 DEF Started
  <2>3. plat.d.op = "remove" /\ Vacant => Vacant'
    BY <2>1, <2>2 DEF Vacant, world, Exists
  <2>4. ~(clusterGen > plat.d.gen)
    BY <1>0, <2>1, PlatFacts DEF CallsAndLock
  <2>5. plat.d \in outbox => plat.d.op = "remove"
    BY <1>0 DEF OutboxIsOfThePast
  <2> QED BY <2>1, <2>3, <2>4, <2>5 DEF VacantInv
<1>5. CASE WorkStep
  <2>0. /\ work \in WorkRec /\ work # NoWork
        /\ WorkMoves \/ Fails \/ WorkDelivers \/ DestroyIAM
    BY <1>5, WorkControl, WorkFacts DEF Types
  <2>1. Vacant => Vacant'
    BY <1>0, <1>5, VacantWork
  <2>2. CASE WorkMoves
    <3>1. plat'.d = plat.d /\ (plat'.state = "delivered" => plat.state = "delivered")
          /\ UNCHANGED <<outbox, clusterGen>>
      BY <1>t, <2>2, ProgressFacts DEF WorkMoves
    <3> QED BY <2>1, <3>1 DEF VacantInv
  <2>3. CASE Fails
    <3>1. PICK r \in {"failed", "auth_failed"} : Report(work.d, r) /\ UNCHANGED <<outbox, clusterGen>>
      BY <2>3 DEF Fails, Finish
    <3>2. plat'.d = plat.d /\ (plat'.state = "delivered" => plat.state = "delivered")
      BY <1>t, <3>1, ReportFacts DEF Terminal
    <3> QED BY <2>1, <3>1, <3>2 DEF VacantInv
  <2>4. CASE WorkDelivers
    <3>1. work.pc = "index" /\ Report(work.d, "delivered") /\ UNCHANGED <<outbox, clusterGen>>
      BY <2>4 DEF WorkDelivers
    <3>2. work.d.op = "deliver"
      BY <1>0, <2>0, <3>1 DEF CallsAndLock, DeletePlaces
    <3>3. plat'.d = plat.d /\ (plat'.state = "delivered" /\ plat.d.op = "remove" => plat.state = "delivered")
      BY <1>t, <3>1, <3>2, ReportFacts DEF Terminal
    <3> QED BY <2>1, <3>1, <3>3 DEF VacantInv
  <2>5. CASE DestroyIAM
    <3>1. work.pc = "destroyIam" /\ work' = NoWork /\ iam' = FALSE /\ UNCHANGED <<cluster, infra, inflight>>
      BY <2>5 DEF DestroyIAM, Unlock
    <3>2. ~Exists /\ ~infra /\ inflight = NoVersion
      BY <3>1 DEF WorldInv
    <3>3. Vacant'
      BY <3>1, <3>2 DEF Vacant, Exists
    <3> QED BY <3>3 DEF VacantInv
  <2> QED BY <2>0, <2>2, <2>3, <2>4, <2>5
<1>6. CASE ClsStep \/ UNCHANGED vars
  <2>1. UNCHANGED <<plat, clusterGen, outbox, work>>
    BY <1>6 DEF ClsStep, CreateTakesEffect, ClusterEnds, PscEnds, vars
  <2>2. ASSUME Vacant PROVE Vacant'
    <3>1. cluster.phase # "deleting" /\ inflight = NoVersion
      BY <2>2, ClusterFacts DEF Vacant
    <3>2. UNCHANGED <<cluster, iam, infra, inflight>>
      BY <1>6, <3>1 DEF ClsStep, CreateTakesEffect, ClusterEnds, PscEnds, vars, world
    <3> QED BY <2>1, <2>2, <3>2 DEF Vacant, Exists
  <2> QED BY <2>1, <2>2 DEF VacantInv
<1>7. ASSUME NEW d \in outbox, RemovalReported(d) PROVE VacantInv'
  <2>1. Report(d, "delivered") /\ outbox' = outbox \ {d} /\ UNCHANGED <<clusterGen, work, world>>
    BY <1>7 DEF RemovalReported
  <2>2. plat'.d = plat.d /\ (plat'.state = plat.state \/ plat.d = d)
    BY <1>t, <2>1, ReportFacts DEF Terminal
  <2> QED BY <1>7, <1>s, <2>1, <2>2 DEF VacantInv
<1>8. CASE Crash
  <2>1. outbox' = {} /\ UNCHANGED <<plat, world>> /\ clusterGen' \in {0, plat.d.gen}
        /\ (plat.state \notin Active => work' = NoWork)
    BY <1>8 DEF Crash
  <2>2. ~(clusterGen' > plat'.d.gen)
    BY <2>1, PlatFacts
  <2>3. plat.state = "delivered" /\ Vacant => Vacant'
    BY <2>1 DEF Vacant, world, Exists, Active
  <2> QED BY <2>1, <2>2, <2>3 DEF VacantInv
<1> QED BY <1>1, <1>2, <1>3, <1>4, <1>5, <1>6, <1>7, <1>8 DEF Next, CallStep

LEMMA VacantInit == Init => VacantInv
<1> SUFFICES ASSUME Init PROVE VacantInv
  OBVIOUS
<1>1. PICK tok \in Tokens : plat = [d |-> First(1, "deliver", tok), state |-> "pending"]
  BY DEF Init
<1> QED BY <1>1 DEF Init, First, VacantInv

\* A removal that the platform counts as done has left nothing to pay for, also
\* when it was refused by the fence, repeated, or interrupted and recovered.
THEOREM RemovedLeavesNothing ==
    ASSUME LateCreates = FALSE
    PROVE  Spec => []RemovedIsGone
<1>1. Types /\ ControlInv /\ WorldInv /\ VacantInv /\ [Next]_vars => WorldInv' /\ VacantInv'
  BY WorldStep, VacantStep
<1>2. VacantInv => RemovedIsGone
  BY DEF VacantInv, Vacant, RemovedIsGone
<1> QED BY <1>1, <1>2, TypesInit, TypesStep, ControlInit, ControlStep, WorldInit, VacantInit, PTL DEF Spec

\* A delivery counts as delivered.
Counts == plat.d.op = "deliver" /\ plat.state = "delivered"

\* A repeated dispatch of what is delivered changes nothing on its way.
LEMMA ServedWork ==
    ASSUME Types, ControlInv, WorldInv, ServedInv, Counts, plat'.d = plat.d, WorkStep
    PROVE  ServedInv'
<1> DEFINE Ready == {"auth", "exchange", "resolve", "update", "nodepools", "ready", "register",
                     "healthy", "index"}
<1>0. /\ work \in WorkRec /\ work # NoWork /\ work.d = plat.d /\ work.pc \in Ready
      /\ work.d.op = "deliver" /\ Exists
      /\ cluster = Up(work.d) /\ pools = ServedPools(work.d) /\ indexer \in {0, plat.d.gen}
  <2>1. work \in WorkRec /\ work # NoWork
    BY WorkControl, WorkFacts DEF Types
  <2>2. work.d = plat.d /\ work.pc \in Ready /\ work.d.op = "deliver" /\ indexer \in {0, plat.d.gen}
        /\ cluster = Up(work.d) /\ pools = ServedPools(work.d)
    BY <2>1 DEF ServedInv, Counts
  <2>3. Exists
    BY <2>2, ClusterFacts DEF Up, Exists
  <2> QED BY <2>1, <2>2, <2>3
<1>w. UNCHANGED world => UNCHANGED <<cluster, pools>>
  BY DEF world
<1>f. Fails => work' = NoWork /\ UNCHANGED indexer
  BY DEF Fails, Finish, Unlock
<1>g. Finish("failed") => Fails
  BY DEF Fails
<1>e. [cluster EXCEPT !.spec = Version(work.d)] = cluster /\ cluster.spec = Version(work.d)
  BY <1>0 DEF Up
<1>c. ASSUME NEW place \in Ready, Continue(place)
      PROVE  work'.pc = place /\ work'.d = work.d /\ UNCHANGED indexer
  BY <1>0, <1>c, GotoFacts DEF Continue, Places, EnsurePlaces
<1>s. SUFFICES /\ UNCHANGED <<cluster, pools>> /\ indexer' \in {0, indexer, plat.d.gen}
               /\ work' = NoWork \/ (work'.d = work.d /\ work'.pc \in Ready)
  <2>1. cluster' = Up(plat'.d) /\ pools' = ServedPools(plat'.d) /\ indexer' \in {0, plat'.d.gen}
    BY <1>0, <1>s DEF Up, ServedPools, Version
  <2>2. work' # NoWork => work'.d = plat'.d /\ work'.pc \in Ready
    BY <1>0, <1>s
  <2> QED BY <2>1, <2>2 DEF ServedInv
<1>1. CASE AnnounceExchange
  <2>1. work'.pc = "exchange" /\ work'.d = work.d /\ UNCHANGED <<world, indexer>>
    BY <1>0, <1>1, GotoFacts DEF AnnounceExchange, Places, EnsurePlaces
  <2> QED BY <1>w, <2>1
<1>x. CASE Exchange
  <2>1. UNCHANGED world /\ Continue("resolve")
    BY <1>x DEF Exchange
  <2> QED BY <1>c, <1>w, <2>1
<1>2. CASE ExchangeRefused \/ StepFails
  <2>1. UNCHANGED world /\ Fails
    BY <1>2 DEF ExchangeRefused, StepFails, Fails
  <2> QED BY <1>w, <1>f, <2>1
<1>3. CASE EnsureResolves
  <2>1. UNCHANGED world /\ Continue("update")
    BY <1>0, <1>3 DEF EnsureResolves
  <2> QED BY <1>c, <1>w, <2>1
<1>4. CASE UpdateCluster
  <2>1. UNCHANGED <<cluster, pools>> /\ Continue("nodepools")
    BY <1>0, <1>4, <1>e DEF UpdateCluster
  <2> QED BY <1>c, <2>1
<1>5. CASE UpdateFails
  <2>1. UNCHANGED <<cluster, pools>> /\ Fails
    BY <1>5, <1>e DEF UpdateFails
  <2> QED BY <1>f, <2>1
<1>6. CASE ReconcileNodepools
  <2>1. UNCHANGED <<cluster, pools>> /\ Continue("ready")
    BY <1>0, <1>6, PoolsReconciled DEF ReconcileNodepools
  <2> QED BY <1>c, <2>1
<1>7. CASE ReconcileNodepoolsFails
  <2>1. UNCHANGED cluster /\ Fails
        /\ \/ \E a \in SUBSET Missing : pools' = PoolsAfter(a, {}, {})
           \/ \E u \in SUBSET Present : pools' = PoolsAfter(Missing, u, {})
           \/ \E r \in SUBSET Removed : pools' = PoolsAfter(Missing, Present, r)
    BY <1>7 DEF ReconcileNodepoolsFails
  <2>2. \E u \in SUBSET Present : pools' = PoolsAfter({}, u, {})
    BY <1>0, <2>1, PoolsUnchanged
  <2>3. pools' = pools
    BY <1>0, <2>2, PoolsUnchanged
  <2> QED BY <1>f, <2>1, <2>3
<1>8. CASE AwaitCluster
  <2>1. work.pc \in {"ready", "register", "healthy"} /\ UNCHANGED world
        /\ (Continue(AfterWait[work.pc]) \/ Fails)
    BY <1>8, <1>g DEF AwaitCluster, AfterWait
  <2>2. AfterWait[work.pc] \in Ready
    BY <2>1 DEF AfterWait
  <2> QED BY <1>c, <1>f, <1>w, <2>1, <2>2
<1>9. CASE EnsureIndexer
  <2>1. work' = NoWork /\ UNCHANGED world /\ indexer' \in {indexer, plat.d.gen}
    BY <1>0, <1>9 DEF EnsureIndexer, Unlock
  <2> QED BY <1>w, <2>1
<1> QED BY <1>0, <1>1, <1>x, <1>2, <1>3, <1>4, <1>5, <1>6, <1>7, <1>8, <1>9
        DEF WorkStep, CreatePrereq, CreatePrereqFails, CreateCluster, CreateRefused,
            CreateUnconfirmed, ProbeFinds, ProbeTimesOut, CleanupCreate, StopIndexer, DeleteCluster,
            DeleteClusterFails, DeleteFindsNone, PollClusterDeleted, WaitForPSCCleanup,
            DestroyInfra, DestroyIAM, DestroyFails, At, NextOf

LEMMA ServedStep ==
    ASSUME Types, ControlInv, WorldInv, ServedInv, [Next]_vars
    PROVE  ServedInv'
<1> SUFFICES ASSUME Counts' PROVE ServedInv'
  BY DEF ServedInv, Counts
<1>0. CallsAndLock /\ OutboxIsOfThePast /\ plat \in PlatRec /\ call \in {NoCall} \cup CallRec
  BY DEF ControlInv, Types
<1>s. ASSUME UNCHANGED <<work, cluster, pools, indexer>>, plat'.d = plat.d, plat'.state = plat.state
      PROVE  ServedInv'
  BY <1>s DEF ServedInv, Up, ServedPools, Version
<1>1. CASE Platform
  <2>1. PICK d \in Delivery : Dispatch(d)
    BY <1>1, DispatchFacts
  <2> QED BY <2>1 DEF Dispatch, Counts
<1>2. CASE RefuseStale \/ Accept
  <2>1. UNCHANGED <<work, world, indexer>>
        /\ (UNCHANGED plat \/ Report(call.d, "failed") \/ Report(call.d, "auth_failed"))
    BY <1>2 DEF RefuseStale, Accept
  <2>2. plat'.d = plat.d /\ plat'.state = plat.state
    BY <1>0, <2>1, ReportFacts DEF Terminal, Counts
  <2> QED BY <1>s, <2>1, <2>2 DEF world
<1>3. CASE TakeLock
  <2>1. call # NoCall /\ call.d = plat.d /\ work' = Started(plat.d, plat.d.op = "remove")
        /\ UNCHANGED <<plat, world, indexer>>
    BY <1>0, <1>3, CallFacts DEF TakeLock, CallsAndLock
  <2>2. Counts /\ work'.d = plat'.d /\ work'.pc = "auth"
    BY <2>1 DEF Started, Counts
  <2> QED BY <2>1, <2>2 DEF ServedInv, Counts, world, Up, ServedPools, Version
<1>4. CASE WorkStep
  <2>0. work \in WorkRec /\ work # NoWork /\ (WorkMoves \/ Fails \/ WorkDelivers \/ DestroyIAM)
    BY <1>4, WorkControl, WorkFacts DEF Types
  <2>1. CASE WorkMoves \/ Fails
    <3>1. UNCHANGED plat \/ Progress(work.d) \/ \E r \in {"failed", "auth_failed"} : Report(work.d, r)
      BY <2>1 DEF WorkMoves, Fails, Finish
    <3>2. plat'.d = plat.d /\ plat'.state = plat.state
      BY <1>0, <3>1, ReportFacts, ProgressFacts DEF Terminal, Counts
    <3> QED BY <1>4, <3>2, ServedWork DEF Counts
  <2>2. CASE WorkDelivers
    <3>1. work.pc = "index" /\ indexer' = work.d.gen /\ work' = NoWork /\ Report(work.d, "delivered")
          /\ UNCHANGED <<cluster, pools>>
      BY <2>2 DEF WorkDelivers, Unlock, world
    <3>2. plat'.d = plat.d /\ (plat'.state = plat.state \/ plat.d = work.d)
      BY <1>0, <3>1, ReportFacts DEF Terminal
    <3>3. CASE plat'.state = plat.state
      BY <1>4, <3>2, <3>3, ServedWork DEF Counts
    <3>4. CASE plat.d = work.d
      <4>1. cluster = Up(work.d) /\ pools = ServedPools(work.d)
        BY <3>1 DEF WorldInv
      <4> QED BY <3>1, <3>2, <3>4, <4>1 DEF ServedInv, Up, ServedPools, Version
    <3> QED BY <3>2, <3>3, <3>4
  <2>3. CASE DestroyIAM
    <3>1. work.pc = "destroyIam" /\ (UNCHANGED plat \/ Report(work.d, "delivered"))
      BY <2>3 DEF DestroyIAM
    <3>2. work.d.op # "deliver"
      BY <1>0, <2>0, <3>1 DEF CallsAndLock, EnsurePlaces
    <3>3. plat'.d = plat.d /\ plat'.state = plat.state
      BY <1>0, <3>1, <3>2, ReportFacts DEF Terminal, Counts
    <3> QED BY <1>4, <3>3, ServedWork DEF Counts
  <2> QED BY <2>0, <2>1, <2>2, <2>3
<1>5. CASE ClsStep \/ UNCHANGED vars
  <2>1. UNCHANGED <<plat, work, indexer>>
    BY <1>5 DEF ClsStep, CreateTakesEffect, ClusterEnds, PscEnds, vars
  <2>2. Counts /\ cluster = Up(plat.d)
    BY <2>1 DEF Counts, ServedInv
  <2>3. Exists /\ cluster.phase = "up"
    BY <2>2, ClusterFacts DEF Up, Exists
  <2>4. UNCHANGED <<cluster, pools>>
    BY <1>5, <2>3 DEF ClsStep, CreateTakesEffect, ClusterEnds, PscEnds, vars, world, WorldInv
  <2> QED BY <1>s, <2>1, <2>4
<1>6. ASSUME NEW d \in outbox, RemovalReported(d) PROVE ServedInv'
  <2>1. Report(d, "delivered") /\ UNCHANGED <<work, world, indexer>> /\ d.op = "remove"
    BY <1>0, <1>6 DEF RemovalReported, OutboxIsOfThePast
  <2>2. plat'.d = plat.d /\ plat'.state = plat.state
    BY <1>0, <2>1, ReportFacts DEF Terminal, Counts
  <2> QED BY <1>s, <2>1, <2>2 DEF world
<1>7. CASE Crash
  <2>1. UNCHANGED <<plat, world>> /\ indexer' = 0 /\ (plat.state \notin Active => work' = NoWork)
    BY <1>7 DEF Crash
  <2>2. Counts /\ work' = NoWork
    BY <2>1 DEF Counts, Active
  <2> QED BY <2>1, <2>2 DEF ServedInv, Counts, world, Up, ServedPools, Version
<1> QED BY <1>1, <1>2, <1>3, <1>4, <1>5, <1>6, <1>7 DEF Next, CallStep

LEMMA ServedInit == Init => ServedInv
<1> SUFFICES ASSUME Init PROVE ServedInv
  OBVIOUS
<1>1. PICK tok \in Tokens : plat = [d |-> First(1, "deliver", tok), state |-> "pending"]
  BY DEF Init
<1> QED BY <1>1 DEF ServedInv

\* A delivery that the platform counts as delivered has its cluster with the
\* spec and exactly the nodepools of that generation, and no other indexer:
\* also while a repeated dispatch of it is under way, fails or is cut off.
THEOREM DeliveredHasCluster ==
    ASSUME LateCreates = FALSE
    PROVE  Spec => []DeliveredIsServed
<1>1. Types /\ ControlInv /\ WorldInv /\ ServedInv /\ [Next]_vars => WorldInv' /\ ServedInv'
  BY WorldStep, ServedStep
<1>2. ServedInv => DeliveredIsServed
  BY DEF ServedInv, Up, ServedPools, DeliveredIsServed
<1> QED BY <1>1, <1>2, TypesInit, TypesStep, ControlInit, ControlStep, WorldInit, ServedInit, PTL DEF Spec
=============================================================================
