--------------------------- MODULE DispatchProofs ---------------------------
(***************************************************************************)
(* What DeliveryDispatch.tla checks for one and two targets, proved for    *)
(* any targets, generations, retries and disturbances: lost, repeated and  *)
(* reordered signals, timeouts that overtake answers, restarting agents.   *)
(***************************************************************************)
EXTENDS DeliveryDispatch, TLAPS

-----------------------------------------------------------------------------
(* The invariant                                                           *)

CycleRec == [generation : Nat, operation : DeliveryOperation, targets : SUBSET Targets]

\* The type invariant, the workflow's own variables apart from the others;
\* the workflow waits when its dispatch loop is through.
WfTypes ==
    /\ pc \in {"idle", "dispatch", "await"}
    /\ cycle \in CycleRec
    /\ todo \subseteq unacked /\ unacked \subseteq remaining /\ remaining \subseteq cycle.targets
    /\ last \in {"none", "ok", "error"}
    /\ pc = "await" => todo = {}

Types ==
    /\ WfTypes
    /\ fgen \in 1 .. MaxGeneration
    /\ rec \in [Targets -> DeliveryRecord \cup {NoRecord}]
    /\ inbox \in Seq(Signals) /\ unsent \subseteq Signals
    /\ work \subseteq Work /\ done \subseteq Work
    /\ disturbances \in 0 .. MaxDisturbances /\ retries \in 0 .. MaxRetries

\* Records are not ahead of the cycle that writes them.
RecordsAreOfPastCycles ==
    \A t \in Targets : rec[t] # NoRecord => rec[t].generation <= cycle.generation

\* A cycle finds no record of its generation with another operation.
CycleKeepsOperation ==
    pc # "idle" =>
       \A t \in cycle.targets :
          rec[t] # NoRecord /\ rec[t].generation = cycle.generation
             => rec[t].operation = cycle.operation

\* Whatever an agent has to do, the record asked for it: now or earlier.
WorkIsRecorded ==
    \A w \in work :
       /\ rec[w.target] # NoRecord
       /\ w.generation <= rec[w.target].generation
       /\ w.generation = rec[w.target].generation => w.operation = rec[w.target].operation

\* A signal of success, however late it comes, is about work that was done,
\* if the record is still at its generation.
SignalSound(e) ==
    e.kind = "completed" /\ e.state \notin {"failed", "auth_failed"} =>
       /\ rec[e.target] # NoRecord
       /\ e.generation <= rec[e.target].generation
       /\ e.generation = rec[e.target].generation =>
             [target |-> e.target, operation |-> rec[e.target].operation,
              generation |-> e.generation] \in done

SignalsSound ==
    /\ \A e \in unsent : SignalSound(e)
    /\ \A k \in 1 .. Len(inbox) : SignalSound(inbox[k])

\* What a cycle waits for no more is done, or there was nothing to remove.
Settled(t) == \/ WorkOf(t) \in done
              \/ cycle.operation = "remove" /\ rec[t] = NoRecord

CycleProgresses ==
    pc # "idle" => \A t \in cycle.targets \ remaining : Settled(t)

DispatchInv ==
    /\ Types /\ RecordsAreOfPastCycles /\ CycleKeepsOperation /\ WorkIsRecorded
    /\ SignalsSound /\ CycleProgresses /\ CycleOkMeansDone /\ RecordIsTruthful

-----------------------------------------------------------------------------
(* The aggregate, signals and the inbox                                    *)

LEMMA StateFacts ==
    /\ DeliveryState = {"pending", "accepted", "progressing"} \cup TerminalStates
    /\ Progress \subseteq DeliveryState /\ Results \subseteq DeliveryState
    /\ "pending" \in DeliveryState
    /\ NoRecord \notin DeliveryRecord
<1>1. DOMAIN DeliveryStateOrder = {"pending", "accepted", "progressing"}
  BY DEF DeliveryStateOrder
<1> QED BY <1>1, DispatchAssumption DEF DeliveryState

\* A dispatch leaves a pending record, of the cycle's generation unless the
\* record was ahead, and of its operation unless the record had another one
\* at that generation.
LEMMA WritesFacts ==
    ASSUME NEW d \in DeliveryRecord \cup {NoRecord}, cycle \in CycleRec,
           ~(cycle.operation = "remove" /\ d = NoRecord), ~Skips(d)
    PROVE  /\ Writes(d) \in DeliveryRecord
           /\ Writes(d).state = "pending"
           /\ (d # NoRecord => d.generation <= cycle.generation)
                 => Writes(d).generation = cycle.generation
           /\ (d # NoRecord => d.generation <= cycle.generation)
              /\ (d # NoRecord /\ d.generation = cycle.generation => d.operation = cycle.operation)
                 => Writes(d).operation = cycle.operation
<1>0. cycle.generation \in Nat /\ cycle.operation \in {"deliver", "remove"}
  BY DEF CycleRec, DeliveryOperation
<1>n. ASSUME NEW g \in Nat, NEW o \in {"deliver", "remove"}
      PROVE  [generation |-> g, state |-> "pending", operation |-> o] \in DeliveryRecord
  BY StateFacts DEF DeliveryRecord, DeliveryOperation
<1>1. CASE cycle.operation = "deliver"
  <2>1. Writes(d) = DeliverWrites(d) /\ ~DeliverSkips(d)
    BY <1>1 DEF Writes, Skips
  <2>2. CASE d = NoRecord \/ cycle.generation > d.generation
    <3>1. Writes(d) = [generation |-> cycle.generation, state |-> "pending", operation |-> "deliver"]
      BY <2>1, <2>2 DEF DeliverWrites, NewDelivery, Redispatch
    <3>2. Writes(d) \in DeliveryRecord
      BY <1>0, <1>n, <3>1
    <3>3. Writes(d).state = "pending" /\ Writes(d).generation = cycle.generation
          /\ Writes(d).operation = "deliver"
      BY <3>1
    <3> QED BY <1>1, <3>2, <3>3
  <2>3. CASE ~(d = NoRecord \/ cycle.generation > d.generation)
    <3>1. d \in DeliveryRecord /\ d.generation \in Nat /\ d.operation \in DeliveryOperation
      BY <2>3 DEF DeliveryRecord
    <3>2. CASE Retry(d, cycle.generation)
      <4>1. Writes(d) = d /\ d.state = "pending" /\ d.generation = cycle.generation
        BY <2>1, <2>3, <3>2 DEF DeliverWrites, Retry
      <4> QED BY <2>3, <3>1, <4>1
    <3>3. CASE ~Retry(d, cycle.generation)
      <4>1. Writes(d) = [d EXCEPT !.state = "pending"]
        BY <2>1, <2>3, <3>3 DEF DeliverWrites, ResetForRetry
      <4>2. /\ Writes(d) \in DeliveryRecord /\ Writes(d).state = "pending"
            /\ Writes(d).generation = d.generation /\ Writes(d).operation = d.operation
        BY <3>1, <4>1, StateFacts DEF DeliveryRecord
      <4> QED BY <1>0, <2>3, <3>1, <4>2
    <3> QED BY <3>2, <3>3
  <2> QED BY <2>2, <2>3
<1>2. CASE cycle.operation = "remove"
  <2>1. d \in DeliveryRecord /\ Writes(d) = RemoveWrites(d) /\ ~RemoveSkips(d)
    BY <1>2 DEF Writes, Skips
  <2>2. CASE WithdrawModifies(d, cycle.generation)
    <3>1. Writes(d) = [generation |-> cycle.generation, state |-> "pending", operation |-> "remove"]
      BY <2>1, <2>2 DEF RemoveWrites, Withdraw
    <3>2. Writes(d) \in DeliveryRecord
      BY <1>0, <1>n, <3>1
    <3>3. Writes(d).state = "pending" /\ Writes(d).generation = cycle.generation
          /\ Writes(d).operation = "remove"
      BY <3>1
    <3> QED BY <1>2, <3>2, <3>3
  <2>3. CASE ~WithdrawModifies(d, cycle.generation)
    <3>1. Writes(d) = d /\ d.state = "pending" /\ d.generation = cycle.generation
      BY <2>1, <2>3 DEF RemoveWrites, RemoveSkips, Retry
    <3> QED BY <2>1, <3>1, StateFacts
  <2> QED BY <2>2, <2>3
<1> QED BY <1>0, <1>1, <1>2

\* A signal names a target and a generation; one of completion, a result.
LEMMA SignalFields ==
    ASSUME NEW e \in Signals
    PROVE  /\ e.target \in Targets /\ e.generation \in Nat /\ e.kind \in {"acked", "completed"}
           /\ e.kind = "completed" => e.state \in TerminalStates
BY DEF Signals

\* The signals that reports raise.
LEMMA RaisedSignals ==
    ASSUME NEW w \in Work, NEW s
    PROVE  /\ w.target \in Targets /\ w.generation \in Nat /\ w.operation \in DeliveryOperation
           /\ w = [target |-> w.target, operation |-> w.operation, generation |-> w.generation]
           /\ Acked(w) \in Signals
           /\ s \in TerminalStates => Completed(w, s) \in Signals
           /\ Acked(w).kind = "acked"
           /\ Completed(w, s).kind = "completed" /\ Completed(w, s).target = w.target
           /\ Completed(w, s).generation = w.generation /\ Completed(w, s).state = s
<1>1. /\ w.target \in Targets /\ w.generation \in Nat /\ w.operation \in DeliveryOperation
      /\ w = [target |-> w.target, operation |-> w.operation, generation |-> w.generation]
  BY DEF Work
<1> QED BY <1>1 DEF Signals, Acked, Completed

\* Taking the first signal and queueing one more.
LEMMA TailFacts ==
    ASSUME inbox \in Seq(Signals), inbox # <<>>
    PROVE  /\ Head(inbox) \in Signals /\ Head(inbox) = inbox[1] /\ 1 \in 1 .. Len(inbox)
           /\ Tail(inbox) \in Seq(Signals)
           /\ \A k \in 1 .. Len(Tail(inbox)) : k + 1 \in 1 .. Len(inbox) /\ Tail(inbox)[k] = inbox[k + 1]
OBVIOUS

LEMMA AppendFacts ==
    ASSUME inbox \in Seq(Signals), NEW e \in Signals
    PROVE  /\ Append(inbox, e) \in Seq(Signals)
           /\ \A k \in 1 .. Len(Append(inbox, e)) :
                 \/ k \in 1 .. Len(inbox) /\ Append(inbox, e)[k] = inbox[k]
                 \/ Append(inbox, e)[k] = e
OBVIOUS

-----------------------------------------------------------------------------
(* Types                                                                   *)

LEMMA TypesInit == Init => Types
<1> SUFFICES ASSUME Init PROVE Types
  OBVIOUS
<1>1. cycle \in CycleRec
  BY DEF Init, CycleRec, DeliveryOperation
<1>2. rec \in [Targets -> DeliveryRecord \cup {NoRecord}] /\ inbox \in Seq(Signals)
  BY DEF Init
<1>3. fgen \in 1 .. MaxGeneration /\ disturbances \in 0 .. MaxDisturbances /\ retries \in 0 .. MaxRetries
  BY DispatchAssumption DEF Init
<1> QED BY <1>1, <1>2, <1>3 DEF Init, Types, WfTypes

\* A disturbance stays within its bound.
LEMMA DisturbFacts ==
    ASSUME disturbances \in 0 .. MaxDisturbances, Disturb
    PROVE  disturbances' \in 0 .. MaxDisturbances
BY DispatchAssumption DEF Disturb

LEMMA TypesAreTypeOK == Types => TypeOK
BY Zenon DEF Types, TypeOK, WfTypes, CycleRec

\* The end of a cycle leaves its sets empty.
LEMMA EndCycleFacts ==
    ASSUME WfTypes, NEW how \in {"ok", "error"}, EndCycle(how)
    PROVE  WfTypes' /\ pc' = "idle" /\ last' = how /\ cycle' = cycle
BY DEF WfTypes, EndCycle

\* One step of the workflow, an agent or the server keeps the types.
LEMMA TypesStep ==
    ASSUME Types, [Next]_vars PROVE Types'
<1>0. WfTypes /\ UNCHANGED wf => WfTypes'
  BY DEF WfTypes, wf
<1> USE DEF Types
<1>1. CASE UNCHANGED vars
  BY <1>0, <1>1 DEF vars, agent, bounds
<1>2. CASE BumpGeneration
  BY <1>0, <1>2, DispatchAssumption DEF BumpGeneration, agent, bounds
<1>3. ASSUME NEW op \in DeliveryOperation, NEW targets \in SUBSET Targets, StartCycle(op, targets)
      PROVE  Types'
  <2>1. retries' \in 0 .. MaxRetries
    BY <1>3, DispatchAssumption DEF StartCycle, PassContinues
  <2>2. cycle' \in CycleRec /\ cycle'.targets = targets
    BY <1>3, DispatchAssumption DEF StartCycle, CycleRec
  <2>3. WfTypes'
    BY <1>3, <2>2 DEF StartCycle, WfTypes
  <2> QED BY <1>3, <2>1, <2>3 DEF StartCycle, agent
<1>4. ASSUME NEW t \in Targets, DispatchOne(t) PROVE Types'
  <2>0. UNCHANGED <<fgen, inbox, unsent, done, retries>> /\ cycle \in CycleRec
        /\ ~(cycle.operation = "remove" /\ rec[t] = NoRecord)
    BY <1>4 DEF DispatchOne, WfTypes
  <2>1. CASE todo' = todo \ {t} /\ UNCHANGED <<rec, work, pc, cycle, unacked, remaining, last, disturbances>>
    BY <2>0, <2>1 DEF WfTypes
  <2>2. CASE ~Skips(rec[t]) /\ rec' = [rec EXCEPT ![t] = Writes(@)]
    <3>1. rec' \in [Targets -> DeliveryRecord \cup {NoRecord}]
      <4>1. Writes(rec[t]) \in DeliveryRecord
        BY <2>0, <2>2, WritesFacts
      <4> QED BY <2>2, <4>1
    <3>2. WorkOf(t) \in Work
      BY <2>0 DEF WorkOf, Work, CycleRec
    <3>3. work' \subseteq Work
      BY <1>4, <3>2 DEF DispatchOne
    <3>4. disturbances' \in 0 .. MaxDisturbances
      BY <1>4, DisturbFacts DEF DispatchOne
    <3>5. WfTypes'
      <4>1. CASE todo' = todo \ {t} /\ UNCHANGED <<pc, cycle, unacked, remaining, last>>
        BY <4>1 DEF WfTypes
      <4> QED BY <1>0, <1>4, <4>1, EndCycleFacts DEF DispatchOne
    <3> QED BY <2>0, <3>1, <3>3, <3>4, <3>5
  <2> QED BY <1>4, <2>1, <2>2 DEF DispatchOne
<1>5. ASSUME NEW t \in Targets, SkipTarget(t) PROVE Types'
  BY <1>5 DEF SkipTarget, WfTypes, agent, bounds
<1>6. CASE Dispatched
  <2>1. WfTypes'
    BY <1>6, EndCycleFacts DEF Dispatched, WfTypes
  <2> QED BY <1>6, <2>1 DEF Dispatched, agent, bounds
<1>7. CASE AckTimeout
  <2>1. WfTypes'
    BY <1>7 DEF AckTimeout, WfTypes
  <2>2. disturbances' \in 0 .. MaxDisturbances
    BY <1>7, DisturbFacts DEF AckTimeout
  <2> QED BY <1>7, <2>1, <2>2 DEF AckTimeout, agent
<1>8. CASE ProcessDeliveryEvent
  <2>1. inbox' \in Seq(Signals)
    BY <1>8, TailFacts DEF ProcessDeliveryEvent
  <2>2. WfTypes'
    <3>1. pc = "await" /\ todo = {}
      BY <1>8 DEF ProcessDeliveryEvent, WfTypes
    <3>2. CASE UNCHANGED <<pc, cycle, todo, remaining, last>> /\ unacked' = unacked \ {Head(inbox).target}
      BY <3>1, <3>2 DEF WfTypes
    <3>3. CASE /\ unacked' = unacked \ {Head(inbox).target} /\ remaining' = remaining \ {Head(inbox).target}
               /\ UNCHANGED <<pc, cycle, todo, last>>
      BY <3>1, <3>3 DEF WfTypes
    <3> QED BY <1>0, <1>8, <3>2, <3>3, EndCycleFacts DEF ProcessDeliveryEvent
  <2> QED BY <1>8, <2>1, <2>2 DEF ProcessDeliveryEvent, agent, bounds
<1>9. ASSUME NEW w \in work, NEW s \in Progress \cup Results, ReportProgress(w, s) \/ ReportResult(w, s),
             ReportResult(w, s) => s \in TerminalStates
      PROVE  Types'
  <2>1. w \in Work /\ s \in DeliveryState
    BY StateFacts
  <2>2. UNCHANGED <<fgen, wf, inbox, bounds>> /\ work' \subseteq Work /\ done' \subseteq Work
    BY <1>9, <2>1 DEF ReportProgress, ReportResult, agent
  <2>3. rec' \in [Targets -> DeliveryRecord \cup {NoRecord}]
    <3>1. ASSUME rec[w.target] # NoRecord PROVE TransitionTo(rec[w.target], s) \in DeliveryRecord
      <4>1. rec[w.target] \in DeliveryRecord
        BY <2>1, <3>1, RaisedSignals
      <4> QED BY <2>1, <4>1 DEF TransitionTo, DeliveryRecord
    <3>2. UNCHANGED rec \/ (rec[w.target] # NoRecord
                            /\ rec' = [rec EXCEPT ![w.target] = TransitionTo(@, s)])
      BY <1>9 DEF ReportProgress, ReportResult, ReportApplies
    <3> QED BY <3>1, <3>2
  <2>4. unsent' \subseteq Signals
    <3>1. Acked(w) \in Signals /\ (s \in TerminalStates => Completed(w, s) \in Signals)
      BY <2>1, RaisedSignals
    <3> QED BY <1>9, <3>1 DEF ReportProgress, ReportResult
  <2> QED BY <1>0, <2>2, <2>3, <2>4 DEF bounds
<1>10. CASE SignalFulfillmentEvent
  <2>1. PICK e \in unsent : unsent' = unsent \ {e} /\ inbox' = Append(inbox, e)
    BY <1>10 DEF SignalFulfillmentEvent
  <2>2. inbox' \in Seq(Signals)
    BY <2>1, AppendFacts
  <2> QED BY <1>0, <1>10, <2>1, <2>2 DEF SignalFulfillmentEvent, agent, bounds
<1>11. CASE SignalLost
  BY <1>0, <1>11, DisturbFacts DEF SignalLost, agent
<1>12. ASSUME NEW t \in Targets, AgentRestart(t) PROVE Types'
  <2>1. ListActiveDeliveries(t) \subseteq Work
    <3>1. rec[t] # NoRecord => rec[t] \in DeliveryRecord
      OBVIOUS
    <3> QED BY <3>1 DEF ListActiveDeliveries, Work, DeliveryRecord
  <2> QED BY <1>0, <1>12, <2>1, DisturbFacts DEF AgentRestart
<1>13. Results \subseteq TerminalStates
  BY DispatchAssumption
<1>14. ASSUME NEW t \in Targets, AgentFinishes(t) PROVE Types'
  BY <1>9, <1>13, <1>14 DEF AgentFinishes
<1>15. ASSUME NEW w \in work, NEW s \in Progress, ReportProgress(w, s) PROVE Types'
  <2>1. ReportResult(w, s) => s \in TerminalStates
    <3>1. ~ReportResult(w, s)
      BY <1>15 DEF ReportProgress, ReportResult, agent
    <3> QED BY <3>1
  <2> QED BY <1>9, <1>15, <2>1
<1>16. CASE WorkflowStep
  BY <1>4, <1>5, <1>6, <1>7, <1>8, <1>16 DEF WorkflowStep
<1> QED BY <1>1, <1>2, <1>3, <1>10, <1>11, <1>12, <1>14, <1>15, <1>16 DEF Next

\* Type correctness: the sets of a cycle stay nested, targets still to be
\* dispatched within the unacknowledged ones, those within the remaining ones.
THEOREM DispatchTypeCorrect == Spec => []TypeOK
<1>1. Types /\ [Next]_vars => Types'
  BY TypesStep
<1> QED BY <1>1, TypesInit, TypesAreTypeOK, PTL DEF Spec

-----------------------------------------------------------------------------
(* The invariant is inductive                                              *)

LEMMA DispatchInit == Init => DispatchInv
<1> SUFFICES ASSUME Init PROVE DispatchInv
  OBVIOUS
<1>1. Types
  BY TypesInit
<1>2. RecordsAreOfPastCycles /\ RecordIsTruthful
  BY DEF Init, RecordsAreOfPastCycles, RecordIsTruthful
<1>3. CycleKeepsOperation /\ CycleProgresses /\ CycleOkMeansDone /\ WorkIsRecorded
  BY DEF Init, CycleKeepsOperation, CycleProgresses, CycleOkMeansDone, WorkIsRecorded
<1>4. SignalsSound
  BY DEF Init, SignalsSound
<1> QED BY <1>1, <1>2, <1>3, <1>4 DEF DispatchInv

\* Signals that are sent, taken from the queue or lost stay what they are.
LEMMA SignalsMove ==
    ASSUME DispatchInv, UNCHANGED <<rec, done>>,
           \/ UNCHANGED <<unsent, inbox>>
           \/ unsent' \subseteq unsent /\ UNCHANGED inbox
           \/ inbox # <<>> /\ inbox' = Tail(inbox) /\ UNCHANGED unsent
           \/ \E e \in unsent : unsent' = unsent \ {e} /\ inbox' = Append(inbox, e)
    PROVE  SignalsSound'
<1>0. inbox \in Seq(Signals) /\ unsent \subseteq Signals /\ SignalsSound
  BY DEF DispatchInv, Types
<1>1. \A e \in unsent' : SignalSound(e)
  BY <1>0 DEF SignalsSound
<1>2. \A k \in 1 .. Len(inbox') : SignalSound(inbox'[k])
  <2>1. CASE inbox' = inbox
    BY <1>0, <2>1 DEF SignalsSound
  <2>2. CASE inbox # <<>> /\ inbox' = Tail(inbox)
    BY <1>0, <2>2, TailFacts DEF SignalsSound
  <2>3. ASSUME NEW e \in unsent, inbox' = Append(inbox, e)
        PROVE  \A k \in 1 .. Len(inbox') : SignalSound(inbox'[k])
    <3>1. e \in Signals /\ SignalSound(e)
      BY <1>0 DEF SignalsSound
    <3> QED BY <1>0, <2>3, <3>1, AppendFacts DEF SignalsSound
  <2> QED BY <2>1, <2>2, <2>3
<1> QED BY <1>1, <1>2 DEF SignalsSound, SignalSound

\* A new cycle: it takes the generation of the row, which is not below the
\* last one, and with a stable placement no target changes its operation.
LEMMA StartCycleStep ==
    ASSUME StablePlacement, DispatchInv, Types', NEW op \in DeliveryOperation,
           NEW targets \in SUBSET Targets, StartCycle(op, targets)
    PROVE  DispatchInv'
<1>0. /\ UNCHANGED <<rec, work, done, unsent, inbox>> /\ pc' = "dispatch"
      /\ cycle' = [generation |-> fgen, operation |-> op, targets |-> targets]
      /\ remaining' = targets
      /\ \A t \in targets : OperationKept(t, op)
      /\ PassContinues(op, targets)
  BY DEF StartCycle, agent
<1>1. cycle'.generation = fgen /\ cycle'.operation = op /\ cycle'.targets = targets
  BY <1>0
<1>2. cycle.generation \in Nat /\ fgen \in Nat /\ cycle.generation <= fgen
  <2>1. cycle \in CycleRec /\ fgen \in Nat
    BY DispatchAssumption DEF DispatchInv, Types, WfTypes
  <2>2. cycle.generation \in Nat
    BY <2>1 DEF CycleRec
  <2> QED BY <1>0, <2>1, <2>2 DEF PassContinues
<1>3. \A t \in Targets : rec[t] # NoRecord => rec[t].generation \in Nat
  BY DEF DispatchInv, Types, DeliveryRecord
<1>4. RecordsAreOfPastCycles'
  BY <1>0, <1>1, <1>2, <1>3 DEF DispatchInv, RecordsAreOfPastCycles
<1>5. CycleKeepsOperation'
  BY <1>0, <1>1 DEF CycleKeepsOperation, OperationKept
<1>6. WorkIsRecorded' /\ RecordIsTruthful'
  BY <1>0 DEF DispatchInv, WorkIsRecorded, RecordIsTruthful
<1>7. SignalsSound'
  BY <1>0, SignalsMove
<1>8. CycleProgresses' /\ CycleOkMeansDone'
  BY <1>0, <1>1 DEF CycleProgresses, CycleOkMeansDone
<1> QED BY <1>4, <1>5, <1>6, <1>7, <1>8 DEF DispatchInv

\* A step of the workflow that takes targets out of remaining, or ends the
\* cycle, and writes no record.
LEMMA CycleStep ==
    ASSUME DispatchInv, Types', UNCHANGED <<rec, work, done, unsent, cycle>>,
           UNCHANGED inbox \/ (inbox # <<>> /\ inbox' = Tail(inbox)),
           pc # "idle",
           \/ pc' # "idle" /\ \A t \in cycle.targets \ remaining' : t \in remaining => Settled(t)
           \/ pc' = "idle" /\ last' = "error"
           \/ pc' = "idle" /\ last' = "ok" /\ \A t \in remaining : Settled(t)
    PROVE  DispatchInv'
<1>1. RecordsAreOfPastCycles' /\ WorkIsRecorded' /\ RecordIsTruthful' /\ CycleKeepsOperation'
  BY DEF DispatchInv, RecordsAreOfPastCycles, WorkIsRecorded, RecordIsTruthful, CycleKeepsOperation
<1>2. SignalsSound'
  BY SignalsMove
<1>3. \A t \in Targets : Settled(t)' <=> Settled(t)
  BY DEF Settled, WorkOf
<1>4. cycle.targets \subseteq Targets
  BY DEF DispatchInv, Types, WfTypes, CycleRec
<1>5. CycleProgresses'
  BY <1>3, <1>4 DEF DispatchInv, CycleProgresses
<1>6. CycleOkMeansDone'
  BY DEF DispatchInv, CycleProgresses, CycleOkMeansDone, Settled, WorkOf
<1> QED BY <1>1, <1>2, <1>5, <1>6 DEF DispatchInv

\* A dispatch that writes: the record is pending at the cycle's generation,
\* under its operation.
LEMMA DispatchOneStep ==
    ASSUME DispatchInv, Types', NEW t \in Targets, DispatchOne(t)
    PROVE  DispatchInv'
<1>0. /\ UNCHANGED <<fgen, inbox, unsent, done, retries>> /\ pc = "dispatch" /\ t \in todo
      /\ ~(cycle.operation = "remove" /\ rec[t] = NoRecord) /\ cycle' = cycle
  BY DEF DispatchOne, EndCycle, wf
<1>1. t \in remaining /\ t \in cycle.targets /\ cycle \in CycleRec
  BY <1>0 DEF DispatchInv, Types, WfTypes
<1>2. CASE todo' = todo \ {t} /\ UNCHANGED <<rec, work, pc, cycle, unacked, remaining, last, disturbances>>
  BY <1>0, <1>2, CycleStep
<1>3. CASE ~Skips(rec[t]) /\ rec' = [rec EXCEPT ![t] = Writes(@)]
  <2> DEFINE d == Writes(rec[t])
  <2>0. rec[t] \in DeliveryRecord \cup {NoRecord} /\ rec \in [Targets -> DeliveryRecord \cup {NoRecord}]
    BY DEF DispatchInv, Types
  <2>1. /\ d \in DeliveryRecord /\ d.state = "pending"
        /\ d.generation = cycle.generation /\ d.operation = cycle.operation
    <3>1. rec[t] # NoRecord => rec[t].generation <= cycle.generation
      BY DEF DispatchInv, RecordsAreOfPastCycles
    <3>2. rec[t] # NoRecord /\ rec[t].generation = cycle.generation
             => rec[t].operation = cycle.operation
      BY <1>0, <1>1 DEF DispatchInv, CycleKeepsOperation
    <3> QED BY <1>0, <1>1, <1>3, <2>0, <3>1, <3>2, WritesFacts
  <2>2. d # NoRecord /\ d.generation \in Nat
    BY <2>1, StateFacts DEF DeliveryRecord
  <2> HIDE DEF d
  <2>3. rec'[t] = d /\ \A u \in Targets \ {t} : rec'[u] = rec[u]
    BY <1>3, <2>0 DEF d
  <2>4. RecordsAreOfPastCycles'
    BY <1>0, <2>1, <2>2, <2>3 DEF DispatchInv, RecordsAreOfPastCycles
  <2>5. CycleKeepsOperation'
    <3>1. cycle.targets \subseteq Targets
      BY <1>1 DEF CycleRec
    <3> QED BY <1>0, <2>1, <2>3, <3>1 DEF DispatchInv, CycleKeepsOperation
  <2>6. WorkIsRecorded'
    <3>1. work' \subseteq work \cup {WorkOf(t)}
      BY <1>3 DEF DispatchOne
    <3>2. /\ WorkOf(t).target = t /\ WorkOf(t).generation = cycle.generation
          /\ WorkOf(t).operation = cycle.operation
      BY DEF WorkOf
    <3>3. ASSUME NEW w \in work
          PROVE  /\ rec'[w.target] # NoRecord
                 /\ w.generation <= rec'[w.target].generation
                 /\ w.generation = rec'[w.target].generation => w.operation = rec'[w.target].operation
      <4>1. w.target \in Targets /\ w.generation \in Nat
        BY DEF DispatchInv, Types, Work
      <4>2. CASE w.target # t
        BY <2>3, <4>1, <4>2 DEF DispatchInv, WorkIsRecorded
      <4>3. CASE w.target = t
        <5>1. /\ rec[t] # NoRecord /\ w.generation <= rec[t].generation
              /\ w.generation = rec[t].generation => w.operation = rec[t].operation
          BY <4>3 DEF DispatchInv, WorkIsRecorded
        <5>2. rec[t].generation \in Nat /\ rec[t].generation <= cycle.generation
          BY <2>0, <5>1 DEF DispatchInv, RecordsAreOfPastCycles, DeliveryRecord
        <5>3. rec[t].generation = cycle.generation => rec[t].operation = cycle.operation
          BY <1>0, <1>1, <5>1 DEF DispatchInv, CycleKeepsOperation
        <5> QED BY <2>1, <2>2, <2>3, <4>1, <4>3, <5>1, <5>2, <5>3
      <4> QED BY <4>2, <4>3
    <3> QED BY <2>1, <2>2, <2>3, <3>1, <3>2, <3>3 DEF WorkIsRecorded
  <2>7. SignalsSound'
    <3>1. ASSUME NEW e \in Signals, SignalSound(e) PROVE SignalSound(e)'
      <4>1. e.target \in Targets /\ e.generation \in Nat
        BY SignalFields
      <4>2. CASE e.target # t
        BY <1>0, <2>3, <3>1, <4>1, <4>2 DEF SignalSound
      <4>3. CASE e.target = t
        <5> SUFFICES ASSUME e.kind = "completed", e.state \notin {"failed", "auth_failed"}
                     PROVE  /\ e.generation <= d.generation
                            /\ e.generation = d.generation =>
                                  [target |-> t, operation |-> d.operation,
                                   generation |-> e.generation] \in done
          BY <1>0, <2>2, <2>3, <4>3 DEF SignalSound
        <5>1. /\ rec[t] # NoRecord /\ e.generation <= rec[t].generation
              /\ e.generation = rec[t].generation =>
                    [target |-> t, operation |-> rec[t].operation, generation |-> e.generation] \in done
          BY <3>1, <4>3 DEF SignalSound
        <5>2. rec[t].generation \in Nat /\ rec[t].generation <= cycle.generation
          BY <2>0, <5>1 DEF DispatchInv, RecordsAreOfPastCycles, DeliveryRecord
        <5>3. rec[t].generation = cycle.generation => rec[t].operation = cycle.operation
          BY <1>0, <1>1, <5>1 DEF DispatchInv, CycleKeepsOperation
        <5> QED BY <2>1, <2>2, <4>1, <5>1, <5>2, <5>3
      <4> QED BY <4>2, <4>3
    <3>2. unsent \subseteq Signals /\ \A k \in 1 .. Len(inbox) : inbox[k] \in Signals
      BY DEF DispatchInv, Types
    <3> QED BY <1>0, <3>1, <3>2 DEF DispatchInv, SignalsSound, SignalSound
  <2>8. RecordIsTruthful'
    BY <1>0, <2>1, <2>3 DEF DispatchInv, RecordIsTruthful
  <2>9. \/ pc' = "dispatch" /\ remaining' = remaining
        \/ pc' = "idle" /\ last' = "error"
    BY <1>0, <1>3 DEF DispatchOne, EndCycle, wf
  <2>10. CycleProgresses' /\ CycleOkMeansDone'
    <3>1. cycle.targets \subseteq Targets
      BY <1>1 DEF CycleRec
    <3> QED BY <1>0, <1>1, <2>3, <2>9, <3>1
            DEF DispatchInv, CycleProgresses, CycleOkMeansDone, Settled, WorkOf
  <2> QED BY <2>4, <2>5, <2>6, <2>7, <2>8, <2>10 DEF DispatchInv
<1> QED BY <1>2, <1>3 DEF DispatchOne

\* processDeliveryEvent: an event that counts is of the cycle's generation, and
\* so is the record then; a completion with success settles its target.
LEMMA EventStep ==
    ASSUME DispatchInv, Types', ProcessDeliveryEvent
    PROVE  DispatchInv'
<1> DEFINE e == Head(inbox)
<1>0. /\ pc = "await" /\ inbox # <<>> /\ inbox' = Tail(inbox)
      /\ UNCHANGED <<rec, work, done, unsent, cycle>>
  BY DEF ProcessDeliveryEvent, EndCycle, agent, wf
<1>1. e \in Signals /\ SignalSound(e)
  BY <1>0, TailFacts DEF DispatchInv, Types, SignalsSound
<1> HIDE DEF e
<1>2. ASSUME EventCounts(e), e.kind = "completed", e.state \notin {"failed", "auth_failed"}
      PROVE  Settled(e.target)
  <2>1. e.generation = cycle.generation /\ e.target \in remaining
    BY <1>2 DEF EventCounts
  <2>2. e.target \in cycle.targets /\ e.target \in Targets /\ e.generation \in Nat
    BY <1>1, <2>1, SignalFields DEF DispatchInv, Types, WfTypes
  <2>3. rec[e.target] # NoRecord /\ e.generation <= rec[e.target].generation
    BY <1>1, <1>2 DEF SignalSound
  <2>4. rec[e.target].generation \in Nat /\ rec[e.target].generation <= cycle.generation
    BY <2>2, <2>3 DEF DispatchInv, RecordsAreOfPastCycles, Types, DeliveryRecord
  <2>5. e.generation = rec[e.target].generation
    BY <2>1, <2>2, <2>3, <2>4
  <2>6. rec[e.target].operation = cycle.operation
    BY <1>0, <2>1, <2>2, <2>3, <2>5 DEF DispatchInv, CycleKeepsOperation
  <2> QED BY <1>1, <1>2, <2>1, <2>5, <2>6 DEF SignalSound, Settled, WorkOf
<1>3. CASE UNCHANGED <<pc, remaining>>
  BY <1>0, <1>3, CycleStep
<1>4. CASE pc' = "idle" /\ last' = "error"
  BY <1>0, <1>4, CycleStep
<1>5. CASE /\ EventCounts(e) /\ e.kind = "completed" /\ e.state \notin {"failed", "auth_failed"}
           /\ remaining = {e.target} /\ pc' = "idle" /\ last' = "ok"
  BY <1>0, <1>2, <1>5, CycleStep
<1>6. CASE /\ EventCounts(e) /\ e.kind = "completed" /\ e.state \notin {"failed", "auth_failed"}
           /\ remaining' = remaining \ {e.target} /\ pc' = pc
  <2>1. \A t \in cycle.targets \ remaining' : t \in remaining => Settled(t)
    BY <1>2, <1>6
  <2> QED BY <1>0, <1>6, <2>1, CycleStep
<1>7. \/ UNCHANGED <<pc, remaining>>
      \/ pc' = "idle" /\ last' = "error"
      \/ /\ EventCounts(e) /\ e.kind = "completed" /\ e.state \notin {"failed", "auth_failed"}
         /\ \/ remaining = {e.target} /\ pc' = "idle" /\ last' = "ok"
            \/ remaining' = remaining \ {e.target} /\ pc' = pc
  BY DEF ProcessDeliveryEvent, EndCycle, wf, e
<1> QED BY <1>3, <1>4, <1>5, <1>6, <1>7

\* The other steps of the workflow.
LEMMA LoopStep ==
    ASSUME DispatchInv, Types', (\E t \in Targets : SkipTarget(t)) \/ Dispatched \/ AckTimeout
    PROVE  DispatchInv'
<1>1. ASSUME NEW t \in Targets, SkipTarget(t) PROVE DispatchInv'
  <2>1. /\ UNCHANGED <<rec, work, done, unsent, inbox, cycle, pc>> /\ pc = "dispatch"
        /\ remaining' = remaining \ {t} /\ Settled(t)
    BY <1>1 DEF SkipTarget, agent, Settled
  <2> QED BY <2>1, CycleStep
<1>2. CASE Dispatched
  <2>1. /\ UNCHANGED <<rec, work, done, unsent, inbox, cycle>> /\ pc = "dispatch"
        /\ \/ remaining = {} /\ pc' = "idle" /\ last' = "ok"
           \/ pc' = "await" /\ UNCHANGED remaining
    BY <1>2 DEF Dispatched, EndCycle, agent
  <2> QED BY <2>1, CycleStep
<1>3. CASE AckTimeout
  <2>1. /\ UNCHANGED <<rec, work, done, unsent, inbox, cycle, remaining>> /\ pc = "await"
        /\ pc' = "dispatch"
    BY <1>3 DEF AckTimeout, agent
  <2> QED BY <2>1, CycleStep
<1> QED BY <1>1, <1>2, <1>3

\* Reports: the generation fence of DeliveryReportService lets only work of the
\* record's generation move it, and that work has the record's operation.
LEMMA ReportStep ==
    ASSUME DispatchInv, Types', NEW w \in work, NEW s,
           \/ s \in Progress /\ ReportProgress(w, s)
           \/ s \in Results /\ ReportResult(w, s)
    PROVE  DispatchInv'
<1> DEFINE t == w.target
           good == s \notin {"failed", "auth_failed"}
<1>0. w \in Work /\ t \in Targets /\ work \subseteq Work /\ w.generation \in Nat
      /\ w = [target |-> t, operation |-> w.operation, generation |-> w.generation]
  BY RaisedSignals DEF DispatchInv, Types
<1>1. UNCHANGED <<fgen, wf, inbox, bounds>> /\ cycle' = cycle /\ pc' = pc /\ remaining' = remaining
      /\ last' = last
  BY DEF ReportProgress, ReportResult, wf
<1>2. work' \subseteq work /\ done \subseteq done'
  BY DEF ReportProgress, ReportResult, agent
<1>3. /\ rec[t] # NoRecord /\ w.generation <= rec[t].generation
      /\ w.generation = rec[t].generation => w.operation = rec[t].operation
  BY DEF DispatchInv, WorkIsRecorded
<1>4. rec \in [Targets -> DeliveryRecord \cup {NoRecord}] /\ rec[t] \in DeliveryRecord
  BY <1>0, <1>3 DEF DispatchInv, Types
<1>5. s \in DeliveryState
  BY StateFacts
<1>6. /\ rec'[t] # NoRecord /\ rec'[t].generation = rec[t].generation
      /\ rec'[t].operation = rec[t].operation
      /\ \A u \in Targets \ {t} : rec'[u] = rec[u]
  <2>1. CASE UNCHANGED rec
    BY <1>3, <2>1
  <2>2. CASE rec' = [rec EXCEPT ![t] = TransitionTo(@, s)]
    <3> DEFINE d == TransitionTo(rec[t], s)
    <3>1. d \in DeliveryRecord /\ d.generation = rec[t].generation /\ d.operation = rec[t].operation
      BY <1>4, <1>5 DEF TransitionTo, DeliveryRecord
    <3>2. rec'[t] = d /\ \A u \in Targets \ {t} : rec'[u] = rec[u]
      BY <1>0, <1>4, <2>2
    <3> HIDE DEF d
    <3> QED BY <3>1, <3>2, StateFacts
  <2> QED BY <2>1, <2>2 DEF ReportProgress, ReportResult
<1>7. rec'[t] = rec[t] \/ (rec'[t].state = s /\ w.generation = rec[t].generation)
  <2>1. CASE UNCHANGED rec
    BY <2>1
  <2>2. CASE rec' = [rec EXCEPT ![t] = TransitionTo(@, s)] /\ rec[t].generation = w.generation
    BY <1>0, <1>4, <1>5, <2>2 DEF TransitionTo, DeliveryRecord
  <2> QED BY <2>1, <2>2 DEF ReportProgress, ReportResult, ReportApplies
<1>8. s \in {"delivered", "partial"} => w \in done'
  <2>1. s \in Progress => s \notin {"delivered", "partial"}
    BY DispatchAssumption
  <2> QED BY <2>1 DEF ReportResult
<1>9. \A e \in unsent' : e \in unsent \/ e.kind = "acked"
          \/ (e = Completed(w, s) /\ w.generation = rec[t].generation /\ (good => w \in done'))
  BY <1>0, RaisedSignals DEF ReportProgress, ReportResult, ReportApplies
<1> HIDE DEF t, good
<1>10. RecordsAreOfPastCycles'
  BY <1>0, <1>1, <1>3, <1>6 DEF DispatchInv, RecordsAreOfPastCycles
<1>11. CycleKeepsOperation'
  <2>1. cycle.targets \subseteq Targets
    BY DEF DispatchInv, Types, WfTypes, CycleRec
  <2> QED BY <1>1, <1>3, <1>6, <2>1 DEF DispatchInv, CycleKeepsOperation
<1>12. WorkIsRecorded'
  <2>1. \A v \in work : v.target \in Targets
    BY <1>0 DEF Work
  <2>2. \A v \in work : /\ rec'[v.target] # NoRecord
                        /\ rec'[v.target].generation = rec[v.target].generation
                        /\ rec'[v.target].operation = rec[v.target].operation
    BY <1>6, <2>1 DEF DispatchInv, WorkIsRecorded
  <2> QED BY <1>2, <2>2 DEF DispatchInv, WorkIsRecorded
<1>13. RecordIsTruthful'
  <2>1. ASSUME rec'[t].state \in {"delivered", "partial"}
        PROVE  [target |-> t, operation |-> rec'[t].operation, generation |-> rec'[t].generation] \in done'
    <3>1. CASE rec'[t] = rec[t]
      BY <1>0, <1>2, <1>3, <2>1, <3>1 DEF DispatchInv, RecordIsTruthful
    <3>2. CASE rec'[t].state = s /\ w.generation = rec[t].generation
      <4>1. w \in done'
        BY <1>8, <2>1, <3>2
      <4>2. rec'[t].operation = w.operation /\ rec'[t].generation = w.generation
        BY <1>3, <1>6, <3>2
      <4> QED BY <1>0, <4>1, <4>2
    <3> QED BY <1>7, <3>1, <3>2
  <2> QED BY <1>2, <1>6, <2>1 DEF DispatchInv, RecordIsTruthful
<1>14. SignalsSound'
  <2>1. ASSUME NEW e \in Signals, SignalSound(e) PROVE SignalSound(e)'
    <3>1. e.target \in Targets
      BY SignalFields
    <3>2. rec[e.target] # NoRecord => /\ rec'[e.target] # NoRecord
                                      /\ rec'[e.target].generation = rec[e.target].generation
                                      /\ rec'[e.target].operation = rec[e.target].operation
      BY <1>3, <1>6, <3>1
    <3> QED BY <1>2, <2>1, <3>2 DEF SignalSound
  <2>2. unsent \subseteq Signals /\ \A k \in 1 .. Len(inbox) : inbox[k] \in Signals
    BY DEF DispatchInv, Types
  <2>3. ASSUME NEW e \in unsent' PROVE SignalSound(e)'
    <3>1. CASE e \in unsent
      BY <2>1, <2>2, <3>1 DEF DispatchInv, SignalsSound
    <3>2. CASE e.kind = "acked"
      BY <3>2 DEF SignalSound
    <3>3. CASE e = Completed(w, s) /\ w.generation = rec[t].generation /\ (good => w \in done')
      <4>1. e.target = t /\ e.generation = w.generation /\ e.state = s
        BY <1>0, <3>3, RaisedSignals DEF t
      <4>2. rec'[t].operation = w.operation /\ rec'[t].generation = w.generation
        BY <1>3, <1>6, <3>3
      <4>3. good => [target |-> t, operation |-> rec'[t].operation,
                     generation |-> e.generation] \in done'
        BY <1>0, <3>3, <4>1, <4>2
      <4> QED BY <1>0, <1>6, <4>1, <4>2, <4>3 DEF SignalSound, good
    <3> QED BY <1>9, <3>1, <3>2, <3>3
  <2>4. \A k \in 1 .. Len(inbox) : SignalSound(inbox[k])'
    BY <1>1, <2>1, <2>2 DEF DispatchInv, SignalsSound, SignalSound
  <2> QED BY <1>1, <2>3, <2>4 DEF SignalsSound
<1>15. CycleProgresses' /\ CycleOkMeansDone'
  <2>1. \A u \in Targets : rec[u] = NoRecord => rec'[u] = NoRecord
    BY <1>3, <1>6
  <2>2. cycle.targets \subseteq Targets
    BY DEF DispatchInv, Types, WfTypes, CycleRec
  <2> QED BY <1>1, <1>2, <2>1, <2>2
          DEF DispatchInv, CycleProgresses, CycleOkMeansDone, Settled, WorkOf
<1> QED BY <1>10, <1>11, <1>12, <1>13, <1>14, <1>15 DEF DispatchInv

\* Signals on their way, a restarting agent and a new generation of the row
\* leave records, results and the cycle alone; an agent that restarts is given
\* what the records say.
LEMMA AroundStep ==
    ASSUME DispatchInv, Types',
           \/ UNCHANGED vars \/ BumpGeneration \/ SignalFulfillmentEvent \/ SignalLost
           \/ \E t \in Targets : AgentRestart(t)
    PROVE  DispatchInv'
<1>1. UNCHANGED <<rec, done, pc, cycle, remaining, last>>
  BY DEF vars, BumpGeneration, SignalFulfillmentEvent, SignalLost, AgentRestart, wf, agent
<1>2. SignalsSound'
  <2>1. \/ UNCHANGED <<unsent, inbox>>
        \/ unsent' \subseteq unsent /\ UNCHANGED inbox
        \/ \E e \in unsent : unsent' = unsent \ {e} /\ inbox' = Append(inbox, e)
    BY DEF vars, BumpGeneration, SignalFulfillmentEvent, SignalLost, AgentRestart
  <2> QED BY <1>1, <2>1, SignalsMove
<1>3. WorkIsRecorded'
  <2>1. CASE UNCHANGED work
    BY <1>1, <2>1 DEF DispatchInv, WorkIsRecorded
  <2>2. ASSUME NEW t \in Targets, AgentRestart(t) PROVE WorkIsRecorded'
    <3>1. work' \subseteq work \cup ListActiveDeliveries(t)
      BY <2>2 DEF AgentRestart
    <3>2. rec[t] # NoRecord => rec[t].generation \in Nat
      BY DEF DispatchInv, Types, DeliveryRecord
    <3>3. \A v \in ListActiveDeliveries(t) :
             /\ v.target = t /\ rec[t] # NoRecord
             /\ v.generation <= rec[t].generation /\ v.operation = rec[t].operation
      BY <3>2 DEF ListActiveDeliveries
    <3> QED BY <1>1, <3>1, <3>3 DEF DispatchInv, WorkIsRecorded
  <2> QED BY <2>1, <2>2 DEF vars, BumpGeneration, SignalFulfillmentEvent, SignalLost, agent
<1> QED BY <1>1, <1>2, <1>3
        DEF DispatchInv, RecordsAreOfPastCycles, CycleKeepsOperation, RecordIsTruthful,
            CycleProgresses, CycleOkMeansDone, Settled, WorkOf

LEMMA DispatchStep ==
    ASSUME StablePlacement, DispatchInv, [Next]_vars PROVE DispatchInv'
<1>0. Types'
  BY TypesStep DEF DispatchInv
<1>1. CASE WorkflowStep
  BY <1>0, <1>1, DispatchOneStep, LoopStep, EventStep DEF WorkflowStep
<1>2. ASSUME NEW t \in Targets, AgentFinishes(t) PROVE DispatchInv'
  BY <1>0, <1>2, ReportStep DEF AgentFinishes
<1>3. ASSUME NEW w \in work, NEW s \in Progress, ReportProgress(w, s) PROVE DispatchInv'
  BY <1>0, <1>3, ReportStep
<1> QED BY <1>0, <1>1, <1>2, <1>3, StartCycleStep, AroundStep DEF Next

-----------------------------------------------------------------------------
(* The theorems                                                            *)

\* With a placement that is stable within a generation, a cycle of
\* dispatchAndAwait that ended well was told so by the agents: each of its
\* targets finished this operation of this generation, or had nothing to
\* remove.  No stale, repeated, lost or reordered signal can fake it.
THEOREM OkCyclesAreDone ==
    ASSUME StablePlacement PROVE Spec => []CycleOkMeansDone
<1>1. DispatchInv /\ [Next]_vars => DispatchInv'
  BY DispatchStep
<1>2. DispatchInv => CycleOkMeansDone
  BY DEF DispatchInv
<1> QED BY <1>1, <1>2, DispatchInit, PTL DEF Spec

\* Under the same assumption a record says "delivered" only of work of its own
\* generation and operation: DeliveryReportService never lets a late report of
\* an older dispatch complete a newer one.
THEOREM RecordsAreTruthful ==
    ASSUME StablePlacement PROVE Spec => []RecordIsTruthful
<1>1. DispatchInv /\ [Next]_vars => DispatchInv'
  BY DispatchStep
<1>2. DispatchInv => RecordIsTruthful
  BY DEF DispatchInv
<1> QED BY <1>1, <1>2, DispatchInit, PTL DEF Spec
=============================================================================
