-------------------------- MODULE DeliveryDispatch --------------------------
(***************************************************************************)
(* Inside one call of dispatchAndAwait: the orchestration workflow of one  *)
(* fulfillment dispatches to its targets and waits for their signals; the  *)
(* agents of the targets work and report; DeliveryReportService commits a  *)
(* report to the delivery record and then, in a second step that a crash   *)
(* can cut off, signals the workflow.                                      *)
(*                                                                         *)
(* A cycle is one call.  Passes over it repeat: a failed cycle, or a pass  *)
(* that failed after a cycle that ended well, is retried by ContinueAsNew, *)
(* at the generation the row has by then, and a cycle that ended well is   *)
(* followed by another when the generation advanced.                       *)
(* Signals that no cycle consumed stay queued for the next one.            *)
(***************************************************************************)
EXTENDS Delivery, Sequences, FiniteSets

CONSTANTS
    Targets,         \* the targets of the fulfillment, one delivery each
    MaxGeneration,   \* bound on the fulfillment's generation
    Progress,        \* the states agents report while they work
    Results,         \* the terminal states agents report
    StablePlacement, \* a target keeps its operation within one generation
    LossySignals,    \* the signals a crash after the commit may lose
    AgentRestarts,   \* when agents may restart: with "current" work only, or
                     \* with work of a "superseded" generation too
    MaxDisturbances, \* bound on failed calls, early timeouts, lost signals, restarts
    MaxRetries,      \* bound on the cycles that retry a generation
    NoRecord         \* no delivery record

ASSUME DispatchAssumption ==
    /\ MaxGeneration \in Nat \ {0}
    /\ Progress \subseteq {"accepted", "progressing"}
    /\ Results \subseteq TerminalStates
    /\ StablePlacement \in BOOLEAN
    /\ LossySignals \subseteq {"acked", "completed"}
    /\ AgentRestarts \subseteq {"current", "superseded"}
    /\ MaxDisturbances \in Nat
    /\ MaxRetries \in Nat
    /\ NoRecord \notin DeliveryRecord

VARIABLES
    fgen,        \* the fulfillment's generation in the store
    rec,         \* the delivery record of each target
    pc,          \* "idle", "dispatch" or "await"
    cycle,       \* the current or last cycle: generation, operation, targets
    todo,        \* targets the dispatch loop has still to visit
    unacked,     \* the sets of dispatchAndAwait
    remaining,
    last,        \* how the last cycle ended: "none", "ok" or "error"
    inbox,       \* FulfillmentEventSignal, in order
    unsent,      \* reports committed whose signal is not sent yet
    work,        \* what agents have been given and not finished
    done,        \* history: the work agents finished with success
    disturbances,
    retries

wf    == <<pc, cycle, todo, unacked, remaining, last>>
agent == <<work, done>>
bounds == <<disturbances, retries>>
vars  == <<fgen, rec, wf, inbox, unsent, agent, bounds>>

Work    == [target : Targets, operation : DeliveryOperation, generation : Nat]
Signals == [kind : {"acked"}, target : Targets, generation : Nat]
           \cup [kind : {"completed"}, target : Targets, generation : Nat, state : TerminalStates]

TypeOK ==
    /\ fgen \in 1 .. MaxGeneration
    /\ rec \in [Targets -> DeliveryRecord \cup {NoRecord}]
    /\ pc \in {"idle", "dispatch", "await"}
    /\ cycle \in [generation : Nat, operation : DeliveryOperation, targets : SUBSET Targets]
    /\ todo \subseteq unacked /\ unacked \subseteq remaining /\ remaining \subseteq cycle.targets
    /\ last \in {"none", "ok", "error"}
    /\ inbox \in Seq(Signals)
    /\ unsent \subseteq Signals
    /\ work \subseteq Work
    /\ done \subseteq Work
    /\ disturbances \in 0 .. MaxDisturbances
    /\ retries \in 0 .. MaxRetries

Init ==
    /\ fgen = 1
    /\ rec = [t \in Targets |-> NoRecord]
    /\ pc = "idle"
    /\ cycle = [generation |-> 0, operation |-> "deliver", targets |-> {}]
    /\ todo = {} /\ unacked = {} /\ remaining = {}
    /\ last = "none"
    /\ inbox = <<>>
    /\ unsent = {}
    /\ work = {} /\ done = {}
    /\ disturbances = 0 /\ retries = 0

Disturb == /\ disturbances < MaxDisturbances
           /\ disturbances' = disturbances + 1

\* A user's mutation bumps the generation while the workflow is at work.
BumpGeneration ==
    /\ fgen < MaxGeneration
    /\ fgen' = fgen + 1
    /\ UNCHANGED <<rec, wf, inbox, unsent, agent, bounds>>

-----------------------------------------------------------------------------
(* The workflow                                                            *)

\* The pass goes on: the first one, a newer generation, a retry of the pass,
\* after an error of the cycle or, when it ended well, of a later step of the
\* pass, or the deliver step that follows the remove step of a rollout.
PassContinues(op, targets) ==
    \/ fgen > cycle.generation /\ UNCHANGED retries
    \/ fgen = cycle.generation /\ retries < MaxRetries /\ retries' = retries + 1
    \/ /\ fgen = cycle.generation /\ last = "ok"
       /\ cycle.operation = "remove" /\ op = "deliver"
       /\ targets \cap cycle.targets = {}
       /\ UNCHANGED retries

\* A target changes its operation within a generation only if placement
\* resolves differently when the pass is retried.
OperationKept(t, op) ==
    rec[t] # NoRecord /\ rec[t].generation = fgen => rec[t].operation = op

StartCycle(op, targets) ==
    /\ pc = "idle"
    /\ targets # {}
    /\ PassContinues(op, targets)
    /\ StablePlacement => \A t \in targets : OperationKept(t, op)
    /\ pc' = "dispatch"
    /\ cycle' = [generation |-> fgen, operation |-> op, targets |-> targets]
    /\ todo' = targets /\ unacked' = targets /\ remaining' = targets
    /\ UNCHANGED <<fgen, rec, last, inbox, unsent, agent, disturbances>>

\* A wrong version: a record no agent has acknowledged is skipped too.
DeliverSkipsPending(d) == d # NoRecord /\ d.generation = cycle.generation /\ ~IsTerminal(d.state)

\* The record DeliverToTarget writes before it calls the agent; a record at
\* this generation that an agent acknowledged and did not finish is skipped.
DeliverSkips(d)  == d # NoRecord /\ d.generation = cycle.generation
                    /\ d.state # "pending" /\ ~IsTerminal(d.state)
DeliverWrites(d) ==
    IF d = NoRecord THEN NewDelivery(cycle.generation)
    ELSE IF cycle.generation > d.generation THEN Redispatch(d, cycle.generation)
    ELSE IF Retry(d, cycle.generation) THEN d
    ELSE ResetForRetry(d)

\* The same for RemoveFromTarget.
RemoveSkips(d)  == ~WithdrawModifies(d, cycle.generation) /\ ~Retry(d, cycle.generation)
RemoveWrites(d) == IF WithdrawModifies(d, cycle.generation)
                   THEN Withdraw(d, cycle.generation) ELSE d

Skips(d)  == IF cycle.operation = "deliver" THEN DeliverSkips(d) ELSE RemoveSkips(d)
Writes(d) == IF cycle.operation = "deliver" THEN DeliverWrites(d) ELSE RemoveWrites(d)

WorkOf(t) == [target |-> t, operation |-> cycle.operation, generation |-> cycle.generation]

\* The cycle ends; its sets are local to the call.
EndCycle(how) == /\ pc' = "idle" /\ last' = how
                 /\ todo' = {} /\ unacked' = {} /\ remaining' = {}
                 /\ UNCHANGED cycle

\* dispatch(t): the activity commits the record and calls the agent.  The
\* call, or the result of the activity, may be lost, and the activity is run
\* again; or its attempts run out and the cycle ends with the error.
DispatchOne(t) ==
    /\ pc = "dispatch"
    /\ t \in todo
    /\ ~(cycle.operation = "remove" /\ rec[t] = NoRecord)
    /\ \/ /\ Skips(rec[t])
          /\ todo' = todo \ {t}
          /\ UNCHANGED <<rec, work, pc, cycle, unacked, remaining, last, disturbances>>
       \/ /\ ~Skips(rec[t])
          /\ rec' = [rec EXCEPT ![t] = Writes(@)]
          /\ \/ /\ work' = work \cup {WorkOf(t)}
                /\ todo' = todo \ {t}
                /\ UNCHANGED <<pc, cycle, unacked, remaining, last, disturbances>>
             \/ /\ Disturb
                /\ work' \in {work, work \cup {WorkOf(t)}}
                /\ \/ UNCHANGED wf
                   \/ EndCycle("error")
    /\ UNCHANGED <<fgen, inbox, unsent, done, retries>>

\* A wrong version: the target stays in unacked.
SkipTargetStillUnacked(t) ==
    /\ pc = "dispatch"
    /\ t \in todo
    /\ cycle.operation = "remove" /\ rec[t] = NoRecord
    /\ todo' = todo \ {t}
    /\ remaining' = remaining \ {t}
    /\ UNCHANGED <<fgen, rec, pc, cycle, unacked, last, inbox, unsent, agent, bounds>>

\* RemoveFromTarget without a record: (false, nil), the target is dropped.
SkipTarget(t) ==
    /\ pc = "dispatch"
    /\ t \in todo
    /\ cycle.operation = "remove" /\ rec[t] = NoRecord
    /\ todo' = todo \ {t}
    /\ unacked' = unacked \ {t}
    /\ remaining' = remaining \ {t}
    /\ UNCHANGED <<fgen, rec, pc, cycle, last, inbox, unsent, agent, bounds>>

\* The dispatch loop is through.
Dispatched ==
    /\ pc = "dispatch"
    /\ todo = {}
    /\ IF remaining = {} THEN EndCycle("ok")
       ELSE pc' = "await" /\ UNCHANGED <<cycle, todo, unacked, remaining, last>>
    /\ UNCHANGED <<fgen, rec, inbox, unsent, agent, bounds>>

\* No answer of an unacknowledged target is under way.
Quiet == inbox = <<>> /\ unsent = {} /\ \A w \in work : w.target \notin unacked

\* AwaitSignalWithTimeout times out: back to the dispatch loop.  A timeout
\* that overtakes an answer counts against the bound.
AckTimeout ==
    /\ pc = "await"
    /\ unacked # {}
    /\ pc' = "dispatch"
    /\ todo' = unacked
    /\ IF Quiet THEN UNCHANGED disturbances ELSE Disturb
    /\ UNCHANGED <<fgen, rec, cycle, unacked, remaining, last, inbox, unsent, agent, retries>>

\* A wrong version: events are not fenced by generation.
EventCountsUnfenced(e) == e.target \in remaining

\* Events of other generations, and of deliveries not waited for, are dropped.
EventCounts(e) == e.generation = cycle.generation /\ e.target \in remaining

\* processDeliveryEvent on the next signal.
ProcessDeliveryEvent ==
    /\ pc = "await"
    /\ inbox # <<>>
    /\ inbox' = Tail(inbox)
    /\ LET e == Head(inbox) IN
       \/ ~EventCounts(e) /\ UNCHANGED wf
       \/ /\ EventCounts(e)
          /\ e.kind = "acked"
          /\ unacked' = unacked \ {e.target}
          /\ UNCHANGED <<pc, cycle, todo, remaining, last>>
       \/ /\ EventCounts(e)
          /\ e.kind = "completed"
          /\ \/ e.state \in {"failed", "auth_failed"} /\ EndCycle("error")
             \/ /\ e.state \notin {"failed", "auth_failed"}
                /\ IF remaining = {e.target} THEN EndCycle("ok")
                   ELSE /\ unacked' = unacked \ {e.target}
                        /\ remaining' = remaining \ {e.target}
                        /\ UNCHANGED <<pc, cycle, todo, last>>
    /\ UNCHANGED <<fgen, rec, unsent, agent, bounds>>

-----------------------------------------------------------------------------
(* Agents and DeliveryReportService                                        *)

\* A wrong version: reports are not fenced by generation.
ReportAppliesUnfenced(w, s) ==
    /\ rec[w.target] # NoRecord
    /\ TransitionLegal(rec[w.target], s)

\* A report of another generation, or one the state machine rejects, is
\* dropped.
ReportApplies(w, s) ==
    /\ rec[w.target] # NoRecord
    /\ rec[w.target].generation = w.generation
    /\ TransitionLegal(rec[w.target], s)

Acked(w) == [kind |-> "acked", target |-> w.target, generation |-> w.generation]
Completed(w, s) ==
    [kind |-> "completed", target |-> w.target, generation |-> w.generation, state |-> s]

\* ReportEvent (progressing) and ReportResult with a state that is not
\* terminal (accepted): the first one out of pending signals the ack.
ReportProgress(w, s) ==
    /\ w \in work
    /\ ReportApplies(w, s)
    /\ rec[w.target].state # s
    /\ rec' = [rec EXCEPT ![w.target] = TransitionTo(@, s)]
    /\ unsent' = IF rec[w.target].state = "pending" THEN unsent \cup {Acked(w)} ELSE unsent
    /\ UNCHANGED <<fgen, wf, inbox, agent, bounds>>

\* ReportResult with the terminal state the work ended in.
ReportResult(w, s) ==
    /\ w \in work
    /\ work' = work \ {w}
    /\ done' = IF s \in {"failed", "auth_failed"} THEN done ELSE done \cup {w}
    /\ \/ /\ ReportApplies(w, s)
          /\ rec' = [rec EXCEPT ![w.target] = TransitionTo(@, s)]
          /\ unsent' = unsent \cup {Completed(w, s)}
       \/ ~ReportApplies(w, s) /\ UNCHANGED <<rec, unsent>>
    /\ UNCHANGED <<fgen, wf, inbox, bounds>>

\* SignalFulfillmentEvent, after the commit.
SignalFulfillmentEvent ==
    /\ \E e \in unsent : unsent' = unsent \ {e} /\ inbox' = Append(inbox, e)
    /\ UNCHANGED <<fgen, rec, wf, agent, bounds>>

\* The server stops between the commit and the signal.
SignalLost ==
    /\ Disturb
    /\ \E e \in unsent : e.kind \in LossySignals /\ unsent' = unsent \ {e}
    /\ UNCHANGED <<fgen, rec, wf, inbox, agent, retries>>

\* ListActiveDeliveries: not terminal, and not older than the fulfillment.
ListActiveDeliveries(t) ==
    IF rec[t] = NoRecord \/ IsTerminal(rec[t].state) \/ rec[t].generation < fgen
    THEN {}
    ELSE {[target |-> t, operation |-> rec[t].operation, generation |-> rec[t].generation]}

WorkKind(t) == IF \E w \in work : w.target = t /\ w.generation < fgen
               THEN "superseded" ELSE "current"

\* An agent restarts without its work and asks for the active deliveries.
AgentRestart(t) ==
    /\ WorkKind(t) \in AgentRestarts
    /\ Disturb
    /\ work' = {w \in work : w.target # t} \cup ListActiveDeliveries(t)
    /\ UNCHANGED <<fgen, rec, wf, inbox, unsent, done, retries>>

-----------------------------------------------------------------------------
WorkflowStep ==
    \/ \E t \in Targets : DispatchOne(t) \/ SkipTarget(t)
    \/ Dispatched \/ AckTimeout \/ ProcessDeliveryEvent

AgentFinishes(t) == \E w \in work, s \in Results : w.target = t /\ ReportResult(w, s)

Next ==
    \/ BumpGeneration
    \/ \E op \in DeliveryOperation, targets \in SUBSET Targets : StartCycle(op, targets)
    \/ WorkflowStep
    \/ \E w \in work, s \in Progress : ReportProgress(w, s)
    \/ \E t \in Targets : AgentFinishes(t) \/ AgentRestart(t)
    \/ SignalFulfillmentEvent
    \/ SignalLost

Spec == Init /\ [][Next]_vars

\* The engine runs the workflow, the server sends the signals of the reports
\* it committed, and an agent finishes the work it has.
FairSpec == /\ Spec
            /\ WF_vars(WorkflowStep)
            /\ WF_vars(SignalFulfillmentEvent)
            /\ \A t \in Targets : WF_vars(AgentFinishes(t))

-----------------------------------------------------------------------------
(* Properties                                                              *)

\* A cycle that ended well was told so by the agents: each of its targets
\* (those without anything to remove apart) finished this operation of this
\* generation, whatever stale, repeated or reordered signals were queued
\* (processDeliveryEvent, the generation fence of DeliveryReportService).
CycleOkMeansDone ==
    pc = "idle" /\ last = "ok" =>
       \A t \in cycle.targets :
          \/ [target |-> t, operation |-> cycle.operation, generation |-> cycle.generation] \in done
          \/ cycle.operation = "remove" /\ rec[t] = NoRecord

\* A record says "delivered" only of work of its own generation: a late report
\* of an older one never completes a newer delivery (ReportResult).
RecordIsTruthful ==
    \A t \in Targets :
       rec[t] # NoRecord /\ rec[t].state \in {"delivered", "partial"}
         => [target |-> t, operation |-> rec[t].operation,
             generation |-> rec[t].generation] \in done

\* A cycle that is waiting for agents comes to an end: no ack that is lost, no
\* dispatch that is repeated and no stale signal leaves it waiting for ever.
CycleEnds == pc # "idle" ~> pc = "idle"
=============================================================================
