---------------------------- MODULE MemWorkflow ----------------------------
(***************************************************************************)
(* The in-memory workflow engine (infrastructure/memworkflow/mem.go) on    *)
(* one fulfillment ID: the registry's map entry with its signal channel,   *)
(* the guard that lets one instance run, callers of Start, senders of      *)
(* signals, and the atomic finish of a run.  Its formulas are named        *)
(* Engine..., so that a module may extend it beside another component.     *)
(***************************************************************************)
EXTENDS Naturals, Sequences

CONSTANTS Starters,  \* goroutines that call Start, again and again
          Senders,   \* goroutines that each send one signal
          Capacity,  \* of a signal channel (16 in the code)
          MaxStarts  \* bound on the runs that start

ASSUME EngineAssumption == /\ Capacity \in Nat \ {0}
                           /\ MaxStarts \in Nat

NoChannel == 0
None == "none"

VARIABLES
    entry,     \* instances[id]: the channel of the map entry, or NoChannel
    queues,    \* the channels made so far and what they hold
    guardMu,   \* guard.mu: None, or "finish" while a run finishes
    running,   \* instanceID is in guard.running
    run,       \* the goroutine of the instance: its place and its channel
    starter,   \* each caller of Start: its place and the channel it was given
    sender,    \* each sender: its place and the channel it was given
    started,   \* history: runs started
    delivered  \* history: results put into the done channels

engineVars == <<entry, queues, guardMu, running, run, starter, sender, started, delivered>>

Channels == 0 .. Len(queues)

EngineTypeOK ==
    /\ queues \in Seq(Seq(Senders))
    /\ entry \in Channels
    /\ guardMu \in {None, "finish"}
    /\ running \in BOOLEAN
    /\ run \in [pc : {None, "active", "cleanup", "deliver", "unlock"}, ch : Channels]
    /\ starter \in [Starters -> [pc : {"idle", "guard"}, ch : Channels]]
    /\ sender \in [Senders -> [pc : {"idle", "send", "sent"}, ch : Channels]]
    /\ started \in 0 .. MaxStarts /\ delivered \in 0 .. started

EngineInit ==
    /\ entry = NoChannel
    /\ queues = <<>>
    /\ guardMu = None
    /\ running = FALSE
    /\ run = [pc |-> None, ch |-> NoChannel]
    /\ starter = [s \in Starters |-> [pc |-> "idle", ch |-> NoChannel]]
    /\ sender = [g \in Senders |-> [pc |-> "idle", ch |-> NoChannel]]
    /\ started = 0 /\ delivered = 0

\* getInstance, under Registry.mu: the entry's channel, made when missing.
GetInstance ==
    IF entry # NoChannel THEN UNCHANGED <<entry, queues>>
    ELSE /\ queues' = Append(queues, <<>>)
         /\ entry' = Len(queues) + 1

\* orchestrationWorkflow.Start takes the instance before the guard.
StartGetsInstance(s) ==
    /\ starter[s].pc = "idle"
    /\ started < MaxStarts
    /\ GetInstance
    /\ starter' = [starter EXCEPT ![s] = [pc |-> "guard", ch |-> entry']]
    /\ UNCHANGED <<guardMu, running, run, sender, started, delivered>>

\* The guard check of startWorkflow, one critical section of guard.mu.
StartWorkflow(s) ==
    /\ starter[s].pc = "guard"
    /\ guardMu = None
    /\ starter' = [starter EXCEPT ![s].pc = "idle"]
    /\ \/ /\ running
          /\ UNCHANGED <<running, run, started>>
       \/ /\ ~running
          /\ started < MaxStarts
          /\ running' = TRUE
          /\ run' = [pc |-> "active", ch |-> starter[s].ch]
          /\ started' = started + 1
    /\ UNCHANGED <<entry, queues, guardMu, sender, delivered>>

\* The run receives a signal from the channel it was bound to.
Await ==
    /\ run.pc = "active"
    /\ queues[run.ch] # <<>>
    /\ queues' = [queues EXCEPT ![run.ch] = Tail(@)]
    /\ UNCHANGED <<entry, guardMu, running, run, starter, sender, started, delivered>>

\* A wrong version: the slot is given up before the guard is locked.
FinishVacatesUnlocked ==
    /\ run.pc = "active"
    /\ running' = FALSE
    /\ run' = [run EXCEPT !.pc = "cleanup"]
    /\ UNCHANGED <<entry, queues, guardMu, starter, sender, started, delivered>>

\* finish: lock the guard and take the instance out of the running set ...
FinishVacates ==
    /\ run.pc = "active"
    /\ guardMu = None
    /\ guardMu' = "finish"
    /\ running' = FALSE
    /\ run' = [run EXCEPT !.pc = "cleanup"]
    /\ UNCHANGED <<entry, queues, starter, sender, started, delivered>>

\* ... removeInstance, under Registry.mu ...
FinishRemovesInstance ==
    /\ run.pc = "cleanup"
    /\ entry' = NoChannel
    /\ run' = [run EXCEPT !.pc = "deliver"]
    /\ UNCHANGED <<queues, guardMu, running, starter, sender, started, delivered>>

\* A wrong version: the result is put there again and again.
FinishDeliversAgain ==
    /\ run.pc = "deliver"
    /\ delivered' = delivered + 1
    /\ UNCHANGED <<entry, queues, guardMu, running, run, starter, sender, started>>

\* ... put the result into the done channel (it has room for one) ...
FinishDelivers ==
    /\ run.pc = "deliver"
    /\ delivered' = delivered + 1
    /\ run' = [run EXCEPT !.pc = "unlock"]
    /\ UNCHANGED <<entry, queues, guardMu, running, starter, sender, started>>

\* ... and unlock.
FinishUnlocks ==
    /\ run.pc = "unlock"
    /\ guardMu' = None
    /\ run' = [pc |-> None, ch |-> NoChannel]
    /\ UNCHANGED <<entry, queues, running, starter, sender, started, delivered>>

\* SignalFulfillmentEvent: getInstance, then a send that waits for room.
SignalGetsInstance(g) ==
    /\ sender[g].pc = "idle"
    /\ GetInstance
    /\ sender' = [sender EXCEPT ![g] = [pc |-> "send", ch |-> entry']]
    /\ UNCHANGED <<guardMu, running, run, starter, started, delivered>>

SignalSends(g) ==
    /\ sender[g].pc = "send"
    /\ Len(queues[sender[g].ch]) < Capacity
    /\ queues' = [queues EXCEPT ![sender[g].ch] = Append(@, g)]
    /\ sender' = [sender EXCEPT ![g].pc = "sent"]
    /\ UNCHANGED <<entry, guardMu, running, run, starter, started, delivered>>

EngineNext ==
    \/ \E s \in Starters : StartGetsInstance(s) \/ StartWorkflow(s)
    \/ \E g \in Senders : SignalGetsInstance(g) \/ SignalSends(g)
    \/ Await
    \/ FinishVacates \/ FinishRemovesInstance \/ FinishDelivers \/ FinishUnlocks

EngineSpec == EngineInit /\ [][EngineNext]_engineVars

-----------------------------------------------------------------------------
\* "Atomic finish: ... so a concurrent Start cannot see the slot as vacant
\* before the result is delivered": whoever can pass the guard finds the
\* results of all earlier runs delivered (finish holds guard.mu throughout).
VacantSlotMeansResult ==
    ~running /\ guardMu = None => delivered = started
=============================================================================
