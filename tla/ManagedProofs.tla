--------------------------- MODULE ManagedProofs ---------------------------
(***************************************************************************)
(* What ManagedResource.tla checks for two incarnations of a name, proved  *)
(* for any number of them, of calls and of lost results, on an engine that *)
(* keeps signals and on one that does not.                                 *)
(***************************************************************************)
EXTENDS ManagedResource, TLAPS

CallPC  == {"idle", "persist", "startOrch", "mutate", "startCleanup",
            "converge", "start", "done", "failed"}
CallRec == [pc : CallPC, id : Ids \cup {Unmanaged}, gen : Nat, seen : Nat]
OrchRec == [pc : {"none", "load", "persist", "signal", "finish"},
            snap : Rows \cup {NoRow}, pause : BOOLEAN, restart : BOOLEAN]

-----------------------------------------------------------------------------
(* The invariant                                                           *)

\* The type invariant with its record sets named.
Types ==
    /\ typeDef \in BOOLEAN
    /\ row \in Resource \cup {NoRow}
    /\ ful \in [Ids -> Rows \cup {NoRow}]
    /\ orch \in [Ids -> OrchRec]
    /\ \A i \in Ids : orch[i].pc \in {"persist", "signal"} => orch[i].snap # NoRow
    /\ cleanup \in [Ids -> {"none", "await", "delete", "done"}]
    /\ signal \in [Ids -> BOOLEAN]
    /\ call \in [Calls -> CallRec]
    /\ made \in 0 .. MaxIncarnations /\ stale \in BOOLEAN

\* An ID that was not given out yet has left no trace.
UnusedAreFresh ==
    \A i \in Ids : i > made => /\ ful[i] = NoRow
                               /\ orch[i].pc = "none"
                               /\ cleanup[i] = "none"
                               /\ ~signal[i]

\* A workflow that holds a fulfillment ID was given one that is in use.
CallsHoldUsedIds ==
    \A c \in Calls : call[c].pc \in {"startOrch", "startCleanup", "converge", "start"}
                        => call[c].id \in Ids /\ call[c].id <= made

\* Only a mutation makes a fulfillment "deleting", so its generation is at
\* least the second; no pass is recorded that was not asked for.
RowsAreSound ==
    \A i \in Ids : ful[i] # NoRow =>
        /\ ful[i].generation >= 1
        /\ ful[i].observed <= ful[i].generation
        /\ ful[i].state = "deleting" => ful[i].generation >= 2

\* The snapshot of a pass is between what was observed and what is stored;
\* only a snapshot that is "deleting" leads to the cleanup signal.
SnapsAreSound ==
    \A i \in Ids : orch[i].pc \in {"persist", "signal"} =>
        /\ orch[i].snap \in Rows
        /\ orch[i].snap.state = "deleting" => orch[i].snap.generation >= 2
        /\ ful[i] # NoRow => /\ ful[i].observed <= orch[i].snap.generation
                             /\ orch[i].snap.generation <= ful[i].generation
        /\ orch[i].pc = "signal" =>
              /\ orch[i].snap.state = "deleting"
              /\ ful[i] # NoRow => ful[i].observed = orch[i].snap.generation

\* A signal, queued or taken, means that the removal was persisted.
SignalMeansTornDown ==
    \A i \in Ids : (signal[i] \/ cleanup[i] = "delete") /\ ful[i] # NoRow
                      => ful[i].observed >= 2

ManagedInv ==
    Types /\ Paired /\ UnusedAreFresh /\ CallsHoldUsedIds /\ RowsAreSound /\ SnapsAreSound
    /\ SignalMeansTornDown

-----------------------------------------------------------------------------
(* The methods of the aggregate                                            *)

\* The row a create writes is the first generation, nothing observed.
LEMMA NewFacts ==
    LET n == NewFulfillment(User) IN
    n \in Rows /\ n.generation = 1 /\ n.observed = 0 /\ n.state = "creating"
BY DEF NewFulfillment, Rows, FulfillmentRecord, FulfillmentState, NoLock

\* A delete and a resume raise the generation by one; only the delete changes
\* the state.
LEMMA MutationFacts ==
    ASSUME NEW f \in Rows
    PROVE  /\ TransitionToDeleting(f, User) \in Rows
           /\ TransitionToDeleting(f, User).generation = f.generation + 1
           /\ TransitionToDeleting(f, User).observed = f.observed
           /\ Resume(f, User) \in Rows
           /\ Resume(f, User).generation = f.generation + 1
           /\ Resume(f, User).observed = f.observed
           /\ Resume(f, User).state = f.state
<1> DEFINE d == [f EXCEPT !.auth = User, !.state = "deleting", !.paused = FALSE]
           u == [f EXCEPT !.auth = User, !.paused = FALSE]
<1>1. /\ d \in Rows /\ d.generation = f.generation /\ d.observed = f.observed
      /\ u \in Rows /\ u.generation = f.generation /\ u.observed = f.observed
      /\ u.state = f.state
  BY DEF Rows, FulfillmentRecord, FulfillmentState
<1>2. ASSUME NEW h \in Rows
      PROVE  /\ AdvanceGeneration(h) \in Rows
             /\ AdvanceGeneration(h).generation = h.generation + 1
             /\ AdvanceGeneration(h).observed = h.observed
             /\ AdvanceGeneration(h).state = h.state
  BY DEF Rows, FulfillmentRecord, AdvanceGeneration
<1>3. TransitionToDeleting(f, User) = AdvanceGeneration(d) /\ Resume(f, User) = AdvanceGeneration(u)
  BY DEF TransitionToDeleting, Resume
<1> HIDE DEF d, u
<1> QED BY <1>1, <1>2, <1>3

\* Loading takes the lock and changes nothing the invariant reads.
LEMMA AcquireFacts ==
    ASSUME NEW f \in Rows
    PROVE  LET n == AcquireOrchestrationLock(f) IN
           /\ n \in Rows
           /\ n.generation = f.generation /\ n.observed = f.observed /\ n.state = f.state
BY DEF Rows, FulfillmentRecord, AcquireOrchestrationLock, NoLock

\* Persisting records the generation of the pass; the state is the old one or
\* the one of the result.
LEMMA PersistFacts ==
    ASSUME NEW f \in Rows, NEW r \in ReconciliationResult({User}, {}), NEW g \in Nat
    PROVE  LET n == CompleteReconciliation(ApplyReconciliationResult(f, r), g) IN
           /\ n \in Rows
           /\ n.generation = f.generation
           /\ n.observed = g
           /\ n.state \in {f.state, r.state}
<1> DEFINE m == ApplyReconciliationResult(f, r)
<1>1. m \in Rows /\ m.generation = f.generation /\ m.lock = f.lock
      /\ m.state \in {f.state, r.state}
  BY DEF Rows, FulfillmentRecord, ReconciliationResult, ApplyReconciliationResult, FulfillmentState
<1> HIDE DEF m
<1>2. LET n == CompleteReconciliation(m, g) IN
      n \in Rows /\ n.generation = m.generation /\ n.observed = g /\ n.state = m.state
  BY <1>1 DEF Rows, FulfillmentRecord, CompleteReconciliation, NeedsRestart, NoLock
<1> QED BY <1>1, <1>2 DEF m

-----------------------------------------------------------------------------
(* Types                                                                   *)

LEMMA TypesAreTypeOK == Types => TypeOK
BY Zenon DEF Types, TypeOK, OrchRec, CallRec, CallPC

\* Constants: no row is a row, an ID is a positive number.
LEMMA ConstantFacts ==
    /\ NoRow \notin Rows /\ NoRow \notin Ids /\ NoRow # Unmanaged
    /\ MaxIncarnations \in Nat /\ Ids \subseteq Nat /\ Unmanaged \notin Ids
BY ManagedAssumption DEF Resource, Ids, Unmanaged

\* Moving one call on changes that call only.
LEMMA CallMoves ==
    ASSUME call \in [Calls -> CallRec], NEW c \in Calls, NEW p \in CallPC
    PROVE  /\ Goto(c, p) => /\ call' \in [Calls -> CallRec]
                            /\ call'[c].pc = p /\ call'[c].id = call[c].id
                            /\ \A d \in Calls \ {c} : call'[d] = call[d]
           /\ Ends(c, p) => /\ call' \in [Calls -> CallRec]
                            /\ call'[c].pc = p
                            /\ \A d \in Calls \ {c} : call'[d] = call[d]
<1>1. ASSUME NEW q \in CallRec PROVE [q EXCEPT !.pc = p] \in CallRec /\ [q EXCEPT !.pc = p].pc = p
                                     /\ [q EXCEPT !.pc = p].id = q.id
  BY DEF CallRec
<1>2. IdleCall \in CallRec
  BY DEF IdleCall, CallRec, CallPC
<1>3. ASSUME Goto(c, p)
      PROVE  /\ call' \in [Calls -> CallRec]
             /\ call'[c].pc = p /\ call'[c].id = call[c].id
             /\ \A d \in Calls \ {c} : call'[d] = call[d]
  <2>1. call' = [call EXCEPT ![c] = [@ EXCEPT !.pc = p]]
    BY <1>3 DEF Goto
  <2>2. call[c] \in CallRec
    OBVIOUS
  <2>3. call'[c] = [call[c] EXCEPT !.pc = p] /\ \A d \in Calls \ {c} : call'[d] = call[d]
    BY <2>1
  <2> QED BY <1>1, <2>1, <2>2, <2>3
<1>4. ASSUME Ends(c, p)
      PROVE  /\ call' \in [Calls -> CallRec]
             /\ call'[c].pc = p
             /\ \A d \in Calls \ {c} : call'[d] = call[d]
  <2>1. call' = [call EXCEPT ![c] = [IdleCall EXCEPT !.pc = p]]
    BY <1>4 DEF Ends
  <2> QED BY <1>1, <1>2, <2>1
<1> QED BY <1>3, <1>4

-----------------------------------------------------------------------------
(* The invariant is inductive                                              *)

LEMMA ManagedInit == Init => ManagedInv
<1> SUFFICES ASSUME Init PROVE ManagedInv
  OBVIOUS
<1>1. NoInstance \in OrchRec /\ NoInstance.pc = "none"
  BY DEF NoInstance, OrchRec
<1>2. IdleCall \in CallRec /\ IdleCall.pc = "idle"
  BY DEF IdleCall, CallRec, CallPC
<1>3. Types
  <2>1. made \in 0 .. MaxIncarnations
    BY ConstantFacts DEF Init
  <2>2. orch \in [Ids -> OrchRec] /\ call \in [Calls -> CallRec] /\ \A i \in Ids : orch[i].pc = "none"
    BY <1>1, <1>2 DEF Init
  <2>3. typeDef \in BOOLEAN /\ row \in Resource \cup {NoRow} /\ stale \in BOOLEAN
    BY DEF Init
  <2>4. /\ ful \in [Ids -> Rows \cup {NoRow}] /\ signal \in [Ids -> BOOLEAN]
        /\ cleanup \in [Ids -> {"none", "await", "delete", "done"}]
    BY DEF Init
  <2> QED BY <2>1, <2>2, <2>3, <2>4 DEF Types
<1>4. Paired
  BY ConstantFacts DEF Init, Paired, Managed, Stored
<1>5. \A i \in Ids : ful[i] = NoRow /\ orch[i].pc = "none" /\ cleanup[i] = "none" /\ ~signal[i]
  BY <1>1 DEF Init
<1>6. CallsHoldUsedIds
  BY <1>2 DEF Init, CallsHoldUsedIds
<1>7. UnusedAreFresh /\ RowsAreSound /\ SnapsAreSound /\ SignalMeansTornDown
  BY <1>5 DEF UnusedAreFresh, RowsAreSound, SnapsAreSound, SignalMeansTornDown
<1> QED BY <1>3, <1>4, <1>6, <1>7 DEF ManagedInv

\* A step that moves calls and touches no row and no other workflow.
LEMMA OnlyCalls ==
    ASSUME ManagedInv, UNCHANGED <<typeDef, row, ful, orch, cleanup, signal, made, stale>>,
           call' \in [Calls -> CallRec], CallsHoldUsedIds'
    PROVE  ManagedInv'
<1>1. Types'
  BY DEF ManagedInv, Types
<1>2. Paired' /\ UnusedAreFresh' /\ RowsAreSound' /\ SnapsAreSound' /\ SignalMeansTornDown'
  BY DEF ManagedInv, Paired, Managed, Stored, UnusedAreFresh, RowsAreSound, SnapsAreSound,
         SignalMeansTornDown
<1> QED BY <1>1, <1>2 DEF ManagedInv

\* The service calls, and the load of the convergence loop.
LEMMA CallsStep ==
    ASSUME ManagedInv, NEW c \in Calls,
           CallCreate(c) \/ CallDelete(c) \/ CallResume(c) \/ ConvergenceLoad(c)
    PROVE  ManagedInv'
<1>0. call \in [Calls -> CallRec] /\ CallsHoldUsedIds
  BY DEF ManagedInv, Types
<1>1. UNCHANGED <<typeDef, row, ful, orch, cleanup, signal, made, stale>>
  BY DEF CallCreate, CallDelete, CallResume, ConvergenceLoad
<1>2. CASE CallCreate(c)
  <2>1. Goto(c, "persist")
    BY <1>2 DEF CallCreate
  <2> QED BY <1>0, <1>1, <2>1, CallMoves, OnlyCalls DEF CallPC, CallsHoldUsedIds
<1>3. CASE CallDelete(c)
  <2>1. Goto(c, "mutate")
    BY <1>3 DEF CallDelete
  <2> QED BY <1>0, <1>1, <2>1, CallMoves, OnlyCalls DEF CallPC, CallsHoldUsedIds
<1>4. CASE CallResume(c)
  <2> DEFINE g == ful[row].generation
  <2>1. Managed /\ Stored(row) /\ call' = [call EXCEPT ![c] = [@ EXCEPT !.pc = "mutate", !.seen = g]]
    BY <1>4 DEF CallResume
  <2>2. g \in Nat
    <3>1. ful[row] \in Rows
      BY <2>1 DEF ManagedInv, Managed, Stored, Types
    <3> QED BY <3>1 DEF Rows, FulfillmentRecord
  <2> HIDE DEF g
  <2>3. call' \in [Calls -> CallRec] /\ call'[c].pc = "mutate"
        /\ \A d \in Calls \ {c} : call'[d] = call[d]
    BY <1>0, <2>1, <2>2 DEF CallRec, CallPC
  <2> QED BY <1>0, <1>1, <2>3, OnlyCalls DEF CallsHoldUsedIds
<1>5. CASE ConvergenceLoad(c)
  <2>1. call[c].pc = "converge" /\ (Ends(c, "done") \/ Ends(c, "failed") \/ Goto(c, "start"))
    BY <1>5 DEF ConvergenceLoad
  <2>2. "done" \in CallPC /\ "failed" \in CallPC /\ "start" \in CallPC
    BY DEF CallPC
  <2> QED BY <1>0, <1>1, <2>1, <2>2, CallMoves, OnlyCalls DEF CallsHoldUsedIds
<1> QED BY <1>2, <1>3, <1>4, <1>5

\* The create transaction: the two rows appear together, under an ID no
\* workflow has seen.
LEMMA CreateStep ==
    ASSUME ManagedInv, NEW c \in Calls, PersistManagedResource(c)
    PROVE  ManagedInv'
<1>0. Types /\ call \in [Calls -> CallRec] /\ CallsHoldUsedIds
  BY DEF ManagedInv, Types
<1>a. UNCHANGED <<typeDef, orch, cleanup, signal, stale>>
  BY DEF PersistManagedResource
<1>1. CASE Ends(c, "failed") /\ UNCHANGED <<row, ful, made>>
  BY <1>0, <1>a, <1>1, CallMoves, OnlyCalls DEF CallPC, CallsHoldUsedIds
<1>2. CASE /\ row = NoRow /\ typeDef /\ made < MaxIncarnations
           /\ made' = made + 1
           /\ ful' = [ful EXCEPT ![made'] = NewFulfillment(User)]
           /\ row' = made'
           /\ \/ call' = [call EXCEPT ![c].pc = "startOrch", ![c].id = made']
              \/ UNCHANGED call
  <2> DEFINE n == NewFulfillment(User)
  <2>1. n \in Rows /\ n.generation = 1 /\ n.observed = 0 /\ n.state = "creating"
    BY NewFacts
  <2> HIDE DEF n
  <2>2. made \in Nat /\ made' = made + 1 /\ made' \in Ids /\ made' \in 0 .. MaxIncarnations
    BY <1>0, <1>2, ConstantFacts DEF Ids, Types
  <2>3. ful' \in [Ids -> Rows \cup {NoRow}] /\ ful'[made'] = n
        /\ \A i \in Ids : i # made' => ful'[i] = ful[i]
    BY <1>0, <1>2, <2>1, <2>2 DEF n, Types
  <2>4. n # NoRow
    BY <2>1, ConstantFacts
  <2>5. call' \in [Calls -> CallRec] /\ CallsHoldUsedIds'
    <3>0. made' <= made' /\ \A k \in Ids : k <= made => k <= made'
      BY <2>2 DEF Ids
    <3>1. CASE UNCHANGED call
      BY <1>0, <3>0, <3>1, Zenon DEF CallsHoldUsedIds
    <3>2. CASE call' = [call EXCEPT ![c].pc = "startOrch", ![c].id = made']
      <4>1. call' = [call EXCEPT ![c] = [@ EXCEPT !.pc = "startOrch", !.id = made']]
        BY <3>2
      <4>2. call' \in [Calls -> CallRec] /\ call'[c].id = made'
            /\ \A d \in Calls \ {c} : call'[d] = call[d]
        BY <1>0, <2>2, <4>1 DEF CallRec, CallPC
      <4> QED BY <1>0, <2>2, <3>0, <4>2 DEF CallsHoldUsedIds
    <3> QED BY <1>2, <3>1, <3>2
  <2>6. Types'
    <3>1. row' \in Resource \cup {NoRow}
      BY <1>2, <2>2 DEF Resource
    <3> QED BY <1>0, <1>a, <2>2, <2>3, <2>5, <3>1 DEF Types
  <2>7. Paired'
    BY <1>2, <1>a, <2>2, <2>3, <2>4, ConstantFacts DEF ManagedInv, Paired, Managed, Stored
  <2>8. \A i \in Ids : i > made' => i > made /\ i # made'
    BY <2>2, ConstantFacts
  <2>9. /\ orch'[made'].pc = "none" /\ ~signal'[made'] /\ cleanup'[made'] = "none"
    BY <1>a, <2>2 DEF ManagedInv, UnusedAreFresh
  <2>10. UnusedAreFresh'
    BY <1>a, <2>3, <2>8 DEF ManagedInv, UnusedAreFresh
  <2>11. RowsAreSound'
    BY <2>1, <2>3 DEF ManagedInv, RowsAreSound
  <2>12. SnapsAreSound'
    BY <1>a, <2>3, <2>9 DEF ManagedInv, SnapsAreSound
  <2>13. SignalMeansTornDown'
    BY <1>a, <2>3, <2>9 DEF ManagedInv, SignalMeansTornDown
  <2> QED BY <2>5, <2>6, <2>7, <2>10, <2>11, <2>12, <2>13 DEF ManagedInv
<1> QED BY <1>1, <1>2 DEF PersistManagedResource

\* A mutation: it finds the row by name and raises its fulfillment by one
\* generation, whatever the other workflows are doing.
LEMMA MutatedStep ==
    ASSUME ManagedInv, NEW c \in Calls, NEW f \in Rows, NEW p \in CallPC, Managed, Stored(row),
           f.generation = ful[row].generation + 1, f.observed = ful[row].observed,
           Mutated(c, f, p), UNCHANGED <<typeDef, row, orch, cleanup, signal, made, stale>>
    PROVE  ManagedInv'
<1>0. Types /\ call \in [Calls -> CallRec] /\ ful[row] \in Rows /\ row \in Ids
  BY DEF ManagedInv, Managed, Stored, Types
<1>1. f.generation \in Nat /\ ful[row].generation \in Nat /\ ful[row].observed \in Nat
  BY <1>0 DEF Rows, FulfillmentRecord
<1>2. f # NoRow
  BY ConstantFacts
<1>3. ful' \in [Ids -> Rows \cup {NoRow}] /\ ful'[row] = f /\ \A i \in Ids \ {row} : ful'[i] = ful[i]
  BY <1>0 DEF Mutated, Types
<1>4. call' \in [Calls -> CallRec] /\ call'[c].id = row /\ \A d \in Calls \ {c} : call'[d] = call[d]
  BY <1>0, <1>1 DEF Mutated, CallRec
<1>5. row <= made
  BY <1>0, ConstantFacts DEF ManagedInv, UnusedAreFresh, Stored, Types
<1>6. Types'
  BY <1>0, <1>3, <1>4 DEF Types
<1>7. Paired'
  BY <1>0, <1>2, <1>3 DEF ManagedInv, Paired, Managed, Stored
<1>8. CallsHoldUsedIds'
  BY <1>0, <1>4, <1>5 DEF ManagedInv, CallsHoldUsedIds
<1>9. UnusedAreFresh'
  BY <1>0, <1>3, <1>5, ConstantFacts DEF ManagedInv, UnusedAreFresh, Types
<1>10. RowsAreSound'
  BY <1>0, <1>1, <1>3 DEF ManagedInv, RowsAreSound, Stored
<1>11. SnapsAreSound'
  <2>1. ASSUME NEW i \in Ids, orch[i].pc \in {"persist", "signal"}, orch[i].snap \in Rows
        PROVE  orch[i].snap.generation \in Nat
    BY <2>1 DEF Rows, FulfillmentRecord
  <2> QED BY <1>0, <1>1, <1>3, <2>1 DEF ManagedInv, SnapsAreSound, Stored
<1>12. SignalMeansTornDown'
  BY <1>0, <1>3 DEF ManagedInv, SignalMeansTornDown, Stored
<1> QED BY <1>6, <1>7, <1>8, <1>9, <1>10, <1>11, <1>12 DEF ManagedInv

\* An instance between two passes holds no snapshot the invariant speaks of.
LEMMA OrchMoves ==
    ASSUME ManagedInv, NEW i \in Ids, i <= made, NEW o \in OrchRec,
           o.pc \notin {"persist", "signal"}, orch' = [orch EXCEPT ![i] = o],
           UNCHANGED <<typeDef, row, ful, cleanup, signal, made, stale>>,
           call' \in [Calls -> CallRec], CallsHoldUsedIds'
    PROVE  ManagedInv'
<1>0. Types
  BY DEF ManagedInv
<1>1. orch' \in [Ids -> OrchRec] /\ orch'[i] = o /\ \A j \in Ids \ {i} : orch'[j] = orch[j]
  BY <1>0 DEF Types
<1>2. Types'
  BY <1>0, <1>1 DEF Types
<1>3. UnusedAreFresh'
  <2>1. ~(i > made)
    BY <1>0, ConstantFacts DEF Types
  <2> QED BY <1>1, <2>1 DEF ManagedInv, UnusedAreFresh
<1>4. SnapsAreSound'
  BY <1>1 DEF ManagedInv, SnapsAreSound
<1>5. Paired' /\ RowsAreSound' /\ SignalMeansTornDown'
  BY DEF ManagedInv, Paired, Managed, Stored, RowsAreSound, SignalMeansTornDown
<1> QED BY <1>2, <1>3, <1>4, <1>5 DEF ManagedInv

\* A started instance belongs to a fulfillment in use.
LEMMA StartStep ==
    ASSUME ManagedInv, NEW c \in Calls, CreateStartsOrchestration(c) \/ ConvergenceStart(c)
    PROVE  ManagedInv'
<1> DEFINE i == call[c].id
<1>0. /\ call[c].pc \in {"startOrch", "start"}
      /\ \/ StartInstance(i) /\ Ends(c, "done")
         \/ UNCHANGED orch /\ (Ends(c, "failed") \/ Goto(c, "converge"))
      /\ UNCHANGED <<typeDef, row, ful, cleanup, signal, made, stale>>
  BY DEF CreateStartsOrchestration, ConvergenceStart
<1>1. Types /\ call \in [Calls -> CallRec] /\ i \in Ids /\ i <= made
  BY <1>0 DEF ManagedInv, CallsHoldUsedIds, Types
<1>2. call' \in [Calls -> CallRec] /\ CallsHoldUsedIds'
  <2>1. "converge" \in CallPC /\ "done" \in CallPC /\ "failed" \in CallPC
    BY DEF CallPC
  <2>2. CASE Goto(c, "converge")
    BY <1>0, <1>1, <2>1, <2>2, CallMoves DEF ManagedInv, CallsHoldUsedIds
  <2>3. CASE Ends(c, "done") \/ Ends(c, "failed")
    BY <1>0, <1>1, <2>1, <2>3, CallMoves DEF ManagedInv, CallsHoldUsedIds
  <2> QED BY <1>0, <2>2, <2>3
<1>3. CASE UNCHANGED orch
  BY <1>0, <1>2, <1>3, OnlyCalls
<1>4. CASE StartInstance(i)
  <2> DEFINE o == [orch[i] EXCEPT !.pc = "load"]
  <2>1. orch' = [orch EXCEPT ![i] = o]
    BY <1>4 DEF StartInstance
  <2>2. o \in OrchRec /\ o.pc = "load"
    BY <1>1 DEF Types, OrchRec
  <2> HIDE DEF o, i
  <2> QED BY <1>0, <1>1, <1>2, <2>1, <2>2, OrchMoves
<1> QED BY <1>0, <1>3, <1>4

\* StartCleanup starts or finds the cleanup workflow of a fulfillment in use.
LEMMA StartCleanupStep ==
    ASSUME ManagedInv, NEW c \in Calls, StartCleanup(c)
    PROVE  ManagedInv'
<1> DEFINE i == call[c].id
<1>0. /\ call[c].pc = "startCleanup" /\ Goto(c, "converge")
      /\ cleanup' = [cleanup EXCEPT ![i] = IF @ \in {"none", "done"} THEN "await" ELSE @]
      /\ UNCHANGED <<typeDef, row, ful, orch, signal, made, stale>>
  BY DEF StartCleanup
<1>1. Types /\ call \in [Calls -> CallRec] /\ i \in Ids /\ i <= made
  BY <1>0 DEF ManagedInv, CallsHoldUsedIds, Types
<1>2. call' \in [Calls -> CallRec] /\ CallsHoldUsedIds'
  BY <1>0, <1>1, CallMoves DEF ManagedInv, CallsHoldUsedIds, CallPC
<1> HIDE DEF i
<1>3. /\ cleanup' \in [Ids -> {"none", "await", "delete", "done"}]
      /\ \A j \in Ids : cleanup'[j] = cleanup[j] \/ (j = i /\ cleanup'[j] = "await")
  BY <1>0, <1>1 DEF Types
<1>4. Types'
  BY <1>0, <1>1, <1>2, <1>3 DEF Types
<1>5. UnusedAreFresh'
  <2>1. ~(i > made)
    BY <1>1, ConstantFacts DEF Types
  <2> QED BY <1>0, <1>3, <2>1 DEF ManagedInv, UnusedAreFresh
<1>6. SignalMeansTornDown'
  BY <1>0, <1>3 DEF ManagedInv, SignalMeansTornDown
<1>7. Paired' /\ RowsAreSound' /\ SnapsAreSound'
  BY <1>0 DEF ManagedInv, Paired, Managed, Stored, RowsAreSound, SnapsAreSound
<1> QED BY <1>2, <1>4, <1>5, <1>6, <1>7 DEF ManagedInv

\* Load takes the snapshot of the row as it stands.
LEMMA LoadStep ==
    ASSUME ManagedInv, NEW i \in Ids, Load(i)
    PROVE  ManagedInv'
<1>0. Types /\ orch[i].pc = "load" /\ orch[i] \in OrchRec /\ CallsHoldUsedIds
      /\ UNCHANGED <<typeDef, row, cleanup, signal, call, made, stale>>
  BY DEF ManagedInv, Load, Types
<1>1. i <= made
  BY <1>0, ConstantFacts DEF ManagedInv, UnusedAreFresh, Types
<1>2. CASE ~Stored(i) /\ orch' = [orch EXCEPT ![i].pc = "finish"] /\ UNCHANGED ful
  <2> DEFINE o == [orch[i] EXCEPT !.pc = "finish"]
  <2>1. orch' = [orch EXCEPT ![i] = o]
    BY <1>2
  <2>2. o \in OrchRec /\ o.pc = "finish"
    BY <1>0 DEF OrchRec
  <2> HIDE DEF o
  <2>3. call' \in [Calls -> CallRec] /\ CallsHoldUsedIds'
    BY <1>0 DEF Types, CallsHoldUsedIds
  <2> QED BY <1>0, <1>1, <1>2, <2>1, <2>2, <2>3, OrchMoves
<1>3. CASE Stored(i) /\ ful' = [ful EXCEPT ![i] = AcquireOrchestrationLock(@)]
           /\ \E pause \in BOOLEAN :
                orch' = [orch EXCEPT ![i] = [pc |-> "persist", snap |-> ful'[i],
                                             pause |-> pause, restart |-> FALSE]]
  <2> DEFINE f == AcquireOrchestrationLock(ful[i])
  <2>1. ful[i] \in Rows /\ f \in Rows /\ f # NoRow
        /\ f.generation = ful[i].generation /\ f.observed = ful[i].observed /\ f.state = ful[i].state
    BY <1>0, <1>3, AcquireFacts, ConstantFacts DEF Types, Stored
  <2> HIDE DEF f
  <2>2. ful' \in [Ids -> Rows \cup {NoRow}] /\ ful'[i] = f /\ \A j \in Ids \ {i} : ful'[j] = ful[j]
    BY <1>0, <1>3, <2>1 DEF Types, f
  <2>3. PICK pause \in BOOLEAN :
           orch' = [orch EXCEPT ![i] = [pc |-> "persist", snap |-> f, pause |-> pause, restart |-> FALSE]]
    BY <1>3, <2>2
  <2>4. orch' \in [Ids -> OrchRec] /\ orch'[i].pc = "persist" /\ orch'[i].snap = f
        /\ \A j \in Ids \ {i} : orch'[j] = orch[j]
    BY <1>0, <2>1, <2>3 DEF Types, OrchRec
  <2>5. f.generation \in Nat /\ f.observed \in Nat
    BY <2>1 DEF Rows, FulfillmentRecord
  <2>6. Types'
    BY <1>0, <2>1, <2>2, <2>4 DEF Types
  <2>7. Paired'
    BY <1>0, <1>3, <2>1, <2>2 DEF ManagedInv, Paired, Managed, Stored
  <2>8. UnusedAreFresh'
    <3>1. ~(i > made)
      BY <1>0, <1>1, ConstantFacts DEF Types
    <3> QED BY <1>0, <2>2, <2>4, <3>1 DEF ManagedInv, UnusedAreFresh
  <2>9. CallsHoldUsedIds'
    BY <1>0 DEF CallsHoldUsedIds
  <2>10. RowsAreSound'
    BY <1>3, <2>1, <2>2 DEF ManagedInv, RowsAreSound, Stored
  <2>11. SnapsAreSound'
    BY <1>3, <2>1, <2>2, <2>4, <2>5 DEF ManagedInv, SnapsAreSound, RowsAreSound, Stored
  <2>12. SignalMeansTornDown'
    BY <1>0, <1>3, <2>1, <2>2 DEF ManagedInv, SignalMeansTornDown, Stored
  <2> QED BY <2>6, <2>7, <2>8, <2>9, <2>10, <2>11, <2>12 DEF ManagedInv
<1> QED BY <1>2, <1>3 DEF Load

\* Where a finished pass goes: to the next one or to the end.
LEMMA TurnFacts ==
    ASSUME NEW restart
    PROVE  Turn(restart) \in OrchRec /\ Turn(restart).pc \in {"load", "finish"}
BY DEF Turn, NoInstance, OrchRec

\* Persist records the generation of the snapshot.  That never lowers the
\* observed generation: one instance passes at a time, and its snapshot was
\* taken after the last one was recorded.
LEMMA PersistStep ==
    ASSUME ManagedInv, NEW i \in Ids, Persist(i)
    PROVE  ManagedInv'
<1> DEFINE gen == orch[i].snap.generation
           restart == NeedsRestart(ful[i], gen)
<1>0. Types /\ orch[i].pc = "persist" /\ orch[i] \in OrchRec /\ CallsHoldUsedIds
      /\ UNCHANGED <<typeDef, row, cleanup, signal, call, made, stale>>
  BY DEF ManagedInv, Persist, Types
<1>1. i <= made
  BY <1>0, ConstantFacts DEF ManagedInv, UnusedAreFresh, Types
<1>2. call' \in [Calls -> CallRec] /\ CallsHoldUsedIds'
  BY <1>0 DEF Types, CallsHoldUsedIds
<1>3. CASE ~Stored(i) /\ orch' = [orch EXCEPT ![i] = Turn(TRUE)] /\ UNCHANGED ful
  BY <1>0, <1>1, <1>2, <1>3, TurnFacts, OrchMoves
<1>4. CASE /\ Stored(i)
           /\ ful' = [ful EXCEPT ![i] =
                        CompleteReconciliation(ApplyReconciliationResult(@, Result(i)), gen)]
           /\ orch' = [orch EXCEPT ![i] = IF Deleting(i) /\ ~orch[i].pause
                                        THEN [@ EXCEPT !.pc = "signal", !.restart = restart]
                                        ELSE Turn(restart)]
  <2> DEFINE f == CompleteReconciliation(ApplyReconciliationResult(ful[i], Result(i)), gen)
             t == [orch[i] EXCEPT !.pc = "signal", !.restart = restart]
             o == IF Deleting(i) /\ ~orch[i].pause THEN t ELSE Turn(restart)
  <2>1. /\ ful[i] \in Rows /\ orch[i].snap \in Rows
        /\ orch[i].snap.state = "deleting" => gen >= 2
        /\ ful[i].observed <= gen /\ gen <= ful[i].generation
    BY <1>0, <1>4 DEF ManagedInv, SnapsAreSound, Types, Stored
  <2>2. gen \in Nat /\ ful[i].generation \in Nat /\ ful[i].observed \in Nat
    BY <2>1 DEF Rows, FulfillmentRecord
  <2>3. Result(i) \in ReconciliationResult({User}, {})
        /\ Result(i).state = IF Deleting(i) THEN "deleting" ELSE "active"
    <3>1. orch[i].pause \in BOOLEAN /\ orch[i].snap.auth \in {User}
      BY <1>0, <2>1 DEF OrchRec, Rows, FulfillmentRecord
    <3> QED BY <3>1 DEF Result, ReconciliationResult, FulfillmentState
  <2>4. f \in Rows /\ f # NoRow /\ f.generation = ful[i].generation /\ f.observed = gen
        /\ f.state \in {ful[i].state, IF Deleting(i) THEN "deleting" ELSE "active"}
    <3> DEFINE g == gen
               r == Result(i)
    <3>1. g \in Nat /\ r \in ReconciliationResult({User}, {})
      BY <2>2, <2>3
    <3>2. f = CompleteReconciliation(ApplyReconciliationResult(ful[i], r), g)
      OBVIOUS
    <3> HIDE DEF f, g, r
    <3>3. f \in Rows /\ f.generation = ful[i].generation /\ f.observed = g
          /\ f.state \in {ful[i].state, r.state}
      BY <2>1, <3>1, <3>2, PersistFacts
    <3> QED BY <2>3, <3>3, ConstantFacts DEF g, r
  <2>5. restart \in BOOLEAN
    BY DEF NeedsRestart
  <2>6. t \in OrchRec /\ t.pc = "signal" /\ t.snap = orch[i].snap
    <3> HIDE DEF restart
    <3> QED BY <1>0, <2>5 DEF OrchRec
  <2>7. /\ o \in OrchRec /\ o.pc \in {"signal", "load", "finish"}
        /\ o.pc = "signal" => o.snap = orch[i].snap /\ Deleting(i)
    <3> HIDE DEF t, restart
    <3> QED BY <2>6, TurnFacts
  <2>8. ful' = [ful EXCEPT ![i] = f] /\ orch' = [orch EXCEPT ![i] = o]
    BY <1>4
  <2> HIDE DEF f, o, t, restart
  <2>9. /\ ful' \in [Ids -> Rows \cup {NoRow}] /\ ful'[i] = f
        /\ \A j \in Ids \ {i} : ful'[j] = ful[j]
        /\ orch' \in [Ids -> OrchRec] /\ orch'[i] = o
        /\ \A j \in Ids \ {i} : orch'[j] = orch[j]
    BY <1>0, <2>4, <2>7, <2>8 DEF Types
  <2>10. Types'
    <3>1. orch'[i].pc \in {"persist", "signal"} => orch'[i].snap # NoRow
      BY <2>1, <2>7, <2>9, ConstantFacts
    <3> QED BY <1>0, <2>9, <3>1 DEF Types
  <2>11. Paired'
    BY <1>0, <1>4, <2>4, <2>9 DEF ManagedInv, Paired, Managed, Stored
  <2>12. UnusedAreFresh'
    <3>1. ~(i > made)
      BY <1>0, <1>1, ConstantFacts DEF Types
    <3> QED BY <1>0, <2>9, <3>1 DEF ManagedInv, UnusedAreFresh
  <2>13. RowsAreSound'
    <3>1. f.generation >= 1 /\ f.observed <= f.generation
      BY <1>4, <2>1, <2>2, <2>4 DEF ManagedInv, RowsAreSound, Stored
    <3>2. ASSUME f.state = "deleting" PROVE f.generation >= 2
      <4>1. CASE Deleting(i)
        BY <2>1, <2>2, <2>4, <4>1 DEF Deleting
      <4>2. CASE ~Deleting(i)
        BY <1>4, <2>4, <3>2, <4>2 DEF ManagedInv, RowsAreSound, Stored
      <4> QED BY <4>1, <4>2
    <3> QED BY <2>9, <3>1, <3>2 DEF ManagedInv, RowsAreSound
  <2>14. SnapsAreSound'
    BY <2>1, <2>2, <2>4, <2>7, <2>9 DEF ManagedInv, SnapsAreSound, Deleting
  <2>15. SignalMeansTornDown'
    BY <1>0, <1>4, <2>1, <2>2, <2>4, <2>9 DEF ManagedInv, SignalMeansTornDown, Stored
  <2> QED BY <1>2, <2>10, <2>11, <2>12, <2>13, <2>14, <2>15 DEF ManagedInv
<1> QED BY <1>3, <1>4 DEF Persist

\* The signal is sent, or the activity is repeated, for a removal that is
\* persisted.
LEMMA SignalStep ==
    ASSUME ManagedInv, NEW i \in Ids, Signal(i)
    PROVE  ManagedInv'
<1>0. Types /\ orch[i].pc = "signal" /\ orch[i] \in OrchRec
      /\ UNCHANGED <<typeDef, row, ful, cleanup, call, made, stale>>
  BY DEF ManagedInv, Signal, Types
<1>1. i <= made
  BY <1>0, ConstantFacts DEF ManagedInv, UnusedAreFresh, Types
<1>2. call' \in [Calls -> CallRec] /\ CallsHoldUsedIds'
  BY <1>0 DEF ManagedInv, Types, CallsHoldUsedIds
<1>3. ful[i] # NoRow => ful[i].observed >= 2
  BY <1>0 DEF ManagedInv, SnapsAreSound
<1>4. PICK o \in OrchRec :
         /\ orch' = [orch EXCEPT ![i] = o]
         /\ o.pc # "signal"
         /\ o.pc = "persist" => o.snap = orch[i].snap
  <2>1. CASE orch' = [orch EXCEPT ![i] = Turn(orch[i].restart)]
    BY <2>1, TurnFacts
  <2>2. CASE orch' = [orch EXCEPT ![i].pc = "persist", ![i].restart = FALSE]
    <3> DEFINE o == [orch[i] EXCEPT !.pc = "persist", !.restart = FALSE]
    <3>1. orch' = [orch EXCEPT ![i] = o]
      BY <2>2
    <3>2. o \in OrchRec /\ o.pc = "persist" /\ o.snap = orch[i].snap
      BY <1>0 DEF OrchRec
    <3> HIDE DEF o
    <3> QED BY <3>1, <3>2
  <2> QED BY <2>1, <2>2 DEF Signal
<1>5. /\ signal' \in [Ids -> BOOLEAN]
      /\ \A j \in Ids \ {i} : signal'[j] = signal[j]
  BY <1>0 DEF Signal, Types
<1>6. /\ orch' \in [Ids -> OrchRec] /\ orch'[i] = o
      /\ \A j \in Ids \ {i} : orch'[j] = orch[j]
  BY <1>0, <1>4 DEF Types
<1>7. Types'
  BY <1>0, <1>2, <1>4, <1>5, <1>6 DEF Types
<1>8. UnusedAreFresh'
  <2>1. ~(i > made)
    BY <1>0, <1>1, ConstantFacts DEF Types
  <2> QED BY <1>0, <1>5, <1>6, <2>1 DEF ManagedInv, UnusedAreFresh
<1>9. SnapsAreSound'
  BY <1>0, <1>4, <1>6 DEF ManagedInv, SnapsAreSound
<1>10. SignalMeansTornDown'
  BY <1>0, <1>3, <1>5 DEF ManagedInv, SignalMeansTornDown
<1>11. Paired' /\ RowsAreSound'
  BY <1>0 DEF ManagedInv, Paired, Managed, Stored, RowsAreSound
<1> QED BY <1>2, <1>7, <1>8, <1>9, <1>10, <1>11 DEF ManagedInv

\* The instance ends.
LEMMA FinishStep ==
    ASSUME ManagedInv, NEW i \in Ids, Finish(i)
    PROVE  ManagedInv'
<1>0. Types /\ orch[i].pc = "finish" /\ orch' = [orch EXCEPT ![i] = NoInstance]
      /\ UNCHANGED <<typeDef, row, ful, cleanup, signal, call, made, stale>>
  BY DEF ManagedInv, Finish
<1>1. i <= made
  BY <1>0, ConstantFacts DEF ManagedInv, UnusedAreFresh, Types
<1>2. call' \in [Calls -> CallRec] /\ CallsHoldUsedIds'
  BY <1>0 DEF ManagedInv, Types, CallsHoldUsedIds
<1>3. NoInstance \in OrchRec /\ NoInstance.pc = "none"
  BY DEF NoInstance, OrchRec
<1> QED BY <1>0, <1>1, <1>2, <1>3, OrchMoves

\* The cleanup workflow: it takes the signal, then deletes the row of the name
\* and its own fulfillment.
LEMMA CleanupStepKeeps ==
    ASSUME ManagedInv, NEW i \in Ids, CleanupStep(i)
    PROVE  ManagedInv'
<1>0. Types /\ UNCHANGED <<typeDef, orch, call, made>> /\ cleanup[i] # "none"
  BY DEF ManagedInv, CleanupStep, AwaitSignal, DeleteManagedResourceAndFulfillment
<1>1. ~(i > made)
  BY <1>0 DEF ManagedInv, UnusedAreFresh
<1>2. call' \in [Calls -> CallRec] /\ CallsHoldUsedIds'
  BY <1>0 DEF ManagedInv, Types, CallsHoldUsedIds
<1>3. CASE AwaitSignal(i)
  <2>1. /\ signal[i] /\ UNCHANGED <<row, ful, stale>>
        /\ cleanup' = [cleanup EXCEPT ![i] = "delete"] /\ signal' = [signal EXCEPT ![i] = FALSE]
    BY <1>3 DEF AwaitSignal
  <2>2. /\ cleanup' \in [Ids -> {"none", "await", "delete", "done"}] /\ signal' \in [Ids -> BOOLEAN]
        /\ \A j \in Ids \ {i} : cleanup'[j] = cleanup[j] /\ signal'[j] = signal[j]
    BY <1>0, <2>1 DEF Types
  <2>3. Types'
    BY <1>0, <1>2, <2>1, <2>2 DEF Types
  <2>4. UnusedAreFresh'
    BY <1>0, <1>1, <2>1, <2>2 DEF ManagedInv, UnusedAreFresh
  <2>5. SignalMeansTornDown'
    BY <2>1, <2>2 DEF ManagedInv, SignalMeansTornDown
  <2>6. Paired' /\ RowsAreSound' /\ SnapsAreSound'
    BY <1>0, <2>1 DEF ManagedInv, Paired, Managed, Stored, RowsAreSound, SnapsAreSound
  <2> QED BY <1>2, <2>3, <2>4, <2>5, <2>6 DEF ManagedInv
<1>4. CASE DeleteManagedResourceAndFulfillment(i)
  <2>1. /\ row' = NoRow /\ ful' = [ful EXCEPT ![i] = NoRow] /\ stale' = (stale \/ ~Stored(i))
        /\ UNCHANGED signal /\ \E n \in AfterCleanup : cleanup' = [cleanup EXCEPT ![i] = n]
    BY <1>4 DEF DeleteManagedResourceAndFulfillment
  <2>2. /\ cleanup' \in [Ids -> {"none", "await", "delete", "done"}]
        /\ \A j \in Ids \ {i} : cleanup'[j] = cleanup[j]
    BY <1>0, <2>1 DEF Types, AfterCleanup
  <2>3. /\ ful' \in [Ids -> Rows \cup {NoRow}] /\ ful'[i] = NoRow
        /\ \A j \in Ids \ {i} : ful'[j] = ful[j]
    BY <1>0, <2>1 DEF Types
  <2>4. stale' \in BOOLEAN
    BY <2>1
  <2>5. Types'
    BY <1>0, <1>2, <2>1, <2>2, <2>3, <2>4 DEF Types
  <2>6. UnusedAreFresh'
    BY <1>0, <1>1, <2>1, <2>2, <2>3 DEF ManagedInv, UnusedAreFresh
  <2>7. Paired'
    <3>1. ~Managed'
      BY <2>1, ConstantFacts DEF Managed
    <3>2. ASSUME ~stale', NEW j \in Ids, ful'[j] # NoRow PROVE FALSE
      <4>1. ~stale /\ Stored(i) /\ j # i /\ Stored(j)
        BY <2>1, <2>3, <3>2 DEF Stored
      <4> QED BY <4>1 DEF ManagedInv, Paired
    <3> QED BY <3>1, <3>2 DEF Paired, Stored
  <2>8. RowsAreSound' /\ SnapsAreSound'
    BY <1>0, <2>3 DEF ManagedInv, RowsAreSound, SnapsAreSound
  <2>9. SignalMeansTornDown'
    BY <2>1, <2>2, <2>3 DEF ManagedInv, SignalMeansTornDown
  <2> QED BY <1>2, <2>5, <2>6, <2>7, <2>8, <2>9 DEF ManagedInv
<1> QED BY <1>3, <1>4 DEF CleanupStep

\* A report makes a row that has no fulfillment; the type comes and goes.
LEMMA TypeStep ==
    ASSUME ManagedInv, Report \/ DeleteType \/ CreateType
    PROVE  ManagedInv'
<1>0. /\ UNCHANGED <<ful, orch, cleanup, signal, call, made, stale>>
      /\ typeDef' \in BOOLEAN
      /\ row' = row \/ (row = NoRow /\ row' = Unmanaged)
  BY DEF ManagedInv, Types, Report, DeleteType, CreateType
<1>1. Types'
  <2>1. row' \in Resource \cup {NoRow}
    BY <1>0 DEF ManagedInv, Types, Resource
  <2> QED BY <1>0, <2>1 DEF ManagedInv, Types
<1>2. Paired'
  BY <1>0, ConstantFacts DEF ManagedInv, Paired, Managed, Stored
<1>3. UnusedAreFresh' /\ CallsHoldUsedIds' /\ RowsAreSound' /\ SnapsAreSound' /\ SignalMeansTornDown'
  BY <1>0 DEF ManagedInv, UnusedAreFresh, CallsHoldUsedIds, RowsAreSound, SnapsAreSound,
              SignalMeansTornDown
<1> QED BY <1>1, <1>2, <1>3 DEF ManagedInv

LEMMA ManagedStep == ManagedInv /\ [Next]_vars => ManagedInv'
<1> SUFFICES ASSUME ManagedInv, [Next]_vars PROVE ManagedInv'
  OBVIOUS
<1>1. CASE UNCHANGED vars
  BY <1>1, OnlyCalls DEF vars, ManagedInv, Types, CallsHoldUsedIds
<1>2. ASSUME NEW c \in Calls, CallStep(c) PROVE ManagedInv'
  <2>1. CASE MutateToDeleting(c) \/ MutateToResumed(c)
    <3>1. UNCHANGED <<typeDef, row, orch, cleanup, signal, made, stale>>
          /\ call \in [Calls -> CallRec] /\ CallsHoldUsedIds
      BY <2>1 DEF MutateToDeleting, MutateToResumed, ManagedInv, Types
    <3>2. CASE Ends(c, "failed") /\ UNCHANGED ful
      BY <3>1, <3>2, CallMoves, OnlyCalls DEF CallPC, CallsHoldUsedIds
    <3>3. Managed /\ Stored(row) => ful[row] \in Rows
      BY DEF ManagedInv, Types, Managed, Stored
    <3>4. CASE Managed /\ Stored(row)
               /\ Mutated(c, TransitionToDeleting(ful[row], User), "startCleanup")
      BY <3>1, <3>3, <3>4, MutationFacts, MutatedStep DEF CallPC
    <3>5. CASE Managed /\ Stored(row) /\ Mutated(c, Resume(ful[row], User), "converge")
      BY <3>1, <3>3, <3>5, MutationFacts, MutatedStep DEF CallPC
    <3> QED BY <2>1, <3>2, <3>4, <3>5 DEF MutateToDeleting, MutateToResumed
  <2> QED BY <1>2, <2>1, CreateStep, StartStep, StartCleanupStep, CallsStep DEF CallStep
<1>3. ASSUME NEW i \in Ids, OrchStep(i) PROVE ManagedInv'
  BY <1>3, LoadStep, PersistStep, SignalStep, FinishStep DEF OrchStep
<1> QED BY <1>1, <1>2, <1>3, CallsStep, CleanupStepKeeps, TypeStep DEF Next

-----------------------------------------------------------------------------
(* The theorems                                                            *)

\* Every reachable state is well formed: in particular an instance that is
\* about to persist or to signal has a snapshot.
THEOREM ManagedTypeCorrect == Spec => []TypeOK
<1>1. ManagedInv => TypeOK
  BY TypesAreTypeOK DEF ManagedInv
<1> QED BY <1>1, ManagedInit, ManagedStep, PTL DEF Spec

\* A managed row names a stored fulfillment, and, until a cleanup runs whose
\* fulfillment is gone already, every stored fulfillment is the one the row
\* names: for any number of incarnations, calls, reports and lost results.
THEOREM RowAndFulfillmentPaired == Spec => []Paired
<1>1. ManagedInv => Paired
  BY DEF ManagedInv
<1> QED BY <1>1, ManagedInit, ManagedStep, PTL DEF Spec

\* With the same exception, a managed resource goes only in the cleanup of its
\* own incarnation, after the pass that removed its deliveries was persisted.
THEOREM GoneAfterTeardown == Spec => GoneOnlyAfterTeardown
<1> DEFINE Teardown == Managed /\ row' = NoRow /\ ~stale'
                         => cleanup[row] = "delete" /\ ful[row].observed >= 2
<1>1. ManagedInv /\ [Next]_vars => [Teardown]_vars
  <2> SUFFICES ASSUME ManagedInv, Next, Managed, row' = NoRow, ~stale'
               PROVE  cleanup[row] = "delete" /\ ful[row].observed >= 2
    BY DEF vars
  <2>1. row' # row
    BY ConstantFacts DEF Managed
  <2>2. row # NoRow
    BY ConstantFacts DEF Managed
  <2>3. PICK i \in Ids : DeleteManagedResourceAndFulfillment(i)
    <3>1. ASSUME NEW c \in Calls, CallStep(c) PROVE FALSE
      <4>1. PersistManagedResource(c) => row' = row
        BY <2>2 DEF PersistManagedResource
      <4> QED BY <2>1, <3>1, <4>1
              DEF CallStep, CreateStartsOrchestration, MutateToDeleting, MutateToResumed,
                  StartCleanup, ConvergenceLoad, ConvergenceStart
    <3>2. ASSUME NEW c \in Calls, CallCreate(c) \/ CallDelete(c) \/ CallResume(c) PROVE FALSE
      BY <2>1, <3>2 DEF CallCreate, CallDelete, CallResume
    <3>3. ASSUME NEW i \in Ids, OrchStep(i) \/ AwaitSignal(i) PROVE FALSE
      BY <2>1, <3>3 DEF OrchStep, Load, Persist, Signal, Finish, AwaitSignal
    <3>4. ~(Report \/ DeleteType \/ CreateType)
      BY <2>1, <2>2 DEF Report, DeleteType, CreateType
    <3> QED BY <3>1, <3>2, <3>3, <3>4 DEF Next, CleanupStep
  <2>4. cleanup[i] = "delete" /\ ~stale /\ Stored(i)
    BY <2>3 DEF DeleteManagedResourceAndFulfillment
  <2>5. row = i
    BY <2>4 DEF ManagedInv, Paired
  <2> QED BY <2>4, <2>5 DEF ManagedInv, SignalMeansTornDown, Stored
<1> QED BY <1>1, ManagedInit, ManagedStep, PTL DEF Spec, GoneOnlyAfterTeardown
=============================================================================
