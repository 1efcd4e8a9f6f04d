---------------------------- MODULE StoreProofs ----------------------------
(***************************************************************************)
(* What FulfillmentStore.tla checks for three writers, proved for every    *)
(* set of them.  Types hold on both stores; that no mutation is lost, and  *)
(* that a commit is one atomic step on the row, hold on sqlite, whose      *)
(* BEGIN IMMEDIATE admits one write transaction at a time.  The second     *)
(* part proves the atomic finish of MemWorkflow.tla, the engine that runs  *)
(* the workflows between those transactions when none is durable.          *)
(***************************************************************************)
EXTENDS FulfillmentStore, MemWorkflow, FiniteSetTheorems, TLAPS

Rec   == FulfillmentRecord(Auths, {})
PCs   == {"idle", "begun", "loaded", "updated", "done"}
TxRec == [pc : PCs, op : Ops, copy : Rec]

\* The lock never names a generation the row has not reached.
LockInRange(f) == f.lock \in 0 .. f.generation

-----------------------------------------------------------------------------
(* The methods of the aggregate                                            *)

\* Whatever the activity does, it leaves a well-formed record; a delete and a
\* resume raise the generation by one, nothing else moves it.
LEMMA ApplyFacts ==
    ASSUME NEW f \in Rec, LockInRange(f), NEW w \in Writers,
           NEW op \in [kind : Operations, gen : Nat]
    PROVE  /\ Apply(op, w, f) \in Rec
           /\ LockInRange(Apply(op, w, f))
           /\ Apply(op, w, f).generation =
                 IF op.kind \in Mutations THEN f.generation + 1 ELSE f.generation
<1> USE DEF Rec, FulfillmentRecord, FulfillmentState, LockInRange, Mutations
<1>0. w \in Auths /\ "creator" \in Auths /\ op.gen \in Nat
      /\ op.kind \in {"delete", "resume", "persist", "acquire", "release"}
  BY StoreAssumption DEF Auths
<1>1. CASE op.kind = "delete"
  <2> DEFINE d == [f EXCEPT !.auth = w, !.state = "deleting", !.paused = FALSE]
  <2>1. d \in Rec /\ d.generation = f.generation /\ d.lock = f.lock
    BY <1>0
  <2>2. Apply(op, w, f) = AdvanceGeneration(d)
    BY <1>1 DEF Apply, TransitionToDeleting
  <2> HIDE DEF d
  <2> QED BY <1>1, <2>1, <2>2 DEF AdvanceGeneration
<1>2. CASE op.kind = "resume"
  <2> DEFINE d == [f EXCEPT !.auth = w, !.paused = FALSE]
  <2>1. d \in Rec /\ d.generation = f.generation /\ d.lock = f.lock
    BY <1>0
  <2>2. Apply(op, w, f) = AdvanceGeneration(d)
    BY <1>2 DEF Apply, Resume
  <2> HIDE DEF d
  <2> QED BY <1>2, <2>1, <2>2 DEF AdvanceGeneration
<1>3. CASE op.kind = "persist"
  <2> DEFINE m == ApplyReconciliationResult(f, Result)
  <2>1. m \in Rec /\ m.generation = f.generation /\ m.lock = f.lock
    BY <1>0 DEF ApplyReconciliationResult, Result
  <2>2. Apply(op, w, f) = CompleteReconciliation(m, op.gen)
    BY <1>3 DEF Apply
  <2> HIDE DEF m
  <2> DEFINE l == IF NeedsRestart(m, op.gen) THEN m.lock ELSE NoLock
  <2>3. l \in Nat /\ l \in 0 .. f.generation
    BY <2>1 DEF NoLock
  <2>4. Apply(op, w, f) = [m EXCEPT !.observed = op.gen, !.lock = l]
    BY <2>2 DEF CompleteReconciliation
  <2> HIDE DEF l
  <2>5. LET n == [m EXCEPT !.observed = op.gen, !.lock = l] IN
        n \in Rec /\ n.lock = l /\ n.generation = m.generation
    BY <1>0, <2>1, <2>3
  <2>6. op.kind \notin Mutations
    BY <1>3
  <2> QED BY <2>1, <2>3, <2>4, <2>5, <2>6
<1>4. CASE op.kind = "acquire"
  <2>1. Apply(op, w, f) = AcquireOrchestrationLock(f)
    BY <1>4 DEF Apply
  <2> QED BY <1>4, <2>1 DEF AcquireOrchestrationLock, NoLock
<1>5. CASE op.kind = "release"
  <2>1. Apply(op, w, f) = ReleaseOrchestrationLock(f)
    BY <1>5 DEF Apply
  <2> QED BY <1>5, <2>1 DEF ReleaseOrchestrationLock, NoLock
<1> QED BY <1>0, <1>1, <1>2, <1>3, <1>4, <1>5

-----------------------------------------------------------------------------
(* Types, on both stores                                                   *)

\* The part of the invariant that does not depend on the store: a transaction
\* that is open knows its operation, and its copy keeps the lock in range.
Types ==
    /\ row \in Rec /\ LockInRange(row)
    /\ tx \in [Writers -> TxRec]
    /\ \A w \in Writers : LockInRange(tx[w].copy)
    /\ \A w \in Writers : Open(w) => tx[w].op \in [kind : Operations, gen : Nat]
    /\ committed \subseteq Writers

\* One step of one transaction keeps the types.
LEMMA TypesStep == Types /\ [Next]_vars => Types'
<1> SUFFICES ASSUME Types, [Next]_vars PROVE Types'
  OBVIOUS
<1> USE DEF Types
<1>1. CASE UNCHANGED vars
  BY <1>1 DEF vars, Open
<1>2. ASSUME NEW w \in Writers, NEW kind \in Operations, Begin(w, kind) PROVE Types'
  <2>1. PICK g \in {row.generation, row.observed} :
           tx' = [tx EXCEPT ![w].pc = "begun", ![w].op = [kind |-> kind, gen |-> g]]
    BY <1>2 DEF Begin
  <2> DEFINE o == [kind |-> kind, gen |-> g]
  <2>2. g \in Nat /\ o \in [kind : Operations, gen : Nat]
    BY DEF Rec, FulfillmentRecord
  <2>3. o \in Ops
    BY <2>2 DEF Ops
  <2> HIDE DEF o
  <2>4. tx' = [tx EXCEPT ![w] = [@ EXCEPT !.pc = "begun", !.op = o]]
    BY <2>1 DEF o
  <2>5. \A v \in Writers \ {w} : tx'[v] = tx[v]
    BY <2>4
  <2>6. tx'[w].pc = "begun" /\ tx'[w].op = o /\ tx'[w].copy = tx[w].copy
    BY <2>4 DEF TxRec
  <2>7. tx' \in [Writers -> TxRec]
    BY <2>3, <2>4 DEF TxRec, PCs
  <2>8. UNCHANGED <<row, committed>>
    BY <1>2 DEF Begin
  <2> QED BY <2>2, <2>5, <2>6, <2>7, <2>8 DEF Open
<1>3. ASSUME NEW w \in Writers, Get(w) PROVE Types'
  <2>1. tx' = [tx EXCEPT ![w] = [@ EXCEPT !.pc = "loaded", !.copy = row]]
    BY <1>3 DEF Get
  <2>2. \A v \in Writers \ {w} : tx'[v] = tx[v]
    BY <2>1
  <2>3. tx'[w].pc = "loaded" /\ tx'[w].op = tx[w].op /\ tx'[w].copy = row
    BY <2>1 DEF TxRec
  <2>4. tx' \in [Writers -> TxRec]
    BY <2>1 DEF TxRec, PCs
  <2>5. UNCHANGED <<row, committed>> /\ Open(w)
    BY <1>3 DEF Get, Open
  <2> QED BY <2>2, <2>3, <2>4, <2>5 DEF Open
<1>4. ASSUME NEW w \in Writers, Update(w) PROVE Types'
  <2> DEFINE n == Apply(tx[w].op, w, tx[w].copy)
  <2>1. tx' = [tx EXCEPT ![w] = [@ EXCEPT !.pc = "updated", !.copy = n]]
    BY <1>4 DEF Update
  <2>2. Open(w) /\ UNCHANGED <<row, committed>>
    BY <1>4 DEF Update, Open
  <2>3. n \in Rec /\ LockInRange(n)
    BY <2>2, ApplyFacts DEF TxRec
  <2> HIDE DEF n
  <2>4. \A v \in Writers \ {w} : tx'[v] = tx[v]
    BY <2>1
  <2>5. tx'[w].pc = "updated" /\ tx'[w].op = tx[w].op /\ tx'[w].copy = n
    BY <2>1 DEF TxRec
  <2>6. tx' \in [Writers -> TxRec]
    BY <2>1, <2>3 DEF TxRec, PCs
  <2> QED BY <2>2, <2>3, <2>4, <2>5, <2>6 DEF Open
<1>5. ASSUME NEW w \in Writers, Commit(w) \/ Rollback(w) PROVE Types'
  <2>1. tx' = [tx EXCEPT ![w] = [@ EXCEPT !.pc = "done"]]
    BY <1>5 DEF Commit, Rollback
  <2>2. \A v \in Writers \ {w} : tx'[v] = tx[v]
    BY <2>1
  <2>3. tx'[w].pc = "done" /\ tx'[w].copy = tx[w].copy
    BY <2>1 DEF TxRec
  <2>4. tx' \in [Writers -> TxRec]
    BY <2>1 DEF TxRec, PCs
  <2>5. row' \in {row, tx[w].copy} /\ committed' \in {committed, committed \cup {w}}
    BY <1>5 DEF Commit, Rollback
  <2>6. tx[w].copy \in Rec
    BY DEF TxRec
  <2> QED BY <2>2, <2>3, <2>4, <2>5, <2>6 DEF Open
<1> QED BY <1>1, <1>2, <1>3, <1>4, <1>5 DEF Next

\* The row as the first pass left it is well formed.
LEMMA TypesInit == Init => Types
<1> SUFFICES ASSUME Init PROVE Types
  OBVIOUS
<1>1. row \in Rec /\ LockInRange(row)
  <2> DEFINE n == NewFulfillment("creator")
  <2>1. n \in Rec /\ n.lock = 0 /\ n.generation = 1
    BY DEF NewFulfillment, Rec, FulfillmentRecord, FulfillmentState, Auths, NoLock
  <2>2. row = [n EXCEPT !.paused = TRUE, !.observed = 1]
    BY DEF Init
  <2> HIDE DEF n
  <2>3. row \in Rec
    BY <2>1, <2>2 DEF Rec, FulfillmentRecord
  <2>4. row.lock = 0 /\ row.generation = 1
    BY <2>1, <2>2 DEF Rec, FulfillmentRecord
  <2> QED BY <2>3, <2>4 DEF LockInRange
<1>2. NoOp \in Ops /\ "idle" \in PCs
  BY DEF Ops, PCs
<1>3. tx \in [Writers -> TxRec] /\ \A w \in Writers : tx[w].copy = row /\ tx[w].pc = "idle"
  BY <1>1, <1>2 DEF Init, TxRec
<1> QED BY <1>1, <1>3 DEF Types, Init, Open

LEMMA TypesImpliesTypeOK == Types => TypeOK
BY DEF Types, TypeOK, Rec, TxRec, PCs, LockInRange

\* Type correctness of the row and of every transaction, on either store, in
\* particular: the orchestration lock in the row never names a generation the
\* row has not reached.
THEOREM StoreTypeCorrect == Spec => []TypeOK
<1> QED BY TypesInit, TypesStep, TypesImpliesTypeOK, PTL DEF Spec

-----------------------------------------------------------------------------
(* The sqlite store                                                        *)

\* BEGIN IMMEDIATE admits one write transaction at a time.
OneOpen == \A v, w \in Writers : Open(v) /\ Open(w) => v = w

\* What an open transaction read is still the row, and what it wrote is the
\* operation applied to the row.
CopiesAreFresh ==
    \A w \in Writers :
       /\ tx[w].pc = "loaded"  => tx[w].copy = row
       /\ tx[w].pc = "updated" => tx[w].copy = Apply(tx[w].op, w, row)

\* The mutations counted are those of transactions that are over.
CommittedAreDone ==
    IsFiniteSet(committed) /\ \A w \in committed : tx[w].pc = "done"

StoreInv == Types /\ OneOpen /\ CopiesAreFresh /\ CommittedAreDone /\ NoMutationLost

LEMMA StoreInit == Init => StoreInv
<1> SUFFICES ASSUME Init PROVE StoreInv
  OBVIOUS
<1>1. Types
  BY TypesInit
<1>2. \A w \in Writers : tx[w].pc = "idle"
  BY DEF Init
<1>3. IsFiniteSet(committed) /\ Cardinality(committed) = 0
  BY FS_EmptySet DEF Init
<1>4. row.generation = 1
  <2> DEFINE n == NewFulfillment("creator")
  <2>1. n \in Rec /\ n.generation = 1
    BY DEF NewFulfillment, Rec, FulfillmentRecord, FulfillmentState, Auths, NoLock
  <2>2. row = [n EXCEPT !.paused = TRUE, !.observed = 1]
    BY DEF Init
  <2> HIDE DEF n
  <2> QED BY <2>1, <2>2 DEF Rec, FulfillmentRecord
<1> QED BY <1>1, <1>2, <1>3, <1>4 DEF StoreInv, OneOpen, Open, CopiesAreFresh, CommittedAreDone, NoMutationLost, Init

\* Every step of every transaction keeps the invariant: no second writer gets
\* in between a transaction's Get and its Commit, so the row a commit replaces
\* is the row it loaded.
LEMMA StoreStep ==
    ASSUME Backend = "sqlite", StoreInv, [Next]_vars PROVE StoreInv'
<1> USE DEF StoreInv
<1>0. Types'
  BY TypesStep
<1>1. CASE UNCHANGED vars
  BY <1>0, <1>1 DEF vars, Open, OneOpen, CopiesAreFresh, CommittedAreDone, NoMutationLost
<1>2. ASSUME NEW w \in Writers, NEW kind \in Operations, Begin(w, kind) PROVE StoreInv'
  <2>1. /\ \A v \in Writers : ~Open(v)
        /\ tx[w].pc = "idle" /\ UNCHANGED <<row, committed>>
    BY <1>2 DEF Begin
  <2>2. PICK g \in {row.generation, row.observed} :
           tx' = [tx EXCEPT ![w] = [@ EXCEPT !.pc = "begun", !.op = [kind |-> kind, gen |-> g]]]
    BY <1>2 DEF Begin
  <2>3. tx'[w].pc = "begun" /\ \A v \in Writers \ {w} : tx'[v] = tx[v]
    BY <2>2 DEF Types, TxRec
  <2> QED BY <1>0, <2>1, <2>3 DEF Types, Open, OneOpen, CopiesAreFresh, CommittedAreDone, NoMutationLost
<1>3. ASSUME NEW w \in Writers, Get(w) PROVE StoreInv'
  <2>1. tx[w].pc = "begun" /\ UNCHANGED <<row, committed>>
        /\ tx' = [tx EXCEPT ![w] = [@ EXCEPT !.pc = "loaded", !.copy = row]]
    BY <1>3 DEF Get
  <2>2. tx'[w].pc = "loaded" /\ tx'[w].copy = row /\ \A v \in Writers \ {w} : tx'[v] = tx[v]
    BY <2>1 DEF Types, TxRec
  <2> QED BY <1>0, <2>1, <2>2 DEF Types, Open, OneOpen, CopiesAreFresh, CommittedAreDone, NoMutationLost
<1>4. ASSUME NEW w \in Writers, Update(w) PROVE StoreInv'
  <2>1. tx[w].pc = "loaded" /\ UNCHANGED <<row, committed>>
        /\ tx' = [tx EXCEPT ![w] = [@ EXCEPT !.pc = "updated", !.copy = Apply(tx[w].op, w, tx[w].copy)]]
    BY <1>4 DEF Update
  <2>2. tx'[w].pc = "updated" /\ tx'[w].op = tx[w].op
        /\ tx'[w].copy = Apply(tx[w].op, w, tx[w].copy)
        /\ \A v \in Writers \ {w} : tx'[v] = tx[v]
    BY <2>1 DEF Types, TxRec
  <2>3. tx[w].copy = row
    <3>1. tx[w].pc = "loaded"
      BY <2>1
    <3> QED BY <3>1, Zenon DEF CopiesAreFresh
  <2>4. CopiesAreFresh'
    BY <2>1, <2>2, <2>3 DEF CopiesAreFresh
  <2> QED BY <1>0, <2>1, <2>2, <2>4 DEF Types, Open, OneOpen, CommittedAreDone, NoMutationLost
<1>5. ASSUME NEW w \in Writers, Commit(w) PROVE StoreInv'
  <2>1. tx[w].pc = "updated" /\ row' = tx[w].copy
        /\ tx' = [tx EXCEPT ![w] = [@ EXCEPT !.pc = "done"]]
        /\ committed' = IF tx[w].op.kind \in Mutations THEN committed \cup {w} ELSE committed
    BY <1>5 DEF Commit
  <2>2. Open(w) /\ tx'[w].pc = "done" /\ \A v \in Writers \ {w} : tx'[v] = tx[v]
    BY <2>1 DEF Types, TxRec, Open
  <2>3. \A v \in Writers : ~Open(v)'
    BY <2>2 DEF Open, OneOpen
  <2>4. OneOpen' /\ CopiesAreFresh'
    BY <2>3 DEF OneOpen, CopiesAreFresh, Open
  <2>5. row'.generation =
           IF tx[w].op.kind \in Mutations THEN row.generation + 1 ELSE row.generation
    <3>1. row' = Apply(tx[w].op, w, row)
      BY <2>1, Zenon DEF CopiesAreFresh
    <3>2. row \in Rec /\ LockInRange(row) /\ tx[w].op \in [kind : Operations, gen : Nat]
      BY <2>2 DEF Types
    <3> QED BY <3>1, <3>2, ApplyFacts
  <2>6. w \notin committed
    BY <2>1 DEF CommittedAreDone
  <2>7. /\ IsFiniteSet(committed \cup {w})
        /\ Cardinality(committed \cup {w}) = Cardinality(committed) + 1
        /\ Cardinality(committed) \in Nat
    BY <2>6, FS_AddElement, FS_CardinalityType DEF CommittedAreDone
  <2>8. NoMutationLost'
    BY <2>1, <2>5, <2>7 DEF NoMutationLost
  <2>9. CommittedAreDone'
    BY <2>1, <2>2, <2>7 DEF CommittedAreDone, Types
  <2> QED BY <1>0, <2>4, <2>8, <2>9
<1>6. ASSUME NEW w \in Writers, Rollback(w) PROVE StoreInv'
  <2>1. Open(w) /\ UNCHANGED <<row, committed>> /\ tx' = [tx EXCEPT ![w] = [@ EXCEPT !.pc = "done"]]
    BY <1>6 DEF Rollback
  <2>2. tx'[w].pc = "done" /\ \A v \in Writers \ {w} : tx'[v] = tx[v]
    BY <2>1 DEF Types, TxRec
  <2> QED BY <1>0, <2>1, <2>2 DEF Types, Open, OneOpen, CopiesAreFresh, CommittedAreDone, NoMutationLost
<1> QED BY <1>1, <1>2, <1>3, <1>4, <1>5, <1>6 DEF Next

\* On sqlite every delete and every resume that committed has a generation of
\* its own, for any number of concurrent writers: none is written over.
THEOREM SqliteLosesNoMutation ==
    ASSUME Backend = "sqlite" PROVE Spec => []NoMutationLost
<1>1. StoreInv /\ [Next]_vars => StoreInv'
  BY StoreStep
<1>2. StoreInv => NoMutationLost
  BY DEF StoreInv
<1> QED BY <1>1, <1>2, StoreInit, PTL DEF Spec

\* On sqlite a commit changes the row as if Get, the mutation, Update and
\* Commit had run in that one instant: the grain of Orchestration.tla.
THEOREM SqliteCommitsAreAtomic ==
    ASSUME Backend = "sqlite" PROVE Spec => CommitsAreAtomicSteps
<1> DEFINE Atomic == \A w \in Writers :
                        tx[w].pc = "updated" /\ tx'[w].pc = "done" /\ row' # row
                           => row' = Apply(tx[w].op, w, row)
<1>1. StoreInv /\ [Next]_vars => StoreInv'
  BY StoreStep
<1>2. StoreInv /\ [Next]_vars => [Atomic]_vars
  <2> SUFFICES ASSUME StoreInv, Next, NEW w \in Writers,
                      tx[w].pc = "updated", tx'[w].pc = "done", row' # row
               PROVE  row' = Apply(tx[w].op, w, row)
    BY DEF vars
  <2>1. PICK v \in Writers : Commit(v)
    BY DEF Next, Begin, Get, Update, Rollback
  <2>2. tx[v].pc = "updated" /\ row' = tx[v].copy
    BY <2>1 DEF Commit
  <2>3. v = w
    BY <2>2 DEF StoreInv, OneOpen, Open
  <2> QED BY <2>2, <2>3 DEF StoreInv, CopiesAreFresh
<1> QED BY <1>1, <1>2, StoreInit, PTL DEF Spec, CommitsAreAtomicSteps

-----------------------------------------------------------------------------
(* The in-memory engine, for any number of callers and senders, any        *)
(* channel capacity and any number of runs                                 *)

RunPC  == {None, "active", "cleanup", "deliver", "unlock"}
Finish == {"cleanup", "deliver", "unlock"}

\* The running set names the instance exactly while its goroutine is active,
\* and guard.mu is held exactly while that goroutine finishes.
GuardFollowsRun ==
    /\ running <=> run.pc = "active"
    /\ guardMu = "finish" <=> run.pc \in Finish

\* The results are one short of the runs until finish puts the last one there.
ResultsFollowRun ==
    /\ run.pc \in {None, "unlock"} => delivered = started
    /\ run.pc \in {"active", "cleanup", "deliver"} => delivered + 1 = started

FinishInv == EngineTypeOK /\ GuardFollowsRun /\ ResultsFollowRun

-----------------------------------------------------------------------------
(* Its channels                                                            *)

\* getInstance hands out a channel that exists, and takes none away.
LEMMA GetInstanceFacts ==
    ASSUME queues \in Seq(Seq(Senders)), entry \in Channels, GetInstance
    PROVE  /\ queues' \in Seq(Seq(Senders)) /\ entry' \in Channels'
           /\ Channels \subseteq Channels'
<1>1. CASE entry # NoChannel
  BY <1>1 DEF GetInstance, Channels
<1>2. CASE entry = NoChannel
  <2>1. queues' = Append(queues, <<>>) /\ entry' = Len(queues) + 1
    BY <1>2 DEF GetInstance
  <2>2. <<>> \in Seq(Senders)
    OBVIOUS
  <2>3. queues' \in Seq(Seq(Senders)) /\ Len(queues') = Len(queues) + 1 /\ Len(queues) \in Nat
    BY <2>1, <2>2
  <2> QED BY <2>1, <2>3 DEF Channels
<1> QED BY <1>1, <1>2

\* A send and a receive change what one channel holds, not the channels.
LEMMA ChannelFacts ==
    ASSUME queues \in Seq(Seq(Senders)), NEW c, NEW q \in Seq(Senders),
           queues' = [queues EXCEPT ![c] = q]
    PROVE  queues' \in Seq(Seq(Senders)) /\ Channels' = Channels
<1>1. queues \in [1 .. Len(queues) -> Seq(Senders)] /\ Len(queues) \in Nat
  OBVIOUS
<1>2. queues' \in [1 .. Len(queues) -> Seq(Senders)]
  BY <1>1
<1>3. queues' \in Seq(Seq(Senders)) /\ Len(queues') = Len(queues)
  BY <1>1, <1>2
<1> QED BY <1>3 DEF Channels

-----------------------------------------------------------------------------
(* The invariant of the finish                                             *)

LEMMA FinishInit == EngineInit => FinishInv
<1> SUFFICES ASSUME EngineInit PROVE FinishInv
  OBVIOUS
<1>1. queues \in Seq(Seq(Senders)) /\ 0 \in Channels
  BY DEF EngineInit, Channels
<1>2. /\ run \in [pc : RunPC, ch : Channels] /\ run.pc = "none"
      /\ starter \in [Starters -> [pc : {"idle", "guard"}, ch : Channels]]
      /\ sender \in [Senders -> [pc : {"idle", "send", "sent"}, ch : Channels]]
      /\ entry \in Channels
  BY <1>1 DEF EngineInit, RunPC, NoChannel, None
<1>3. started = 0 /\ delivered = 0 /\ started \in 0 .. MaxStarts /\ delivered \in 0 .. started
  BY EngineAssumption DEF EngineInit
<1>4. running = FALSE /\ guardMu = "none"
  BY DEF EngineInit, None
<1>5. EngineTypeOK
  <2>1. running \in BOOLEAN /\ guardMu \in {None, "finish"}
    BY <1>4 DEF None
  <2> QED BY <1>1, <1>2, <1>3, <2>1, Zenon DEF EngineTypeOK, RunPC
<1>6. GuardFollowsRun
  BY <1>2, <1>4 DEF GuardFollowsRun, Finish
<1>7. ResultsFollowRun
  BY <1>2, <1>3 DEF ResultsFollowRun
<1> QED BY <1>5, <1>6, <1>7 DEF FinishInv

\* Every step of a caller, a sender or the run keeps the invariant.
LEMMA FinishStep == FinishInv /\ [EngineNext]_engineVars => FinishInv'
<1> SUFFICES ASSUME FinishInv, [EngineNext]_engineVars PROVE FinishInv'
  OBVIOUS
<1> USE DEF FinishInv, EngineTypeOK, Finish, None
<1>0. MaxStarts \in Nat
  BY EngineAssumption
<1>1. CASE UNCHANGED engineVars
  BY <1>1 DEF engineVars, Channels, GuardFollowsRun, ResultsFollowRun
<1>2. ASSUME NEW s \in Starters, StartGetsInstance(s) PROVE FinishInv'
  <2>1. GetInstance /\ starter' = [starter EXCEPT ![s] = [pc |-> "guard", ch |-> entry']]
        /\ UNCHANGED <<guardMu, running, run, sender, started, delivered>>
    BY <1>2 DEF StartGetsInstance
  <2>2. /\ queues' \in Seq(Seq(Senders)) /\ entry' \in Channels'
        /\ Channels \subseteq Channels'
    BY <2>1, GetInstanceFacts
  <2> HIDE DEF Channels
  <2>3. starter' \in [Starters -> [pc : {"idle", "guard"}, ch : Channels']]
    BY <2>1, <2>2
  <2> QED BY <2>1, <2>2, <2>3 DEF GuardFollowsRun, ResultsFollowRun
<1>3. ASSUME NEW g \in Senders, SignalGetsInstance(g) PROVE FinishInv'
  <2>1. GetInstance /\ sender' = [sender EXCEPT ![g] = [pc |-> "send", ch |-> entry']]
        /\ UNCHANGED <<guardMu, running, run, starter, started, delivered>>
    BY <1>3 DEF SignalGetsInstance
  <2>2. /\ queues' \in Seq(Seq(Senders)) /\ entry' \in Channels'
        /\ Channels \subseteq Channels'
    BY <2>1, GetInstanceFacts
  <2>3. sender' \in [Senders -> [pc : {"idle", "send", "sent"}, ch : Channels']]
    BY <2>1, <2>2
  <2> QED BY <2>1, <2>2, <2>3 DEF GuardFollowsRun, ResultsFollowRun
<1>4. ASSUME NEW s \in Starters, StartWorkflow(s) PROVE FinishInv'
  <2>1. starter' = [starter EXCEPT ![s] = [@ EXCEPT !.pc = "idle"]]
        /\ UNCHANGED <<entry, queues, guardMu, sender, delivered>> /\ guardMu = "none"
    BY <1>4 DEF StartWorkflow
  <2>2. starter' \in [Starters -> [pc : {"idle", "guard"}, ch : Channels]] /\ Channels' = Channels
    BY <2>1 DEF Channels
  <2>3. CASE running /\ UNCHANGED <<running, run, started>>
    BY <2>1, <2>2, <2>3 DEF GuardFollowsRun, ResultsFollowRun
  <2>4. CASE ~running /\ started < MaxStarts /\ running' = TRUE
             /\ run' = [pc |-> "active", ch |-> starter[s].ch] /\ started' = started + 1
    <3>1. run.pc = "none"
      BY <2>1, <2>4 DEF GuardFollowsRun
    <3>2. run' \in [pc : RunPC, ch : Channels] /\ run'.pc = "active"
      BY <2>4 DEF RunPC
    <3>3. delivered + 1 = started' /\ started' \in 0 .. MaxStarts
      BY <1>0, <2>4, <3>1 DEF ResultsFollowRun
    <3> QED BY <2>1, <2>2, <2>4, <3>2, <3>3 DEF GuardFollowsRun, ResultsFollowRun, RunPC
  <2> QED BY <1>4, <2>3, <2>4 DEF StartWorkflow
<1>5. ASSUME NEW g \in Senders, SignalSends(g) PROVE FinishInv'
  <2> DEFINE c == sender[g].ch
             q == IF c \in DOMAIN queues THEN Append(queues[c], g) ELSE <<>>
  <2>1. queues' = [queues EXCEPT ![c] = q]
    BY <1>5 DEF SignalSends
  <2>2. q \in Seq(Senders)
    OBVIOUS
  <2>3. sender' = [sender EXCEPT ![g] = [@ EXCEPT !.pc = "sent"]]
        /\ UNCHANGED <<entry, guardMu, running, run, starter, started, delivered>>
    BY <1>5 DEF SignalSends
  <2> HIDE DEF q, c
  <2>4. queues' \in Seq(Seq(Senders)) /\ Channels' = Channels
    BY <2>1, <2>2, ChannelFacts
  <2>5. sender' \in [Senders -> [pc : {"idle", "send", "sent"}, ch : Channels]]
    BY <2>3
  <2> QED BY <2>3, <2>4, <2>5 DEF GuardFollowsRun, ResultsFollowRun
<1>6. CASE Await
  <2> DEFINE c == run.ch
             q == IF c \in DOMAIN queues THEN Tail(queues[c]) ELSE <<>>
  <2>1. queues' = [queues EXCEPT ![c] = q] /\ queues[c] # <<>>
    BY <1>6 DEF Await
  <2>2. q \in Seq(Senders)
    BY <2>1
  <2>3. UNCHANGED <<entry, guardMu, running, run, starter, sender, started, delivered>>
    BY <1>6 DEF Await
  <2> HIDE DEF q, c
  <2>4. queues' \in Seq(Seq(Senders)) /\ Channels' = Channels
    BY <2>1, <2>2, ChannelFacts
  <2> QED BY <2>3, <2>4 DEF GuardFollowsRun, ResultsFollowRun
<1>7. CASE FinishVacates \/ FinishRemovesInstance \/ FinishDelivers \/ FinishUnlocks
  <2>1. UNCHANGED <<queues, starter, sender, started>> /\ Channels' = Channels /\ 0 \in Channels
    BY <1>7 DEF FinishVacates, FinishRemovesInstance, FinishDelivers, FinishUnlocks, Channels
  <2>2. CASE FinishVacates
    BY <2>1, <2>2 DEF FinishVacates, GuardFollowsRun, ResultsFollowRun
  <2>3. CASE FinishRemovesInstance
    BY <2>1, <2>3 DEF FinishRemovesInstance, GuardFollowsRun, ResultsFollowRun, NoChannel
  <2>4. CASE FinishDelivers
    BY <2>1, <2>4 DEF FinishDelivers, GuardFollowsRun, ResultsFollowRun
  <2>5. CASE FinishUnlocks
    BY <2>1, <2>5 DEF FinishUnlocks, GuardFollowsRun, ResultsFollowRun, NoChannel
  <2> QED BY <1>7, <2>2, <2>3, <2>4, <2>5
<1> QED BY <1>1, <1>2, <1>3, <1>4, <1>5, <1>6, <1>7 DEF EngineNext

\* Whoever passes the engine's guard finds the results of all earlier runs
\* delivered: finish holds guard.mu from giving the slot up to the result.
THEOREM FinishIsAtomic == EngineSpec => []VacantSlotMeansResult
<1>1. FinishInv => VacantSlotMeansResult
  BY DEF FinishInv, EngineTypeOK, GuardFollowsRun, ResultsFollowRun,
         VacantSlotMeansResult, None, Finish
<1> QED BY <1>1, FinishInit, FinishStep, PTL DEF EngineSpec
=============================================================================
