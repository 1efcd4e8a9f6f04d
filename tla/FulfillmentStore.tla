-------------------------- MODULE FulfillmentStore --------------------------
(***************************************************************************)
(* Inside the write transactions that Orchestration.tla takes as single    *)
(* steps: Begin, Get of the fulfillment row, an Update that writes every   *)
(* column back, Commit or Rollback, on the two stores.                     *)
(*   sqlite:   Begin is BEGIN IMMEDIATE, one write transaction at a time;  *)
(*   postgres: Begin is BEGIN at READ COMMITTED: Get takes no lock, Update *)
(*             waits for the row lock, then overwrites what it finds.      *)
(***************************************************************************)
EXTENDS Fulfillment, FiniteSets

CONSTANTS Writers,   \* the transactions, one each
          Operations,\* what they may be: kinds below
          Backend    \* "sqlite" or "postgres"

ASSUME StoreAssumption ==
    /\ Backend \in {"sqlite", "postgres"}
    /\ Operations \subseteq {"delete", "resume", "persist", "acquire", "release"}

VARIABLES row,       \* the committed row
          tx,        \* each transaction: its place, its operation, its copy
          committed  \* history: the mutations (delete, resume) that committed

vars == <<row, tx, committed>>

Mutations == {"delete", "resume"}

\* The result "persist" stores: a pass that loaded the row as it was created.
Result == [pause |-> FALSE, state |-> "active", resolvedTargets |-> {}, auth |-> "creator"]

\* What the activity does to the aggregate between Get and Update.
Apply(op, w, f) ==
    CASE op.kind = "delete"  -> TransitionToDeleting(f, w)
      [] op.kind = "resume"  -> Resume(f, w)
      [] op.kind = "persist" -> CompleteReconciliation(ApplyReconciliationResult(f, Result), op.gen)
      [] op.kind = "acquire" -> AcquireOrchestrationLock(f)
      [] op.kind = "release" -> ReleaseOrchestrationLock(f)

NoOp == [kind |-> "none", gen |-> 0]
Ops  == [kind : Operations, gen : Nat] \cup {NoOp}
Auths == Writers \cup {"creator"}

TypeOK ==
    /\ row \in FulfillmentRecord(Auths, {})
    /\ row.lock \in 0 .. row.generation
    /\ tx \in [Writers -> [pc   : {"idle", "begun", "loaded", "updated", "done"},
                           op   : Ops,
                           copy : FulfillmentRecord(Auths, {})]]
    /\ committed \subseteq Writers

\* The row as a first pass left it: paused, so that a resume is possible.
Init ==
    /\ row = [NewFulfillment("creator") EXCEPT !.paused = TRUE, !.observed = 1]
    /\ tx = [w \in Writers |-> [pc |-> "idle", op |-> NoOp, copy |-> row]]
    /\ committed = {}

Open(w) == tx[w].pc \in {"begun", "loaded", "updated"}

\* A wrong version: a deferred transaction, which takes no write lock.
BeginDeferred(w, kind) ==
    /\ tx[w].pc = "idle"
    /\ \E g \in {row.generation, row.observed} :
          tx' = [tx EXCEPT ![w].pc = "begun", ![w].op = [kind |-> kind, gen |-> g]]
    /\ UNCHANGED <<row, committed>>

\* Store.Begin.
Begin(w, kind) ==
    /\ tx[w].pc = "idle"
    /\ Backend = "sqlite" => \A v \in Writers : ~Open(v)
    /\ \E g \in {row.generation, row.observed} :
          tx' = [tx EXCEPT ![w].pc = "begun", ![w].op = [kind |-> kind, gen |-> g]]
    /\ UNCHANGED <<row, committed>>

\* FulfillmentRepo.Get.
Get(w) ==
    /\ tx[w].pc = "begun"
    /\ tx' = [tx EXCEPT ![w].pc = "loaded", ![w].copy = row]
    /\ UNCHANGED <<row, committed>>

\* FulfillmentRepo.Update of the changed aggregate: every column, by id only.
\* The row lock of an update that is not committed yet makes it wait.
Update(w) ==
    /\ tx[w].pc = "loaded"
    /\ \A v \in Writers : tx[v].pc # "updated"
    /\ tx[w].op.kind = "resume" => CanResume(tx[w].copy)
    /\ tx' = [tx EXCEPT ![w].pc = "updated", ![w].copy = Apply(tx[w].op, w, @)]
    /\ UNCHANGED <<row, committed>>

\* Commit makes the copy the row.
Commit(w) ==
    /\ tx[w].pc = "updated"
    /\ row' = tx[w].copy
    /\ tx' = [tx EXCEPT ![w].pc = "done"]
    /\ committed' = IF tx[w].op.kind \in Mutations THEN committed \cup {w} ELSE committed

\* An error or a crash: the deferred Rollback.
Rollback(w) ==
    /\ Open(w)
    /\ tx' = [tx EXCEPT ![w].pc = "done"]
    /\ UNCHANGED <<row, committed>>

Next ==
    \E w \in Writers :
       \/ \E kind \in Operations : Begin(w, kind)
       \/ Get(w) \/ Update(w) \/ Commit(w) \/ Rollback(w)

Spec == Init /\ [][Next]_vars

-----------------------------------------------------------------------------
\* "bumps its generation inside a serialized write transaction": every delete
\* and every resume that committed has a generation of its own; none is
\* written over by a transaction that read the row before it.
NoMutationLost == row.generation = 1 + Cardinality(committed)

\* A commit changes the row as if the whole transaction had run in that
\* instant: this is the step Orchestration.tla takes.
CommitsAreAtomicSteps ==
    [][\A w \in Writers :
          tx[w].pc = "updated" /\ tx'[w].pc = "done" /\ row' # row
             => row' = Apply(tx[w].op, w, row)]_vars
=============================================================================
