----------------------------- MODULE HostProofs -----------------------------
(***************************************************************************)
(* The host of the indexers, proved for any number of callers, calls,      *)
(* unexpected exits and timeouts: the types, which rest on the fact that a *)
(* call and a restart make at most one indexer each, that a running        *)
(* indexer is the tracked one, and that a stopped one stays down.          *)
(***************************************************************************)
EXTENDS IndexHost, FiniteSetTheorems, TLAPS

EntryRec == [in : Inputs \cup {NoIndexer.in}, starting : BOOLEAN,
             ready : BOOLEAN, failed : BOOLEAN, cancelled : BOOLEAN,
             intentional : BOOLEAN, eligible : BOOLEAN, attempts : 0 .. MaxAttempts,
             run : {"none", "running", "closed"}, reaped : BOOLEAN]
ProcRec == [pc : Places, in : Inputs \cup {NoIndexer.in},
            e : Entries \cup {None}, replace : BOOLEAN, err : BOOLEAN]
CloserRec == [pc : {"idle", "wait", "end", "done"}, e : Entries \cup {None},
              hasDone : BOOLEAN, late : BOOLEAN]
UsedRec == [calls : 0 .. MaxCalls, crashes : 0 .. MaxCrashes,
            timeouts : 0 .. MaxTimeouts, entries : 0 .. MaxCalls + MaxCrashes]

-----------------------------------------------------------------------------
(* The invariant                                                           *)

Types ==
    /\ entry \in [Entries -> EntryRec]
    /\ tracked \in Entries \cup {None}
    /\ op \in Procs \cup {None}
    /\ proc \in [Procs -> ProcRec]
    /\ shuttingDown \in BOOLEAN /\ down \in BOOLEAN /\ quiet \in BOOLEAN
    /\ closer \in CloserRec
    /\ used \in UsedRec

\* Who may still make an indexer: a call of EnsureIndexer before it made one,
\* and an exit nobody asked for before its restart did.
MayStart(p) ==
    \/ proc[p].pc \in {"ensure", "join"}
    \/ proc[p].pc = "backoff" /\ ~down
    \/ proc[p].pc \in {"awaitStart", "awaitExit"} /\ proc[p].replace
    \/ proc[p].pc = "exit" /\ ~entry[p].intentional /\ ~down
Starters == {p \in Procs : MayStart(p)}
Budget ==
    /\ IsFiniteSet(Starters)
    /\ used.entries + Cardinality(Starters) <= used.calls + used.crashes

\* Entries beyond those made are untouched and nobody knows them.
Made == 1 .. used.entries
Fresh == /\ \A e \in Entries : e \in Made \/ entry[e] = NoIndexer
         /\ tracked \in Made \cup {None} /\ closer.e \in Made \cup {None}
         /\ \A p \in Procs : proc[p].e \in Made \cup {None}

\* A cancelled indexer was cancelled by a stop.
Marked == \A e \in Entries : entry[e].cancelled => entry[e].intentional

\* The goroutine of an indexer is inside the indexer exactly while it runs.
Goroutines ==
    /\ \A p \in Callers : proc[p].pc \notin {"exit", "backoff", "carry", "gone"}
    /\ \A e \in Entries : /\ entry[e].run = "none" => proc[e].pc = "gone"
                          /\ entry[e].run = "running" <=> proc[e].pc = "idle"
                          /\ proc[e].pc # "stop"

\* A start attempt has an entry of its own, which it has not published before
\* its last check.
OnTheWay(p) == proc[p].pc \in {"probe", "final"}
Starting ==
    /\ \A p \in Procs : OnTheWay(p) =>
           /\ proc[p].e \in Made
           /\ proc[p].pc = "probe" \/ proc[p].err => entry[proc[p].e].run = "none"
    /\ \A p, q \in Procs : OnTheWay(p) /\ OnTheWay(q) /\ proc[p].e = proc[q].e => p = q

Running == \A e \in Entries : entry[e].run = "running" => tracked = e /\ entry[e].ready

\* A stop that waits holds the per-target lock, so that no other indexer takes
\* the place of the one it waits for.
Awaits(p) == proc[p].pc \in {"awaitStart", "awaitExit"}
LockHeld == \A p \in Procs : Awaits(p) =>
               op = p /\ proc[p].e \in Made /\ tracked \in {None, proc[p].e}

\* StopAll holds no lock: that it shuts down has the same effect.
Closing ==
    /\ closer.pc \in {"wait", "end"} => shuttingDown
    /\ closer.pc = "wait" => /\ closer.e \in Made /\ tracked \in {None, closer.e}
                             /\ ~closer.hasDone => entry[closer.e].run # "running"
    /\ closer.pc = "end" /\ ~closer.late => tracked = None

\* After a stop nobody is on the way to start an indexer.
Quiet == quiet => tracked = None /\ \A p \in Procs : ~Ensuring(p)

Control == Fresh /\ Marked /\ Goroutines /\ Starting /\ Running /\ LockHeld /\ Closing

-----------------------------------------------------------------------------
(* Facts about the pieces                                                  *)

LEMMA TypesAreTypeOK == Types => TypeOK
BY DEF Types, TypeOK, EntryRec, ProcRec, CloserRec, UsedRec

LEMMA ConstantFacts ==
    /\ MaxCalls \in Nat /\ MaxCrashes \in Nat /\ MaxTimeouts \in Nat /\ MaxAttempts \in Nat
    /\ Entries \subseteq Nat /\ None \notin Procs /\ None \notin Entries
    /\ Callers \cap Entries = {} /\ Callers \subseteq Procs /\ Entries \subseteq Procs
    /\ \A p \in Procs : p \in Callers \/ p \in Entries
BY HostAssumption DEF Entries, None, Procs

LEMMA UsedFacts ==
    ASSUME Types
    PROVE  /\ used.calls \in Nat /\ used.crashes \in Nat /\ used.entries \in Nat /\ used.timeouts \in Nat
           /\ used.calls <= MaxCalls /\ used.crashes <= MaxCrashes
           /\ used.entries <= MaxCalls + MaxCrashes
           /\ Made \subseteq Entries /\ None \notin Made
BY ConstantFacts DEF Types, UsedRec, Made, Entries, None

LEMMA RestingFacts ==
    ASSUME NEW p \in Procs
    PROVE  /\ Resting(p) \in ProcRec /\ Resting(p).e = None /\ Resting(p).replace = FALSE
           /\ Resting(p).err = FALSE
           /\ p \in Callers => Resting(p).pc = "idle"
           /\ p \notin Callers => Resting(p).pc = "gone"
BY DEF Resting, ProcRec, Places

LEMMA NoIndexerFacts ==
    NoIndexer \in EntryRec /\ NoIndexer.run = "none" /\ ~NoIndexer.cancelled
BY ConstantFacts DEF NoIndexer, EntryRec

\* The entry EnsureIndexer registers.
LEMMA NewIndexerFacts ==
    ASSUME NEW i \in Inputs \cup {NoIndexer.in}
    PROVE  LET new == [NoIndexer EXCEPT !.in = i, !.starting = TRUE]
           IN  /\ new \in EntryRec /\ new.run = "none"
               /\ new.intentional = FALSE /\ new.cancelled = FALSE
<1> DEFINE first == NoIndexer
           new == [first EXCEPT !.in = i, !.starting = TRUE]
<1>1. /\ first \in EntryRec /\ first.run = "none" /\ first.intentional = FALSE
      /\ first.cancelled = FALSE
  BY ConstantFacts DEF NoIndexer, EntryRec
<1> HIDE DEF first
<1>2. new.run = "none" /\ new.intentional = FALSE /\ new.cancelled = FALSE
  BY <1>1 DEF EntryRec
<1>3. new \in EntryRec
  BY <1>1 DEF EntryRec
<1> QED BY <1>2, <1>3 DEF first

\* Leaving, going on, and the end of EnsureIndexer.
LEMMA LeaveFacts ==
    ASSUME proc \in [Procs -> ProcRec], NEW p \in Procs, Leave(p)
    PROVE  /\ proc' \in [Procs -> ProcRec] /\ \A q \in Procs : q # p => proc'[q] = proc[q]
           /\ proc'[p] = Resting(p)
BY RestingFacts DEF Leave

LEMMA GoFacts ==
    ASSUME proc \in [Procs -> ProcRec], NEW p \in Procs, NEW place \in Places, Go(p, place)
    PROVE  /\ proc' \in [Procs -> ProcRec] /\ \A q \in Procs : q # p => proc'[q] = proc[q]
           /\ proc'[p].pc = place /\ proc'[p].e = proc[p].e /\ proc'[p].replace = proc[p].replace
           /\ proc'[p].err = proc[p].err
BY DEF Go, ProcRec

-----------------------------------------------------------------------------
(* Steps that neither launch nor end an indexer                            *)

\* What such a step may do to the entries.
EntriesKept ==
    \A e \in Entries :
       /\ entry'[e].run = entry[e].run
       /\ entry[e].run = "running" => entry'[e].ready = entry[e].ready
       /\ entry[e].intentional => entry'[e].intentional
       /\ entry'[e].cancelled => entry'[e].intentional
       /\ e \in Made \/ entry'[e] = entry[e]

\* A step of the goroutine p: where it goes, its lock, its entry, and what is
\* tracked afterwards.
Moves(p) ==
    /\ \A q \in Procs : q # p => proc'[q] = proc[q]
    /\ proc'[p].e \in Made \cup {None}
    /\ p \in Callers => proc'[p].pc \notin {"exit", "backoff", "carry", "gone"}
    /\ p \in Entries => proc[p].pc \notin {"idle", "gone"} /\ proc'[p].pc \notin {"idle", "stop"}
    /\ OnTheWay(p)' => /\ OnTheWay(p) /\ proc'[p].e = proc[p].e
                       /\ proc'[p].pc = "probe" \/ proc'[p].err =>
                             proc[p].pc = "probe" \/ proc[p].err
    /\ EntriesKept
    /\ tracked' = tracked \/ (tracked' = None /\ \A e \in Entries : entry[e].run # "running")
    /\ \/ op' = op /\ ~Awaits(p)'
       \/ Awaits(p) /\ ~Awaits(p)'
       \/ /\ (op = None \/ Awaits(p)) /\ op' = p /\ proc'[p].e = tracked /\ tracked \in Made
          /\ tracked' = tracked
    /\ UNCHANGED <<closer, shuttingDown, down>>
    /\ used'.entries = used.entries

LEMMA ControlKept ==
    ASSUME Types, Control, NEW p \in Procs, Moves(p)
    PROVE  Control'
<1>0. Fresh /\ Marked /\ Goroutines /\ Starting /\ Running /\ LockHeld /\ Closing
  BY DEF Control
<1>m. Made' = Made
  BY DEF Made, Moves
<1>k. \A e \in Entries :
        /\ entry'[e].run = entry[e].run
        /\ entry[e].run = "running" => entry'[e].ready = entry[e].ready
        /\ entry'[e].cancelled => entry'[e].intentional
        /\ e \in Made \/ entry'[e] = entry[e]
  BY DEF EntriesKept, Moves
<1>t. tracked' \in {tracked, None}
  BY DEF Moves
<1> USE DEF Moves
<1>1. Fresh'
  BY <1>0, <1>k, <1>m, <1>t DEF Fresh
<1>2. Marked'
  BY <1>k DEF Marked
<1>3. Goroutines'
  <2>1. \A q \in Callers : proc'[q].pc \notin {"exit", "backoff", "carry", "gone"}
    BY <1>0, ConstantFacts DEF Goroutines
  <2>2. ASSUME NEW e \in Entries
        PROVE  /\ entry'[e].run = "none" => proc'[e].pc = "gone"
               /\ entry'[e].run = "running" <=> proc'[e].pc = "idle"
               /\ proc'[e].pc # "stop"
    <3>1. CASE e = p
      BY <1>0, <1>k, <3>1 DEF Goroutines
    <3>2. CASE e # p
      BY <1>0, <1>k, <3>2, ConstantFacts DEF Goroutines
    <3> QED BY <3>1, <3>2
  <2> QED BY <2>1, <2>2 DEF Goroutines
<1>4. Starting'
  <2>1. \A q \in Procs : OnTheWay(q)' => OnTheWay(q) /\ proc'[q].e = proc[q].e
    BY DEF OnTheWay
  <2>2. ASSUME NEW q \in Procs, OnTheWay(q)'
        PROVE  /\ proc'[q].e \in Made'
               /\ proc'[q].pc = "probe" \/ proc'[q].err => entry'[proc'[q].e].run = "none"
    <3>1. proc[q].e \in Made /\ proc[q].e \in Entries /\ proc'[q].e = proc[q].e
      BY <1>0, <2>1, <2>2, UsedFacts DEF Starting
    <3>2. proc'[q].pc = "probe" \/ proc'[q].err => proc[q].pc = "probe" \/ proc[q].err
      BY <2>2
    <3>3. proc'[q].pc = "probe" \/ proc'[q].err => entry[proc[q].e].run = "none"
      BY <1>0, <2>1, <2>2, <3>2 DEF Starting
    <3> QED BY <1>k, <1>m, <3>1, <3>3
  <2>3. ASSUME NEW q1 \in Procs, NEW q2 \in Procs, OnTheWay(q1)', OnTheWay(q2)',
               proc'[q1].e = proc'[q2].e
        PROVE  q1 = q2
    BY <1>0, <2>1, <2>3 DEF Starting
  <2> QED BY <2>2, <2>3 DEF Starting, OnTheWay
<1>5. Running'
  BY <1>0, <1>k DEF Running
<1>6. LockHeld'
  <2> SUFFICES ASSUME NEW q \in Procs, Awaits(q)'
               PROVE  op' = q /\ proc'[q].e \in Made /\ tracked' \in {None, proc'[q].e}
    BY <1>m DEF LockHeld, Awaits
  <2>1. CASE q = p
    BY <2>1
  <2>2. CASE q # p
    <3>1. Awaits(q) /\ proc'[q].e = proc[q].e
      BY <2>2 DEF Awaits
    <3>2. op = q /\ proc[q].e \in Made /\ tracked \in {None, proc[q].e}
      BY <1>0, <3>1 DEF LockHeld
    <3>3. ~Awaits(p) /\ op # None
      BY <1>0, <2>2, <3>2, ConstantFacts DEF LockHeld
    <3> QED BY <1>t, <3>1, <3>2, <3>3
  <2> QED BY <2>1, <2>2
<1>7. Closing'
  <2>1. closer.pc = "wait" => closer.e \in Entries
    BY <1>0, UsedFacts DEF Closing
  <2> QED BY <1>0, <1>k, <1>m, <1>t, <2>1 DEF Closing
<1> QED BY <1>1, <1>2, <1>3, <1>4, <1>5, <1>6, <1>7 DEF Control

-----------------------------------------------------------------------------
(* The budget of indexers                                                  *)

LEMMA BudgetKept ==
    ASSUME Types, Budget, Starters' \subseteq Starters, used'.entries = used.entries,
           used'.calls = used.calls, used'.crashes = used.crashes
    PROVE  Budget'
<1>1. IsFiniteSet(Starters') /\ Cardinality(Starters') <= Cardinality(Starters)
      /\ Cardinality(Starters') \in Nat /\ Cardinality(Starters) \in Nat
  BY FS_Subset, FS_CardinalityType DEF Budget
<1> QED BY <1>1, UsedFacts DEF Budget

LEMMA BudgetGrows ==
    ASSUME Types, Budget, NEW p, Starters' \subseteq Starters \cup {p}, used'.entries = used.entries,
           used'.calls \in Nat, used'.crashes \in Nat,
           used'.calls + used'.crashes = used.calls + used.crashes + 1
    PROVE  Budget'
<1>0. IsFiniteSet(Starters) /\ Cardinality(Starters) \in Nat
  BY FS_CardinalityType DEF Budget
<1>1. IsFiniteSet(Starters \cup {p}) /\ Cardinality(Starters \cup {p}) <= Cardinality(Starters) + 1
      /\ Cardinality(Starters) \in Nat
  <2>1. IsFiniteSet(Starters \cup {p})
        /\ (Cardinality(Starters \cup {p}) = Cardinality(Starters)
              \/ Cardinality(Starters \cup {p}) = Cardinality(Starters) + 1)
    BY <1>0, FS_AddElement
  <2> QED BY <1>0, <2>1
<1>2. IsFiniteSet(Starters') /\ Cardinality(Starters') <= Cardinality(Starters \cup {p})
      /\ Cardinality(Starters') \in Nat /\ Cardinality(Starters \cup {p}) \in Nat
  BY <1>1, FS_Subset, FS_CardinalityType
<1> QED BY <1>1, <1>2, UsedFacts DEF Budget

\* There is room for the entry of who may start, and it takes it up.
LEMMA BudgetSpent ==
    ASSUME Types, Budget, NEW p \in Starters
    PROVE  /\ used.entries + 1 \in 0 .. MaxCalls + MaxCrashes /\ used.entries + 1 \in Entries
           /\ Starters' \subseteq Starters \ {p} /\ used'.entries = used.entries + 1
              /\ used'.calls = used.calls /\ used'.crashes = used.crashes => Budget'
<1>1. IsFiniteSet(Starters \ {p}) /\ Cardinality(Starters \ {p}) = Cardinality(Starters) - 1
      /\ Cardinality(Starters) \in Nat /\ Cardinality(Starters \ {p}) \in Nat
  BY FS_RemoveElement, FS_CardinalityType DEF Budget
<1>2. used.entries + 1 <= used.calls + used.crashes
  BY <1>1, UsedFacts DEF Budget
<1>3. used.entries + 1 \in 0 .. MaxCalls + MaxCrashes /\ used.entries + 1 \in Entries
  BY <1>2, UsedFacts, ConstantFacts DEF Entries
<1>4. ASSUME Starters' \subseteq Starters \ {p}, used'.entries = used.entries + 1,
             used'.calls = used.calls, used'.crashes = used.crashes
      PROVE  Budget'
  <2>1. IsFiniteSet(Starters') /\ Cardinality(Starters') <= Cardinality(Starters \ {p})
        /\ Cardinality(Starters') \in Nat
    BY <1>1, <1>4, FS_Subset, FS_CardinalityType
  <2> QED BY <1>1, <1>4, <2>1, UsedFacts DEF Budget
<1> QED BY <1>3, <1>4

\* Only the goroutine that moves can come to start, and only by its own move.
LEMMA StartersKept ==
    ASSUME Types, Goroutines, NEW P \in SUBSET Procs,
           \A q \in Procs : q \notin P => proc'[q] = proc[q],
           \A e \in Entries : entry[e].intentional => entry'[e].intentional,
           down => down'
    PROVE  Starters' \subseteq Starters \cup P
<1> SUFFICES ASSUME NEW q \in Procs, q \notin P, MayStart(q)' PROVE MayStart(q)
  BY DEF Starters
<1>1. proc'[q] = proc[q]
  OBVIOUS
<1>2. proc[q].pc = "exit" => q \in Entries
  BY ConstantFacts DEF Goroutines
<1>3. ASSUME proc[q].pc = "exit", ~entry'[q].intentional PROVE ~entry[q].intentional
  BY <1>2, <1>3
<1> QED BY <1>1, <1>3 DEF MayStart

\* All of it for a step of the goroutine p.
HostInv == Types /\ Control /\ Budget /\ Quiet

LEMMA StepKeeps ==
    ASSUME HostInv, NEW p \in Procs, Types', Moves(p),
           used'.calls = used.calls, used'.crashes = used.crashes,
           MayStart(p)' => MayStart(p),
           quiet' => /\ tracked' = None /\ ~Ensuring(p)'
                     /\ \A q \in Procs : q # p => ~Ensuring(q)
    PROVE  HostInv'
<1>0. Types /\ Control /\ Budget /\ Quiet
  BY DEF HostInv
<1>1. Control'
  BY <1>0, ControlKept
<1>2. Budget'
  <2>1. Starters' \subseteq Starters \cup {p}
    <3>1. \A e \in Entries : entry[e].intentional => entry'[e].intentional
      BY DEF EntriesKept, Moves
    <3>2. Goroutines /\ (down => down') /\ \A q \in Procs : q \notin {p} => proc'[q] = proc[q]
      BY <1>0 DEF Control, Moves
    <3> QED BY <1>0, <3>1, <3>2, StartersKept
  <2>2. p \in Starters' => p \in Starters
    BY DEF Starters
  <2>3. Starters' \subseteq Starters
    BY <2>1, <2>2
  <2> QED BY <1>0, <2>3, BudgetKept DEF Moves
<1>3. Quiet'
  <2> SUFFICES ASSUME quiet' PROVE tracked' = None /\ \A q \in Procs : ~Ensuring(q)'
    BY DEF Quiet, Ensuring
  <2>1. ASSUME NEW q \in Procs PROVE ~Ensuring(q)'
    BY <2>1 DEF Ensuring, Moves
  <2> QED BY <2>1
<1> QED BY <1>1, <1>2, <1>3 DEF HostInv

-----------------------------------------------------------------------------
(* The three ways a goroutine moves                                        *)

\* The host around it rests.
Calm == /\ UNCHANGED <<shuttingDown, down, closer>>
        /\ used' \in UsedRec /\ used'.entries = used.entries
        /\ used'.calls = used.calls /\ used'.crashes = used.crashes

LEMMA EntriesUnchanged == Types /\ Control /\ UNCHANGED entry => EntriesKept
BY DEF EntriesKept, Control, Marked

\* It returns ...
LEMMA Leaves ==
    ASSUME HostInv, NEW p \in Procs, Leave(p), proc[p].pc \notin {"idle", "gone"}, Calm,
           entry' \in [Entries -> EntryRec], EntriesKept,
           tracked' = tracked \/ (tracked' = None /\ \A e \in Entries : entry[e].run # "running"),
           op' = op \/ (Awaits(p) /\ op' = None),
           quiet' \in BOOLEAN, quiet' => quiet \/ (tracked' = None /\ Settled(p))
    PROVE  HostInv'
<1>0. Types /\ Control /\ Budget /\ Quiet
  BY DEF HostInv
<1>1. /\ proc' \in [Procs -> ProcRec] /\ \A q \in Procs : q # p => proc'[q] = proc[q]
      /\ proc'[p] = Resting(p)
  BY <1>0, LeaveFacts DEF Types
<1>2. /\ proc'[p].e = None /\ proc'[p].replace = FALSE /\ proc'[p].pc \in {"idle", "gone"}
      /\ p \in Callers => proc'[p].pc = "idle"
      /\ p \in Entries => proc'[p].pc = "gone"
  BY <1>1, RestingFacts, ConstantFacts
<1>3. Types'
  BY <1>0, <1>1 DEF Types, Calm
<1>4. ~OnTheWay(p)' /\ ~Awaits(p)' /\ ~MayStart(p)' /\ ~Ensuring(p)'
  BY <1>2 DEF OnTheWay, Awaits, MayStart, Ensuring
<1>5. Moves(p)
  BY <1>1, <1>2, <1>4 DEF Moves, Calm
<1>6. quiet' => /\ tracked' = None /\ ~Ensuring(p)'
                /\ \A q \in Procs : q # p => ~Ensuring(q)
  BY <1>0, <1>4 DEF Quiet, Settled
<1> QED BY <1>3, <1>4, <1>5, <1>6, StepKeeps DEF Calm

\* ... or goes on to another place without taking the lock ...
LEMMA Goes ==
    ASSUME HostInv, NEW p \in Procs, Calm,
           proc' \in [Procs -> ProcRec], \A q \in Procs : q # p => proc'[q] = proc[q],
           proc'[p].pc \in {"ensure", "join", "final", "backoff", "carry"},
           proc'[p].pc \in {"backoff", "carry"} => p \in Entries,
           proc'[p].e \in Made \cup {None},
           p \in Entries => proc[p].pc \notin {"idle", "gone"},
           proc'[p].pc = "final" => proc[p].pc = "probe" /\ proc'[p].e = proc[p].e,
           entry' \in [Entries -> EntryRec], EntriesKept,
           tracked' = tracked \/ (tracked' = None /\ \A e \in Entries : entry[e].run # "running"),
           op' = op \/ (Awaits(p) /\ op' = None),
           MayStart(p)' => MayStart(p), UNCHANGED quiet, Ensuring(p) \/ tracked # None \/ ~Ensuring(p)'
    PROVE  HostInv'
<1>0. Types /\ Control /\ Budget /\ Quiet
  BY DEF HostInv
<1>1. Types'
  BY <1>0 DEF Types, Calm
<1>2. ~Awaits(p)' /\ (OnTheWay(p)' => proc'[p].pc = "final" /\ proc[p].pc = "probe")
  BY DEF Awaits, OnTheWay
<1>3. Moves(p)
  <2>1. OnTheWay(p)' => /\ OnTheWay(p) /\ proc'[p].e = proc[p].e
                        /\ proc'[p].pc = "probe" \/ proc'[p].err =>
                              proc[p].pc = "probe" \/ proc[p].err
    BY <1>2 DEF OnTheWay
  <2>2. p \in Callers => proc'[p].pc \notin {"exit", "backoff", "carry", "gone"}
    BY ConstantFacts
  <2>3. p \in Entries => proc[p].pc \notin {"idle", "gone"} /\ proc'[p].pc \notin {"idle", "stop"}
    OBVIOUS
  <2>4. \/ op' = op /\ ~Awaits(p)'
        \/ Awaits(p) /\ ~Awaits(p)'
    BY <1>2
  <2>5. /\ UNCHANGED <<closer, shuttingDown, down>>
        /\ used'.entries = used.entries
    BY DEF Calm
  <2> QED BY <2>1, <2>2, <2>3, <2>4, <2>5 DEF Moves
<1>4. quiet' => /\ tracked' = None /\ ~Ensuring(p)'
                /\ \A q \in Procs : q # p => ~Ensuring(q)
  BY <1>0 DEF Quiet
<1> QED BY <1>1, <1>3, <1>4, StepKeeps DEF Calm

\* ... or waits with the lock for the entry it marked.
LEMMA Marks ==
    ASSUME HostInv, NEW p \in Procs, NEW rep \in BOOLEAN, MarkAndWait(p, rep), tracked # None,
           op = None \/ Awaits(p), Calm, UNCHANGED <<tracked, quiet>>,
           rep => MayStart(p), proc[p].pc \notin {"idle", "gone"}
    PROVE  HostInv'
<1>0. Types /\ Control /\ Budget /\ Quiet
  BY DEF HostInv
<1>t. /\ tracked \in Entries /\ tracked \in Made /\ entry \in [Entries -> EntryRec]
      /\ proc \in [Procs -> ProcRec] /\ entry[tracked] \in EntryRec /\ entry[tracked].ready \in BOOLEAN
  BY <1>0 DEF Types, Control, Fresh, EntryRec
<1>1. /\ op' = p
      /\ entry' = [entry EXCEPT ![tracked].intentional = TRUE, ![tracked].eligible = FALSE,
                                ![tracked].cancelled = entry[tracked].ready]
      /\ proc' = [proc EXCEPT ![p].pc = IF entry[tracked].ready THEN "awaitExit" ELSE "awaitStart",
                              ![p].e = tracked, ![p].replace = rep]
  BY DEF MarkAndWait
<1>2. /\ proc' \in [Procs -> ProcRec] /\ \A q \in Procs : q # p => proc'[q] = proc[q]
      /\ proc'[p].pc \in {"awaitStart", "awaitExit"} /\ proc'[p].e = tracked /\ proc'[p].replace = rep
  <2> DEFINE place == IF entry[tracked].ready THEN "awaitExit" ELSE "awaitStart"
  <2>1. place \in {"awaitStart", "awaitExit"} /\ place \in Places
    BY DEF Places
  <2>2. proc' = [proc EXCEPT ![p].pc = place, ![p].e = tracked, ![p].replace = rep]
    BY <1>1
  <2> HIDE DEF place
  <2> QED BY <1>t, <2>1, <2>2 DEF ProcRec
<1>3. /\ entry' \in [Entries -> EntryRec] /\ \A e \in Entries : e # tracked => entry'[e] = entry[e]
      /\ entry'[tracked].intentional = TRUE /\ entry'[tracked].run = entry[tracked].run
      /\ entry'[tracked].ready = entry[tracked].ready
  BY <1>t, <1>1 DEF EntryRec
<1>4. EntriesKept
  BY <1>0, <1>t, <1>3 DEF EntriesKept, Control, Marked
<1>5. Types'
  BY <1>0, <1>1, <1>2, <1>3 DEF Types, Calm
<1>6. Awaits(p)' /\ ~OnTheWay(p)' /\ (MayStart(p)' => MayStart(p))
  BY <1>2 DEF Awaits, OnTheWay, MayStart
<1>7. Moves(p)
  BY <1>1, <1>2, <1>4, <1>6, <1>t DEF Moves, Calm
<1>8. ~quiet
  BY <1>0 DEF Quiet
<1> QED BY <1>5, <1>6, <1>7, <1>8, StepKeeps DEF Calm

\* The end of EnsureIndexer, for a caller and for a restart.
LEMMA EnsureEnds ==
    ASSUME HostInv, NEW p \in Procs, NEW ok, EnsureReturns(p, ok), proc[p].pc \notin {"idle", "gone"},
           Calm, entry' \in [Entries -> EntryRec], EntriesKept,
           tracked' = tracked \/ (tracked' = None /\ \A e \in Entries : entry[e].run # "running"),
           UNCHANGED <<op, quiet>>
    PROVE  HostInv'
<1>0. Types /\ Control /\ quiet \in BOOLEAN /\ proc \in [Procs -> ProcRec]
  BY DEF HostInv, Types
<1>1. CASE Leave(p)
  BY <1>0, <1>1, Leaves
<1>2. CASE p \notin Callers /\ Go(p, "carry")
  <2>1. /\ proc' \in [Procs -> ProcRec] /\ \A q \in Procs : q # p => proc'[q] = proc[q]
        /\ proc'[p].pc = "carry" /\ proc'[p].e = proc[p].e
    BY <1>0, <1>2, GoFacts DEF Places
  <2>2. proc[p].e \in Made \cup {None} /\ p \in Entries
    BY <1>0, <1>2, ConstantFacts DEF Control, Fresh
  <2>3. ~MayStart(p)' /\ ~Ensuring(p)'
    BY <2>1 DEF MayStart, Ensuring
  <2> QED BY <2>1, <2>2, <2>3, Goes
<1> QED BY <1>1, <1>2 DEF EnsureReturns

-----------------------------------------------------------------------------
(* The actions of a goroutine                                              *)

LEMMA CalmFacts ==
    ASSUME Types, UNCHANGED <<shuttingDown, down, closer, used>>
    PROVE  Calm
BY DEF Calm, Types

\* StopIndexer and the waits of a stop.
LEMMA StopSteps ==
    ASSUME HostInv, NEW p \in Procs,
           StopIndexer(p) \/ StopSeesStartEnd(p) \/ StopSeesExit(p) \/ CallTimesOut(p)
    PROVE  HostInv'
<1>0. Types /\ Control /\ Budget /\ Quiet
  BY DEF HostInv
<1>t. /\ proc \in [Procs -> ProcRec] /\ proc[p] \in ProcRec /\ proc[p].replace \in BOOLEAN
      /\ entry \in [Entries -> EntryRec] /\ quiet \in BOOLEAN
  BY <1>0 DEF Types, ProcRec
<1>n. UNCHANGED entry => EntriesKept /\ entry' \in [Entries -> EntryRec]
  BY <1>0, <1>t, EntriesUnchanged
<1>g. ASSUME proc[p].replace, Awaits(p), Go(p, "ensure"), op' = None, UNCHANGED quiet, Calm, EntriesKept,
             entry' \in [Entries -> EntryRec],
             tracked' = tracked \/ (tracked' = None /\ \A e \in Entries : entry[e].run # "running")
      PROVE  HostInv'
  <2>1. /\ proc' \in [Procs -> ProcRec] /\ \A q \in Procs : q # p => proc'[q] = proc[q]
        /\ proc'[p].pc = "ensure" /\ proc'[p].e = proc[p].e
    BY <1>g, <1>t, GoFacts DEF Places
  <2>2. proc[p].e \in Made \cup {None} /\ proc[p].pc \notin {"idle", "gone"}
    BY <1>0, <1>g DEF Control, Fresh, Awaits
  <2>3. MayStart(p) /\ Ensuring(p)
    BY <1>g DEF MayStart, Ensuring, Awaits
  <2> QED BY <1>g, <2>1, <2>2, <2>3, Goes
<1>1. CASE StopIndexer(p)
  <2>1. proc[p].pc = "stop" /\ op = None /\ UNCHANGED <<tracked, shuttingDown, down, closer, used>>
    BY <1>1 DEF StopIndexer
  <2>2. Calm
    BY <1>0, <2>1, CalmFacts
  <2>3. CASE tracked = None /\ Leave(p) /\ quiet' = Settled(p) /\ UNCHANGED <<entry, op>>
    <3>1. quiet' \in BOOLEAN /\ (quiet' => Settled(p))
      BY <2>3, Zenon DEF Settled
    <3> QED BY <1>n, <2>1, <2>2, <2>3, <3>1, Leaves
  <2>4. CASE tracked # None /\ MarkAndWait(p, FALSE) /\ UNCHANGED quiet
    BY <2>1, <2>2, <2>4, Marks
  <2> QED BY <1>1, <2>3, <2>4 DEF StopIndexer
<1>2. CASE StopSeesStartEnd(p)
  <2>1. proc[p].pc = "awaitStart" /\ UNCHANGED <<shuttingDown, down, closer, used>>
    BY <1>2 DEF StopSeesStartEnd
  <2>2. Calm /\ Awaits(p) /\ proc[p].pc \notin {"idle", "gone"}
    BY <1>0, <2>1, CalmFacts DEF Awaits
  <2>3. CASE tracked # None /\ entry[tracked].ready
    <3>1. MarkAndWait(p, proc[p].replace) /\ UNCHANGED <<tracked, quiet>>
      BY <1>2, <2>3 DEF StopSeesStartEnd
    <3>2. proc[p].replace => MayStart(p)
      BY <2>1 DEF MayStart
    <3> QED BY <1>t, <2>2, <2>3, <3>1, <3>2, Marks
  <2>4. CASE ~(tracked # None /\ entry[tracked].ready)
    <3>1. StopReturns(p, TRUE) /\ tracked' = None /\ UNCHANGED entry
      BY <1>2, <2>4 DEF StopSeesStartEnd
    <3>2. \A e \in Entries : entry[e].run # "running"
      BY <1>0, <2>4, ConstantFacts DEF Control, Running
    <3>3. CASE proc[p].replace
      <4>1. Go(p, "ensure") /\ op' = None /\ UNCHANGED quiet
        BY <3>1, <3>3 DEF StopReturns
      <4> QED BY <1>g, <1>n, <2>2, <3>1, <3>2, <3>3, <4>1
    <3>4. CASE ~proc[p].replace
      <4>1. Leave(p) /\ op' = None /\ quiet' = Settled(p)
        BY <3>1, <3>4 DEF StopReturns
      <4>2. quiet' \in BOOLEAN /\ (quiet' => Settled(p))
        BY <4>1, Zenon DEF Settled
      <4> QED BY <1>n, <2>2, <3>1, <3>2, <4>1, <4>2, Leaves
    <3> QED BY <3>3, <3>4
  <2> QED BY <2>3, <2>4
<1>3. CASE StopSeesExit(p)
  <2>1. proc[p].pc = "awaitExit" /\ entry[proc[p].e].run = "closed" /\ Untrack(proc[p].e)
        /\ StopReturns(p, TRUE) /\ UNCHANGED <<entry, shuttingDown, down, closer, used>>
    BY <1>3 DEF StopSeesExit
  <2>2. Calm /\ Awaits(p) /\ proc[p].pc \notin {"idle", "gone"}
    BY <1>0, <2>1, CalmFacts DEF Awaits
  <2>3. tracked \in {None, proc[p].e} /\ proc[p].e \in Entries
    BY <1>0, <2>2, UsedFacts DEF Control, LockHeld
  <2>4. tracked' = None
    BY <2>1, <2>3 DEF Untrack
  <2>5. \A e \in Entries : entry[e].run # "running"
    BY <1>0, <2>1, <2>3, ConstantFacts DEF Control, Running
  <2>6. CASE proc[p].replace
    <3>1. Go(p, "ensure") /\ op' = None /\ UNCHANGED quiet
      BY <2>1, <2>6 DEF StopReturns
    <3> QED BY <1>g, <1>n, <2>1, <2>2, <2>4, <2>5, <2>6, <3>1
  <2>7. CASE ~proc[p].replace
    <3>1. Leave(p) /\ op' = None /\ quiet' = Settled(p)
      BY <2>1, <2>7 DEF StopReturns
    <3>2. quiet' \in BOOLEAN /\ (quiet' => Settled(p))
      BY <3>1, Zenon DEF Settled
    <3> QED BY <1>n, <2>1, <2>2, <2>4, <2>5, <3>1, <3>2, Leaves
  <2> QED BY <2>6, <2>7
<1>4. CASE CallTimesOut(p)
  <2>1. proc[p].pc \notin {"idle", "gone"} /\ UNCHANGED <<tracked, shuttingDown, down, closer>>
    BY <1>4 DEF CallTimesOut
  <2>2. Calm
    <3>1. CASE UNCHANGED used
      BY <1>0, <2>1, <3>1, CalmFacts
    <3>2. CASE used.timeouts < MaxTimeouts /\ used' = [used EXCEPT !.timeouts = @ + 1]
      <4>1. used.timeouts + 1 \in 0 .. MaxTimeouts /\ used \in UsedRec
        BY <1>0, <3>2, UsedFacts, ConstantFacts DEF Types
      <4> QED BY <2>1, <3>2, <4>1 DEF Calm, UsedRec
    <3> QED BY <1>4, <3>1, <3>2 DEF CallTimesOut
  <2>3. Leave(p) /\ UNCHANGED quiet /\ (op' = op \/ (Awaits(p) /\ op' = None))
    BY <1>4 DEF CallTimesOut, StopReturns, EnsureReturns, Awaits
  <2>4. EntriesKept /\ entry' \in [Entries -> EntryRec]
    <3>1. CASE UNCHANGED entry
      BY <1>n, <3>1
    <3>2. CASE proc[p].pc = "awaitExit" /\ entry' = [entry EXCEPT ![proc[p].e].reaped = TRUE]
      <4>1. proc[p].e \in Made /\ proc[p].e \in Entries
        BY <1>0, <3>2, UsedFacts DEF Control, LockHeld, Awaits
      <4>2. entry' \in [Entries -> EntryRec] /\ \A e \in Entries : e # proc[p].e => entry'[e] = entry[e]
        BY <1>t, <3>2, <4>1 DEF EntryRec
      <4>3. /\ entry'[proc[p].e].run = entry[proc[p].e].run
            /\ entry'[proc[p].e].ready = entry[proc[p].e].ready
            /\ entry'[proc[p].e].intentional = entry[proc[p].e].intentional
            /\ entry'[proc[p].e].cancelled = entry[proc[p].e].cancelled
        BY <1>t, <3>2, <4>1 DEF EntryRec
      <4> QED BY <1>0, <4>1, <4>2, <4>3 DEF EntriesKept, Control, Marked
    <3> QED BY <1>4, <3>1, <3>2 DEF CallTimesOut
  <2> QED BY <1>t, <2>1, <2>2, <2>3, <2>4, Leaves
<1> QED BY <1>1, <1>2, <1>3, <1>4

\* EnsureIndexer, but for the start of an indexer.
LEMMA EnsureSteps ==
    ASSUME HostInv, NEW p \in Procs,
           \/ EnsureRefused(p) \/ EnsureFindsReady(p) \/ EnsureJoins(p) \/ EnsureReplaces(p)
           \/ EnsureJoined(p) \/ ReadinessFails(p) \/ Finalize(p)
    PROVE  HostInv'
<1>0. Types /\ Control /\ Budget /\ Quiet
  BY DEF HostInv
<1>t. /\ proc \in [Procs -> ProcRec] /\ proc[p] \in ProcRec /\ entry \in [Entries -> EntryRec]
      /\ proc[p].err \in BOOLEAN /\ proc[p].e \in Made \cup {None}
  BY <1>0 DEF Types, ProcRec, Control, Fresh
<1>n. UNCHANGED entry => EntriesKept /\ entry' \in [Entries -> EntryRec]
  BY <1>0, <1>t, EntriesUnchanged
<1>c. UNCHANGED <<shuttingDown, down, closer, used>> => Calm
  BY <1>0, CalmFacts
<1>1. CASE EnsureRefused(p) \/ EnsureFindsReady(p) \/ EnsureJoined(p)
  <2>1. /\ proc[p].pc \in {"ensure", "join"} /\ \E ok : EnsureReturns(p, ok)
        /\ UNCHANGED <<entry, tracked, op, shuttingDown, down, closer, used, quiet>>
    BY <1>1 DEF EnsureRefused, EnsureFindsReady, EnsureJoined, Turn
  <2> QED BY <1>n, <1>c, <2>1, EnsureEnds
<1>2. CASE EnsureJoins(p)
  <2>1. /\ proc[p].pc = "ensure" /\ tracked # None
        /\ proc' = [proc EXCEPT ![p].pc = "join", ![p].e = tracked]
        /\ UNCHANGED <<entry, tracked, op, shuttingDown, down, closer, used, quiet>>
    BY <1>2 DEF EnsureJoins, Turn
  <2>2. tracked \in Made /\ tracked \in Entries
    BY <1>0, <2>1, UsedFacts DEF Control, Fresh
  <2>3. /\ proc' \in [Procs -> ProcRec] /\ \A q \in Procs : q # p => proc'[q] = proc[q]
        /\ proc'[p].pc = "join" /\ proc'[p].e = tracked
    BY <1>t, <2>1, <2>2 DEF ProcRec, Places
  <2>4. MayStart(p) /\ Ensuring(p)
    BY <2>1 DEF MayStart, Ensuring
  <2> QED BY <1>n, <1>c, <2>1, <2>2, <2>3, <2>4, Goes
<1>3. CASE EnsureReplaces(p)
  <2>1. /\ proc[p].pc = "ensure" /\ op = None /\ tracked # None /\ MarkAndWait(p, TRUE)
        /\ UNCHANGED <<tracked, shuttingDown, down, closer, used, quiet>>
    BY <1>3 DEF EnsureReplaces, Turn
  <2>2. MayStart(p)
    BY <2>1 DEF MayStart
  <2> QED BY <1>c, <2>1, <2>2, Marks
<1>4. CASE ReadinessFails(p)
  <2>1. /\ proc[p].pc = "probe" /\ proc' = [proc EXCEPT ![p].pc = "final", ![p].err = TRUE]
        /\ UNCHANGED <<entry, tracked, op, shuttingDown, down, closer, used, quiet>>
    BY <1>4 DEF ReadinessFails
  <2>2. /\ proc' \in [Procs -> ProcRec] /\ \A q \in Procs : q # p => proc'[q] = proc[q]
        /\ proc'[p].pc = "final" /\ proc'[p].e = proc[p].e
    BY <1>t, <2>1 DEF ProcRec, Places
  <2>3. ~MayStart(p)' /\ Ensuring(p)
    BY <2>1, <2>2 DEF MayStart, Ensuring
  <2> QED BY <1>n, <1>c, <1>t, <2>1, <2>2, <2>3, Goes
<1>5. CASE Finalize(p)
  <2> DEFINE e == proc[p].e
  <2>1. /\ proc[p].pc = "final"
        /\ entry' = [entry EXCEPT ![e].failed = proc[p].err, ![e].starting = FALSE]
        /\ EnsureReturns(p, ~proc[p].err)
        /\ (IF proc[p].err THEN Untrack(e) ELSE UNCHANGED tracked)
        /\ UNCHANGED <<op, shuttingDown, down, closer, used, quiet>>
    BY <1>5 DEF Finalize, FinalizeBody
  <2>2. e \in Made /\ e \in Entries /\ (proc[p].err => entry[e].run = "none")
    BY <1>0, <2>1, UsedFacts DEF Control, Starting, OnTheWay
  <2> HIDE DEF e
  <2>3. entry' \in [Entries -> EntryRec] /\ \A x \in Entries : x # e => entry'[x] = entry[x]
    <3> DEFINE b == proc[p].err
    <3>1. entry' = [entry EXCEPT ![e].failed = b, ![e].starting = FALSE] /\ b \in BOOLEAN
      BY <1>t, <2>1
    <3> HIDE DEF b
    <3> DEFINE r == [entry[e] EXCEPT !.failed = b, !.starting = FALSE]
    <3>2. r \in EntryRec
      BY <1>t, <2>2, <3>1 DEF EntryRec
    <3>3. entry' = [entry EXCEPT ![e] = r]
      BY <1>t, <2>2, <3>1
    <3> HIDE DEF r
    <3> QED BY <1>t, <2>2, <3>2, <3>3
  <2>4. /\ entry'[e].run = entry[e].run /\ entry'[e].ready = entry[e].ready
        /\ entry'[e].intentional = entry[e].intentional /\ entry'[e].cancelled = entry[e].cancelled
    BY <1>t, <2>1, <2>2 DEF EntryRec
  <2>5. EntriesKept
    BY <1>0, <2>2, <2>3, <2>4 DEF EntriesKept, Control, Marked
  <2>6. tracked' = tracked \/ (tracked' = None /\ \A x \in Entries : entry[x].run # "running")
    <3>1. tracked' = tracked \/ (proc[p].err /\ tracked = e /\ tracked' = None)
      BY <2>1 DEF Untrack
    <3> QED BY <1>0, <2>2, <3>1 DEF Control, Running
  <2> QED BY <1>c, <2>1, <2>3, <2>5, <2>6, EnsureEnds
<1> QED BY <1>1, <1>2, <1>3, <1>4, <1>5

\* The exit of an indexer and its restart.
LEMMA ExitSteps ==
    ASSUME HostInv, NEW p \in Procs,
           OnIndexerExit(p) \/ RestartAfterBackoff(p) \/ CarryAttempts(p)
    PROVE  HostInv'
<1>0. Types /\ Control /\ Budget /\ Quiet
  BY DEF HostInv
<1>e. p \in Entries
  BY DEF OnIndexerExit, RestartAfterBackoff, CarryAttempts
<1>t. /\ proc \in [Procs -> ProcRec] /\ proc[p] \in ProcRec /\ entry \in [Entries -> EntryRec]
      /\ proc[p].e \in Made \cup {None} /\ entry[p] \in EntryRec /\ quiet \in BOOLEAN
      /\ entry[p].attempts \in 0 .. MaxAttempts /\ entry[p].in \in Inputs \cup {NoIndexer.in}
  BY <1>0, <1>e DEF Types, Control, Fresh, EntryRec
<1>n. UNCHANGED entry => EntriesKept /\ entry' \in [Entries -> EntryRec]
  BY <1>0, <1>t, EntriesUnchanged
<1>c. UNCHANGED <<shuttingDown, down, closer, used>> => Calm
  BY <1>0, CalmFacts
<1>1. CASE OnIndexerExit(p)
  <2>1. proc[p].pc = "exit" /\ Untrack(p) /\ UNCHANGED <<op, shuttingDown, down, closer, used, quiet>>
    BY <1>1 DEF OnIndexerExit
  <2>2. entry[p].run = "closed"
    BY <1>0, <1>e, <1>t, <2>1 DEF Control, Goroutines, EntryRec
  <2>3. tracked' = tracked \/ (tracked' = None /\ \A x \in Entries : entry[x].run # "running")
    BY <1>0, <2>1, <2>2 DEF Untrack, Control, Running
  <2>4. CASE Leave(p) /\ UNCHANGED entry
    BY <1>n, <1>c, <1>t, <2>1, <2>3, <2>4, Leaves
  <2>5. CASE /\ tracked = p /\ ~entry[p].intentional /\ entry[p].attempts + 1 <= MaxAttempts
             /\ entry' = [entry EXCEPT ![p].ready = FALSE, ![p].attempts = entry[p].attempts + 1]
             /\ Go(p, "backoff")
    <3>1. /\ proc' \in [Procs -> ProcRec] /\ \A q \in Procs : q # p => proc'[q] = proc[q]
          /\ proc'[p].pc = "backoff" /\ proc'[p].e = proc[p].e
      BY <1>t, <2>5, GoFacts DEF Places
    <3>2. entry[p].attempts + 1 \in 0 .. MaxAttempts
      BY <1>t, <2>5, ConstantFacts
    <3>3. entry' \in [Entries -> EntryRec] /\ \A x \in Entries : x # p => entry'[x] = entry[x]
      BY <1>e, <1>t, <2>5, <3>2 DEF EntryRec
    <3>4. /\ entry'[p].run = entry[p].run /\ entry'[p].intentional = entry[p].intentional
          /\ entry'[p].cancelled = entry[p].cancelled
      BY <1>e, <1>t, <2>5 DEF EntryRec
    <3>5. p \in Made
      BY <1>0, <1>e, <2>5, ConstantFacts DEF Control, Fresh
    <3>6. EntriesKept
      BY <1>0, <1>e, <2>2, <3>3, <3>4, <3>5 DEF EntriesKept, Control, Marked
    <3>7. MayStart(p)' => MayStart(p)
      BY <2>1, <2>5, <3>1 DEF MayStart
    <3>8. tracked # None
      BY <1>e, <2>5, ConstantFacts
    <3> QED BY <1>c, <1>e, <1>t, <2>1, <2>3, <3>1, <3>3, <3>6, <3>7, <3>8, Goes
  <2> QED BY <1>1, <2>4, <2>5 DEF OnIndexerExit
<1>2. CASE RestartAfterBackoff(p)
  <2>1. proc[p].pc = "backoff" /\ UNCHANGED <<entry, tracked, op, shuttingDown, down, closer, used, quiet>>
    BY <1>2 DEF RestartAfterBackoff
  <2>2. CASE Leave(p)
    BY <1>n, <1>c, <1>t, <2>1, <2>2, Leaves
  <2>3. CASE ~down /\ proc' = [proc EXCEPT ![p].pc = "ensure", ![p].in = entry[p].in]
    <3>1. /\ proc' \in [Procs -> ProcRec] /\ \A q \in Procs : q # p => proc'[q] = proc[q]
          /\ proc'[p].pc = "ensure" /\ proc'[p].e = proc[p].e
      BY <1>t, <2>3 DEF ProcRec, Places
    <3>2. MayStart(p) /\ Ensuring(p)
      BY <2>1, <2>3 DEF MayStart, Ensuring
    <3> QED BY <1>n, <1>c, <1>t, <2>1, <3>1, <3>2, Goes
  <2> QED BY <1>2, <2>2, <2>3 DEF RestartAfterBackoff
<1>3. CASE CarryAttempts(p)
  <2>1. /\ proc[p].pc = "carry" /\ Leave(p)
        /\ entry' = [x \in Entries |-> IF x = tracked
                        THEN [entry[x] EXCEPT !.attempts = entry[p].attempts] ELSE entry[x]]
        /\ UNCHANGED <<tracked, op, shuttingDown, down, closer, used, quiet>>
    BY <1>3 DEF CarryAttempts
  <2>2. entry' \in [Entries -> EntryRec]
    BY <1>t, <2>1 DEF EntryRec
  <2>3. \A x \in Entries : x # tracked => entry'[x] = entry[x]
    BY <2>1
  <2>4. tracked \in Entries => tracked \in Made
    BY <1>0, ConstantFacts DEF Control, Fresh
  <2>5. tracked \in Entries =>
           /\ entry'[tracked].run = entry[tracked].run /\ entry'[tracked].ready = entry[tracked].ready
           /\ entry'[tracked].intentional = entry[tracked].intentional
           /\ entry'[tracked].cancelled = entry[tracked].cancelled
    BY <1>t, <2>1 DEF EntryRec
  <2>6. EntriesKept
    BY <1>0, <2>3, <2>4, <2>5 DEF EntriesKept, Control, Marked
  <2> QED BY <1>c, <1>t, <2>1, <2>2, <2>6, Leaves
<1> QED BY <1>1, <1>2, <1>3

\* A call arrives.
LEMMA CallSteps ==
    ASSUME HostInv, NEW p \in Callers, CallStop(p) \/ \E in \in Inputs : CallEnsure(p, in)
    PROVE  HostInv'
<1>0. Types /\ Control /\ Budget /\ Quiet
  BY DEF HostInv
<1>1. PICK in \in Inputs \cup {NoIndexer.in}, place \in {"stop", "ensure"} :
        /\ proc[p].pc = "idle" /\ used.calls < MaxCalls /\ used' = [used EXCEPT !.calls = @ + 1]
        /\ proc' = [proc EXCEPT ![p].pc = place, ![p].in = in]
        /\ UNCHANGED <<entry, tracked, op, shuttingDown, down, closer>>
        /\ quiet' = FALSE \/ (quiet' = quiet /\ place = "stop")
  <2>1. CASE CallStop(p)
    <3>1. proc[p] \in ProcRec /\ proc[p].in \in Inputs \cup {NoIndexer.in}
      BY <1>0, ConstantFacts DEF Types, ProcRec
    <3>2. [proc EXCEPT ![p].pc = "stop"] = [proc EXCEPT ![p].pc = "stop", ![p].in = proc[p].in]
      BY <1>0, <3>1, ConstantFacts DEF Types, ProcRec
    <3> QED BY <2>1, <3>1, <3>2 DEF CallStop, Go
  <2>2. CASE \E in \in Inputs : CallEnsure(p, in)
    BY <2>2 DEF CallEnsure
  <2> QED BY <2>1, <2>2
<1>2. p \in Procs /\ p \notin Entries /\ proc \in [Procs -> ProcRec]
  BY <1>0, ConstantFacts DEF Types
<1>3. /\ proc' \in [Procs -> ProcRec] /\ \A q \in Procs : q # p => proc'[q] = proc[q]
      /\ proc'[p].pc = place /\ proc'[p].e = proc[p].e
  BY <1>1, <1>2 DEF ProcRec, Places
<1>4. used' \in UsedRec /\ used'.entries = used.entries /\ used'.crashes = used.crashes
      /\ used'.calls = used.calls + 1
  <2>1. used.calls + 1 \in 0 .. MaxCalls /\ used \in UsedRec
    BY <1>0, <1>1, UsedFacts, ConstantFacts DEF Types
  <2> QED BY <1>1, <2>1 DEF UsedRec
<1>5. Types'
  BY <1>0, <1>1, <1>3, <1>4 DEF Types
<1>6. Control'
  <2>1. ~OnTheWay(p)' /\ ~Awaits(p)' /\ EntriesKept /\ proc[p].e \in Made \cup {None}
    BY <1>0, <1>1, <1>2, <1>3, EntriesUnchanged DEF OnTheWay, Awaits, Control, Fresh
  <2>2. Moves(p)
    BY <1>1, <1>2, <1>3, <1>4, <2>1 DEF Moves
  <2> QED BY <1>0, <1>2, <2>2, ControlKept
<1>7. Budget'
  <2>1. Starters' \subseteq Starters \cup {p}
    <3>1. \A q \in Procs : q \notin {p} => proc'[q] = proc[q]
      BY <1>3
    <3> QED BY <1>0, <1>1, <1>2, <3>1, StartersKept DEF Control
  <2>2. used'.calls + used'.crashes = used.calls + used.crashes + 1
        /\ used'.calls \in Nat /\ used'.crashes \in Nat
    BY <1>0, <1>4, UsedFacts
  <2> QED BY <1>0, <1>4, <2>1, <2>2, BudgetGrows
<1>8. Quiet'
  <2> SUFFICES ASSUME quiet' PROVE tracked' = None /\ \A q \in Procs : ~Ensuring(q)'
    BY DEF Quiet, Ensuring
  <2>1. quiet /\ place = "stop"
    BY <1>1
  <2>2. ASSUME NEW q \in Procs PROVE ~Ensuring(q)'
    BY <1>0, <1>3, <2>1, <2>2 DEF Ensuring, Quiet
  <2> QED BY <1>0, <1>1, <2>1, <2>2 DEF Quiet
<1> QED BY <1>5, <1>6, <1>7, <1>8 DEF HostInv

\* A new indexer is registered.
LEMMA StartStep ==
    ASSUME HostInv, NEW p \in Procs, EnsureStarts(p)
    PROVE  HostInv'
<1> DEFINE e == used.entries + 1
           new == [NoIndexer EXCEPT !.in = proc[p].in, !.starting = TRUE]
<1>0. Types /\ Control /\ Budget /\ Quiet
  BY DEF HostInv
<1>1. /\ proc[p].pc = "ensure" /\ op = None /\ ~shuttingDown /\ tracked = None
      /\ used' = [used EXCEPT !.entries = e] /\ tracked' = e
      /\ entry' = [entry EXCEPT ![e] = new]
      /\ proc' = [proc EXCEPT ![p].pc = "probe", ![p].e = e]
      /\ UNCHANGED <<op, shuttingDown, down, closer, quiet>>
  BY DEF EnsureStarts, Turn
<1>2. p \in Starters /\ Ensuring(p)
  BY <1>1 DEF Starters, MayStart, Ensuring
<1>3. e \in Entries /\ e \in 0 .. MaxCalls + MaxCrashes
  BY <1>0, <1>2, BudgetSpent
<1>4. e \notin Made /\ Made' = Made \cup {e} /\ used' \in UsedRec
      /\ used'.entries = e /\ used'.calls = used.calls /\ used'.crashes = used.crashes
  <2>1. used \in UsedRec /\ used.entries \in Nat
    BY <1>0, UsedFacts DEF Types
  <2>2. used' \in UsedRec /\ used'.entries = e /\ used'.calls = used.calls /\ used'.crashes = used.crashes
    BY <1>1, <1>3, <2>1 DEF UsedRec
  <2> QED BY <2>1, <2>2 DEF Made
<1>5. /\ new \in EntryRec /\ new.run = "none" /\ new.intentional = FALSE /\ new.cancelled = FALSE
      /\ proc[p] \in ProcRec
  <2>1. proc[p] \in ProcRec /\ proc[p].in \in Inputs \cup {NoIndexer.in}
    BY <1>0 DEF Types, ProcRec
  <2> QED BY <2>1, NewIndexerFacts
<1> HIDE DEF e, new
<1>6. /\ entry' \in [Entries -> EntryRec] /\ \A x \in Entries : x # e => entry'[x] = entry[x]
      /\ entry'[e] = new /\ entry[e] = NoIndexer
  BY <1>0, <1>1, <1>3, <1>4, <1>5 DEF Types, Control, Fresh
<1>7. /\ proc' \in [Procs -> ProcRec] /\ \A q \in Procs : q # p => proc'[q] = proc[q]
      /\ proc'[p].pc = "probe" /\ proc'[p].e = e
  BY <1>0, <1>1, <1>3 DEF Types, ProcRec, Places
<1>8. proc[e].pc = "gone" /\ e # p
  BY <1>0, <1>1, <1>3, <1>6, NoIndexerFacts DEF Control, Goroutines
<1>9. Types'
  BY <1>0, <1>1, <1>3, <1>4, <1>6, <1>7 DEF Types
<1>10. Fresh'
  BY <1>0, <1>1, <1>4, <1>6, <1>7 DEF Control, Fresh
<1>11. Marked'
  BY <1>0, <1>5, <1>6 DEF Control, Marked
<1>12. Goroutines'
  <2>1. \A q \in Callers : proc'[q].pc \notin {"exit", "backoff", "carry", "gone"}
    BY <1>0, <1>7, ConstantFacts DEF Control, Goroutines
  <2>2. ASSUME NEW x \in Entries
        PROVE  /\ entry'[x].run = "none" => proc'[x].pc = "gone"
               /\ entry'[x].run = "running" <=> proc'[x].pc = "idle"
               /\ proc'[x].pc # "stop"
    <3>1. CASE x = e
      BY <1>3, <1>5, <1>6, <1>7, <1>8, <3>1, ConstantFacts
    <3>2. CASE x = p
      <4>1. entry[x].run # "none" /\ entry[x].run # "running" /\ entry'[x] = entry[x]
        BY <1>0, <1>1, <1>6, <1>8, <3>2 DEF Control, Goroutines
      <4> QED BY <1>7, <3>2, <4>1
    <3>3. CASE x # e /\ x # p
      BY <1>0, <1>6, <1>7, <3>3, ConstantFacts DEF Control, Goroutines
    <3> QED BY <3>1, <3>2, <3>3
  <2> QED BY <2>1, <2>2 DEF Goroutines
<1>13. Starting'
  <2>0. \A q \in Procs : q # p /\ OnTheWay(q)' => OnTheWay(q) /\ proc'[q] = proc[q] /\ proc[q].e # e
                                                  /\ proc[q].e \in Entries
    BY <1>0, <1>4, <1>7, UsedFacts DEF Control, Starting, OnTheWay
  <2>1. ASSUME NEW q \in Procs, OnTheWay(q)'
        PROVE  /\ proc'[q].e \in Made'
               /\ proc'[q].pc = "probe" \/ proc'[q].err => entry'[proc'[q].e].run = "none"
    <3>1. CASE q = p
      BY <1>4, <1>5, <1>6, <1>7, <3>1
    <3>2. CASE q # p
      <4>1. OnTheWay(q) /\ proc'[q] = proc[q] /\ entry'[proc[q].e] = entry[proc[q].e]
        BY <1>6, <2>0, <2>1, <3>2
      <4> QED BY <1>0, <1>4, <4>1 DEF Control, Starting
    <3> QED BY <3>1, <3>2
  <2>2. ASSUME NEW q1 \in Procs, NEW q2 \in Procs, OnTheWay(q1)', OnTheWay(q2)',
               proc'[q1].e = proc'[q2].e
        PROVE  q1 = q2
    BY <1>0, <1>7, <2>0, <2>2 DEF Control, Starting
  <2> QED BY <2>1, <2>2 DEF Starting, OnTheWay
<1>14. Running'
  <2>1. \A x \in Entries : entry[x].run # "running"
    BY <1>0, <1>1, ConstantFacts DEF Control, Running
  <2> QED BY <1>5, <1>6, <2>1 DEF Running
<1>15. LockHeld'
  <2>1. \A q \in Procs : ~Awaits(q)'
    BY <1>0, <1>1, <1>7, ConstantFacts DEF Control, LockHeld, Awaits
  <2> QED BY <2>1 DEF LockHeld, Awaits
<1>16. Closing'
  BY <1>0, <1>1 DEF Control, Closing
<1>17. Budget'
  <2>1. Starters' \subseteq Starters \cup {p}
    <3>1. \A q \in Procs : q \notin {p} => proc'[q] = proc[q]
      BY <1>7
    <3>2. \A x \in Entries : entry[x].intentional => entry'[x].intentional
      BY <1>6 DEF NoIndexer
    <3> QED BY <1>0, <1>1, <3>1, <3>2, StartersKept DEF Control
  <2>2. p \notin Starters'
    BY <1>7 DEF Starters, MayStart
  <2>3. Starters' \subseteq Starters \ {p}
    BY <2>1, <2>2
  <2> QED BY <1>0, <1>2, <1>4, <2>3, BudgetSpent DEF e
<1>18. Quiet'
  BY <1>0, <1>1, <1>2 DEF Quiet
<1> QED BY <1>9, <1>10, <1>11, <1>12, <1>13, <1>14, <1>15, <1>16, <1>17, <1>18 DEF HostInv, Control

\* The last check of startReady, and the goroutine of the indexer.
LEMMA LaunchStep ==
    ASSUME HostInv, NEW p \in Procs, StartReady(p)
    PROVE  HostInv'
<1> DEFINE e == proc[p].e
<1>0. Types /\ Control /\ Budget /\ Quiet
  BY DEF HostInv
<1>1. /\ proc[p].pc = "probe" /\ ~shuttingDown /\ tracked = e
      /\ entry' = [entry EXCEPT ![e].ready = TRUE, ![e].run = "running",
                       ![e].eligible = entry[e].in.secret, ![e].attempts = 0]
      /\ proc' = [proc EXCEPT ![p].pc = "final", ![p].err = FALSE, ![e].pc = "idle"]
      /\ UNCHANGED <<tracked, op, shuttingDown, down, closer, used, quiet>>
  BY DEF StartReady, Launch
<1>2. e \in Made /\ e \in Entries /\ e \in Procs /\ entry[e].run = "none"
  BY <1>0, <1>1, UsedFacts, ConstantFacts DEF Control, Starting, OnTheWay
<1>3. proc[e].pc = "gone" /\ e # p
  BY <1>0, <1>1, <1>2 DEF Control, Goroutines
<1> HIDE DEF e
<1>4. /\ entry' \in [Entries -> EntryRec] /\ \A x \in Entries : x # e => entry'[x] = entry[x]
      /\ entry'[e].run = "running" /\ entry'[e].ready = TRUE
      /\ entry'[e].intentional = entry[e].intentional /\ entry'[e].cancelled = entry[e].cancelled
  <2> DEFINE s == entry[e].in.secret
             r == [entry[e] EXCEPT !.ready = TRUE, !.run = "running", !.eligible = s, !.attempts = 0]
  <2>1. entry \in [Entries -> EntryRec] /\ entry[e] \in EntryRec /\ 0 \in 0 .. MaxAttempts
    BY <1>0, <1>2, ConstantFacts DEF Types
  <2>2. s \in BOOLEAN
    <3>1. entry[e].in \in Inputs \cup {NoIndexer.in}
      BY <2>1 DEF EntryRec
    <3>2. NoIndexer.in.secret = FALSE
      BY DEF NoIndexer
    <3>3. \A i \in Inputs : i.secret \in BOOLEAN
      BY HostAssumption DEF Inputs
    <3> QED BY <3>1, <3>2, <3>3
  <2>3. entry' = [entry EXCEPT ![e] = r]
    BY <1>1, <1>2, <2>1
  <2> HIDE DEF s
  <2>4. /\ r \in EntryRec /\ r.run = "running" /\ r.ready = TRUE
        /\ r.intentional = entry[e].intentional /\ r.cancelled = entry[e].cancelled
    BY <2>1, <2>2 DEF EntryRec
  <2> HIDE DEF r
  <2> QED BY <1>2, <2>1, <2>3, <2>4
<1>5. /\ proc' \in [Procs -> ProcRec] /\ \A q \in Procs : q # p /\ q # e => proc'[q] = proc[q]
      /\ proc'[p].pc = "final" /\ proc'[p].e = e /\ ~proc'[p].err
      /\ proc'[e].pc = "idle" /\ proc'[e].e = proc[e].e
  <2> DEFINE rp == [proc[p] EXCEPT !.pc = "final", !.err = FALSE]
             re == [proc[e] EXCEPT !.pc = "idle"]
  <2>1. proc \in [Procs -> ProcRec] /\ proc[p] \in ProcRec /\ proc[e] \in ProcRec
    BY <1>0, <1>2 DEF Types
  <2>2. proc' = [proc EXCEPT ![p] = rp, ![e] = re]
    BY <1>1, <1>2, <1>3, <2>1
  <2>3. rp \in ProcRec /\ rp.pc = "final" /\ rp.e = e /\ ~rp.err
    BY <2>1 DEF ProcRec, Places, e
  <2>4. re \in ProcRec /\ re.pc = "idle" /\ re.e = proc[e].e
    BY <2>1 DEF ProcRec, Places
  <2> HIDE DEF rp, re
  <2> QED BY <1>2, <1>3, <2>1, <2>2, <2>3, <2>4
<1>6. Types'
  BY <1>0, <1>1, <1>4, <1>5 DEF Types
<1>7. Made' = Made
  BY <1>1 DEF Made
<1>8. Fresh'
  BY <1>0, <1>1, <1>2, <1>4, <1>5, <1>7 DEF Control, Fresh
<1>9. Marked'
  BY <1>0, <1>2, <1>4 DEF Control, Marked
<1>10. Goroutines'
  <2>1. \A q \in Callers : proc'[q].pc \notin {"exit", "backoff", "carry", "gone"}
    BY <1>0, <1>2, <1>5, ConstantFacts DEF Control, Goroutines
  <2>2. ASSUME NEW x \in Entries
        PROVE  /\ entry'[x].run = "none" => proc'[x].pc = "gone"
               /\ entry'[x].run = "running" <=> proc'[x].pc = "idle"
               /\ proc'[x].pc # "stop"
    <3>1. CASE x = e
      BY <1>4, <1>5, <3>1
    <3>2. CASE x = p
      <4>1. entry[x].run # "none" /\ entry[x].run # "running" /\ entry'[x] = entry[x]
        BY <1>0, <1>1, <1>3, <1>4, <3>2 DEF Control, Goroutines
      <4> QED BY <1>5, <3>2, <4>1
    <3>3. CASE x # e /\ x # p
      BY <1>0, <1>4, <1>5, <3>3, ConstantFacts DEF Control, Goroutines
    <3> QED BY <3>1, <3>2, <3>3
  <2> QED BY <2>1, <2>2 DEF Goroutines
<1>11. Starting'
  <2>0. OnTheWay(p) /\ proc[p].e = e
    BY <1>1 DEF OnTheWay, e
  <2>1. \A q \in Procs : OnTheWay(q)' => q # e /\ OnTheWay(q) /\ proc'[q].e = proc[q].e
    BY <1>5, <2>0 DEF OnTheWay
  <2>2. ASSUME NEW q \in Procs, OnTheWay(q)'
        PROVE  /\ proc'[q].e \in Made'
               /\ proc'[q].pc = "probe" \/ proc'[q].err => entry'[proc'[q].e].run = "none"
    <3>1. CASE q = p
      BY <1>2, <1>5, <1>7, <3>1
    <3>2. CASE q # p
      <4>1. proc'[q] = proc[q] /\ proc[q].e # e /\ proc[q].e \in Made /\ proc[q].e \in Entries
        BY <1>0, <1>5, <2>0, <2>1, <2>2, <3>2, UsedFacts DEF Control, Starting
      <4> QED BY <1>0, <1>4, <1>7, <2>1, <2>2, <4>1 DEF Control, Starting
    <3> QED BY <3>1, <3>2
  <2>3. ASSUME NEW q1 \in Procs, NEW q2 \in Procs, OnTheWay(q1)', OnTheWay(q2)',
               proc'[q1].e = proc'[q2].e
        PROVE  q1 = q2
    BY <1>0, <2>1, <2>3 DEF Control, Starting
  <2> QED BY <2>2, <2>3 DEF Starting, OnTheWay
<1>12. Running'
  BY <1>0, <1>1, <1>4 DEF Control, Running
<1>13. LockHeld'
  <2> SUFFICES ASSUME NEW q \in Procs, Awaits(q)'
               PROVE  op' = q /\ proc'[q].e \in Made' /\ tracked' \in {None, proc'[q].e}
    BY DEF LockHeld, Awaits
  <2>1. Awaits(q) /\ proc'[q] = proc[q]
    BY <1>5 DEF Awaits
  <2>2. op = q /\ proc[q].e \in Made /\ tracked \in {None, proc[q].e}
    BY <1>0, <2>1 DEF Control, LockHeld
  <2> QED BY <1>1, <1>7, <2>1, <2>2
<1>14. Closing'
  BY <1>0, <1>1 DEF Control, Closing, CloserRec
<1>15. Budget'
  <2>1. Starters' \subseteq Starters \cup {p, e}
    <3>1. \A q \in Procs : q \notin {p, e} => proc'[q] = proc[q]
      BY <1>5
    <3>2. \A x \in Entries : entry[x].intentional => entry'[x].intentional
      BY <1>4
    <3>3. {p, e} \in SUBSET Procs
      BY <1>2
    <3> QED BY <1>0, <1>1, <3>1, <3>2, <3>3, StartersKept DEF Control
  <2>2. p \notin Starters' /\ e \notin Starters'
    BY <1>5 DEF Starters, MayStart
  <2>3. Starters' \subseteq Starters
    BY <2>1, <2>2
  <2> QED BY <1>0, <1>1, <2>3, BudgetKept
<1>16. Quiet'
  BY <1>0, <1>1 DEF Quiet, Ensuring
<1> QED BY <1>6, <1>8, <1>9, <1>10, <1>11, <1>12, <1>13, <1>14, <1>15, <1>16 DEF HostInv, Control

\* An indexer ends, asked or not.
LEMMA EndSteps ==
    ASSUME HostInv, NEW e \in Entries, IndexerStops(e) \/ IndexerCrashes(e)
    PROVE  HostInv'
<1>0. Types /\ Control /\ Budget /\ Quiet
  BY DEF HostInv
<1>1. /\ entry[e].run = "running" /\ entry' = [entry EXCEPT ![e].run = "closed"] /\ Go(e, "exit")
      /\ UNCHANGED <<tracked, op, shuttingDown, down, closer, quiet>>
  BY DEF IndexerStops, IndexerCrashes
<1>2. e \in Procs /\ proc[e].pc = "idle" /\ e \in Made /\ tracked = e /\ tracked # None
  <2>1. entry[e] # NoIndexer
    BY <1>1, NoIndexerFacts
  <2> QED BY <1>0, <1>1, <2>1, ConstantFacts DEF Control, Goroutines, Fresh, Running
<1>3. /\ entry' \in [Entries -> EntryRec] /\ \A x \in Entries : x # e => entry'[x] = entry[x]
      /\ entry'[e].run = "closed" /\ entry'[e].cancelled = entry[e].cancelled
      /\ entry'[e].intentional = entry[e].intentional
  BY <1>0, <1>1 DEF Types, EntryRec
<1>4. /\ proc' \in [Procs -> ProcRec] /\ \A q \in Procs : q # e => proc'[q] = proc[q]
      /\ proc'[e].pc = "exit" /\ proc'[e].e = proc[e].e
  BY <1>0, <1>1, <1>2, GoFacts DEF Types, Places
<1>5. used' \in UsedRec /\ used'.entries = used.entries /\ used'.calls = used.calls
      /\ (IndexerStops(e) => used' = used)
      /\ (IndexerCrashes(e) => used'.crashes = used.crashes + 1)
  <2>1. used \in UsedRec
    BY <1>0 DEF Types
  <2>2. CASE IndexerStops(e)
    <3>1. UNCHANGED used /\ ~IndexerCrashes(e)
      BY <2>2 DEF IndexerStops, IndexerCrashes
    <3> QED BY <2>1, <3>1
  <2>3. CASE IndexerCrashes(e)
    <3>1. used' = [used EXCEPT !.crashes = @ + 1] /\ used.crashes < MaxCrashes /\ ~IndexerStops(e)
      BY <2>3 DEF IndexerCrashes, IndexerStops
    <3>2. used.crashes + 1 \in 0 .. MaxCrashes
      BY <1>0, <3>1, UsedFacts, ConstantFacts
    <3> QED BY <2>1, <3>1, <3>2 DEF UsedRec
  <2> QED BY <2>2, <2>3
<1>6. Types'
  BY <1>0, <1>1, <1>3, <1>4, <1>5 DEF Types
<1>7. Made' = Made
  BY <1>5 DEF Made
<1>8. Fresh'
  BY <1>0, <1>1, <1>2, <1>3, <1>4, <1>7 DEF Control, Fresh
<1>9. Marked'
  BY <1>0, <1>3 DEF Control, Marked
<1>10. Goroutines'
  BY <1>0, <1>3, <1>4, ConstantFacts DEF Control, Goroutines
<1>11. Starting'
  <2>1. \A q \in Procs : OnTheWay(q)' => OnTheWay(q) /\ proc'[q] = proc[q]
    BY <1>4 DEF OnTheWay
  <2>2. ASSUME NEW q \in Procs, OnTheWay(q)'
        PROVE  /\ proc'[q].e \in Made'
               /\ proc'[q].pc = "probe" \/ proc'[q].err => entry'[proc'[q].e].run = "none"
    <3>1. proc[q].e \in Made /\ proc[q].e \in Entries /\ proc'[q] = proc[q]
      BY <1>0, <2>1, <2>2, UsedFacts DEF Control, Starting
    <3>2. proc[q].pc = "probe" \/ proc[q].err => entry[proc[q].e].run = "none" /\ proc[q].e # e
      BY <1>0, <1>1, <2>1, <2>2 DEF Control, Starting
    <3> QED BY <1>3, <1>7, <3>1, <3>2
  <2>3. ASSUME NEW q1 \in Procs, NEW q2 \in Procs, OnTheWay(q1)', OnTheWay(q2)',
               proc'[q1].e = proc'[q2].e
        PROVE  q1 = q2
    BY <1>0, <2>1, <2>3 DEF Control, Starting
  <2> QED BY <2>2, <2>3 DEF Starting, OnTheWay
<1>12. Running'
  BY <1>0, <1>1, <1>3 DEF Control, Running
<1>13. LockHeld'
  <2>1. \A q \in Procs : Awaits(q)' => Awaits(q) /\ proc'[q] = proc[q]
    BY <1>4 DEF Awaits
  <2> QED BY <1>0, <1>1, <1>7, <2>1 DEF Control, LockHeld, Awaits
<1>14. Closing'
  <2>1. closer.pc = "wait" => closer.e \in Entries
    BY <1>0, UsedFacts DEF Control, Closing
  <2>2. \A x \in Entries : entry[x].run # "running" => entry'[x].run # "running"
    BY <1>3
  <2> QED BY <1>0, <1>1, <1>7, <2>1, <2>2 DEF Control, Closing
<1>15. Budget'
  <2>1. Starters' \subseteq Starters \cup {e}
    <3>1. \A q \in Procs : q \notin {e} => proc'[q] = proc[q]
      BY <1>4
    <3>2. \A x \in Entries : entry[x].intentional => entry'[x].intentional
      BY <1>3
    <3> QED BY <1>0, <1>1, <1>2, <3>1, <3>2, StartersKept DEF Control
  <2>2. CASE IndexerStops(e)
    <3>1. entry'[e].intentional \/ down'
      BY <1>0, <1>1, <1>3, <2>2 DEF Control, Marked, IndexerStops
    <3>2. e \notin Starters'
      BY <1>4, <3>1 DEF Starters, MayStart
    <3>3. Starters' \subseteq Starters
      BY <2>1, <3>2
    <3> QED BY <1>0, <1>5, <2>2, <3>3, BudgetKept
  <2>3. CASE IndexerCrashes(e)
    <3>1. used'.calls + used'.crashes = used.calls + used.crashes + 1
          /\ used'.calls \in Nat /\ used'.crashes \in Nat
      BY <1>0, <1>5, <2>3, UsedFacts
    <3> QED BY <1>0, <1>5, <2>1, <3>1, BudgetGrows
  <2> QED BY <2>2, <2>3
<1>16. Quiet'
  BY <1>0, <1>1, <1>2 DEF Quiet
<1> QED BY <1>6, <1>8, <1>9, <1>10, <1>11, <1>12, <1>13, <1>14, <1>15, <1>16 DEF HostInv, Control

-----------------------------------------------------------------------------
(* Steps that move no goroutine of a call or of an indexer                 *)

LEMMA OthersKept ==
    ASSUME HostInv, Types', EntriesKept, Closing',
           UNCHANGED <<proc, op>>, closer'.e \in Made \cup {None}, down => down',
           used'.entries = used.entries, used'.calls = used.calls, used'.crashes = used.crashes,
           tracked' = tracked \/ (tracked' = None /\ \A e \in Entries : entry[e].run # "running"),
           quiet' => quiet \/ (tracked' = None /\ \A p \in Procs : ~Ensuring(p))
    PROVE  HostInv'
<1>0. Types /\ Control /\ Budget /\ Quiet
  BY DEF HostInv
<1>m. Made' = Made
  BY DEF Made
<1>k. \A e \in Entries :
        /\ entry'[e].run = entry[e].run
        /\ entry[e].run = "running" => entry'[e].ready = entry[e].ready
        /\ entry[e].intentional => entry'[e].intentional
        /\ entry'[e].cancelled => entry'[e].intentional
        /\ e \in Made \/ entry'[e] = entry[e]
  BY DEF EntriesKept
<1>1. Fresh'
  BY <1>0, <1>k, <1>m DEF Control, Fresh
<1>2. Marked'
  BY <1>k DEF Marked
<1>3. Goroutines'
  BY <1>0, <1>k DEF Control, Goroutines
<1>4. Starting'
  <2>1. \A p \in Procs : OnTheWay(p) => proc[p].e \in Made /\ proc[p].e \in Entries
    BY <1>0, UsedFacts DEF Control, Starting
  <2>2. ASSUME NEW p \in Procs, OnTheWay(p)
        PROVE  proc[p].pc = "probe" \/ proc[p].err => entry'[proc[p].e].run = "none"
    BY <1>0, <1>k, <2>1, <2>2 DEF Control, Starting
  <2>3. \A p, q \in Procs : OnTheWay(p) /\ OnTheWay(q) /\ proc[p].e = proc[q].e => p = q
    BY <1>0 DEF Control, Starting
  <2> QED BY <1>m, <2>1, <2>2, <2>3 DEF Starting, OnTheWay
<1>5. Running'
  BY <1>0, <1>k DEF Control, Running
<1>6. LockHeld'
  BY <1>0, <1>m DEF Control, LockHeld, Awaits
<1>7. Budget'
  <2>1. Starters' \subseteq Starters \cup {}
    <3>1. \A q \in Procs : q \notin {} => proc'[q] = proc[q]
      OBVIOUS
    <3>2. \A e \in Entries : entry[e].intentional => entry'[e].intentional
      BY <1>k
    <3>3. {} \in SUBSET Procs
      OBVIOUS
    <3> QED BY <1>0, <3>1, <3>2, <3>3, StartersKept DEF Control
  <2>2. Starters' \subseteq Starters
    BY <2>1
  <2> QED BY <1>0, <2>2, BudgetKept
<1>8. Quiet'
  BY <1>0 DEF Quiet, Ensuring
<1> QED BY <1>1, <1>2, <1>3, <1>4, <1>5, <1>6, <1>7, <1>8 DEF HostInv, Control

\* The goroutine that a stop left behind, and the context of the host.
LEMMA ReapSteps ==
    ASSUME HostInv, HostCancelled \/ \E e \in Entries : Reap(e)
    PROVE  HostInv'
<1>0. Types /\ Control /\ Budget /\ Quiet
  BY DEF HostInv
<1>1. CASE HostCancelled
  <2>1. UNCHANGED <<entry, tracked, op, proc, shuttingDown, closer, used, quiet>> /\ ~down /\ down' = TRUE
    BY <1>1 DEF HostCancelled
  <2>2. Types' /\ EntriesKept
    BY <1>0, <2>1, EntriesUnchanged DEF Types
  <2>3. Closing'
    BY <1>0, <2>1 DEF Control, Closing, Made
  <2>4. closer'.e \in Made \cup {None}
    BY <1>0, <2>1 DEF Control, Fresh
  <2> QED BY <2>1, <2>2, <2>3, <2>4, OthersKept
<1>2. ASSUME NEW e \in Entries, Reap(e) PROVE HostInv'
  <2>1. /\ entry[e].run = "closed" /\ entry' = [entry EXCEPT ![e].reaped = FALSE] /\ Untrack(e)
        /\ UNCHANGED <<op, proc, shuttingDown, down, closer, used, quiet>>
    BY <1>2 DEF Reap
  <2>2. e \in Made
    <3>1. entry[e] # NoIndexer
      BY <2>1, NoIndexerFacts
    <3> QED BY <1>0, <3>1 DEF Control, Fresh
  <2>3. /\ entry' \in [Entries -> EntryRec] /\ \A x \in Entries : x # e => entry'[x] = entry[x]
        /\ entry'[e].run = entry[e].run /\ entry'[e].cancelled = entry[e].cancelled
        /\ entry'[e].ready = entry[e].ready /\ entry'[e].intentional = entry[e].intentional
    BY <1>0, <2>1 DEF Types, EntryRec
  <2>4. EntriesKept
    BY <1>0, <2>2, <2>3 DEF EntriesKept, Control, Marked
  <2>5. tracked' = tracked \/ (tracked' = None /\ \A x \in Entries : entry[x].run # "running")
    BY <1>0, <2>1 DEF Untrack, Control, Running
  <2>6. Types'
    BY <1>0, <2>1, <2>3, <2>5 DEF Types
  <2>7. Closing' /\ closer'.e \in Made \cup {None}
    <3>1. closer.pc = "wait" => closer.e \in Entries
      BY <1>0, UsedFacts DEF Control, Closing
    <3>2. \A x \in Entries : entry'[x].run = entry[x].run
      BY <2>3
    <3> QED BY <1>0, <2>1, <2>5, <3>1, <3>2 DEF Control, Closing, Fresh, Made
  <2> QED BY <2>1, <2>4, <2>5, <2>6, <2>7, OthersKept
<1> QED BY <1>1, <1>2

LEMMA StopAllSteps ==
    ASSUME HostInv, StopAllBegins \/ StopAllStep \/ StopAllTimesOut
    PROVE  HostInv'
<1>0. Types /\ Control /\ Budget /\ Quiet
  BY DEF HostInv
<1>t. /\ entry \in [Entries -> EntryRec] /\ tracked \in Made \cup {None} /\ closer \in CloserRec
      /\ tracked \in Entries \cup {None} /\ closer.e \in Made \cup {None}
      /\ used.entries \in Nat
  BY <1>0, UsedFacts DEF Types, Control, Fresh
<1>r. \A x \in Entries : entry[x].run = "running" => tracked = x /\ entry[x].ready
  BY <1>0 DEF Control, Running
<1>1. CASE StopAllBegins
  <2>1. /\ closer.pc = "idle" /\ shuttingDown' = TRUE
        /\ closer' = [pc |-> IF tracked = None THEN "end" ELSE "wait", e |-> tracked,
                      hasDone |-> tracked # None /\ entry[tracked].ready, late |-> FALSE]
        /\ entry' = [e \in Entries |-> IF e = tracked
                        THEN [entry[e] EXCEPT !.intentional = TRUE,
                                              !.cancelled = @ \/ entry[e].ready]
                        ELSE entry[e]]
        /\ UNCHANGED <<tracked, op, proc, down, used, quiet>>
    BY <1>1 DEF StopAllBegins
  <2>2. \A x \in Entries : x # tracked => entry'[x] = entry[x]
    BY <2>1
  <2>3. tracked \in Entries =>
           /\ entry'[tracked] \in EntryRec /\ entry'[tracked].run = entry[tracked].run
           /\ entry'[tracked].ready = entry[tracked].ready /\ entry'[tracked].intentional = TRUE
    <3> SUFFICES ASSUME tracked \in Entries
                 PROVE  /\ entry'[tracked] \in EntryRec /\ entry'[tracked].run = entry[tracked].run
                        /\ entry'[tracked].ready = entry[tracked].ready
                        /\ entry'[tracked].intentional = TRUE
      OBVIOUS
    <3> DEFINE b == entry[tracked].cancelled \/ entry[tracked].ready
               r == [entry[tracked] EXCEPT !.intentional = TRUE, !.cancelled = b]
    <3>1. entry[tracked] \in EntryRec /\ b \in BOOLEAN
      BY <1>t
    <3>2. entry'[tracked] = r
      BY <2>1
    <3> HIDE DEF b
    <3>3. r \in EntryRec /\ r.run = entry[tracked].run /\ r.ready = entry[tracked].ready
          /\ r.intentional = TRUE
      BY <3>1 DEF EntryRec
    <3> HIDE DEF r
    <3> QED BY <3>2, <3>3
  <2>4. entry' \in [Entries -> EntryRec]
    <3>1. \A x \in Entries : entry'[x] \in EntryRec
      BY <1>t, <2>2, <2>3
    <3>2. entry' = [x \in Entries |-> entry'[x]]
      BY <2>1
    <3> QED BY <3>1, <3>2
  <2>5. EntriesKept
    BY <1>0, <1>t, <2>2, <2>3, ConstantFacts DEF EntriesKept, Control, Marked
  <2>6. /\ closer'.pc \in {"wait", "end"} /\ (closer'.pc = "wait" <=> tracked # None)
        /\ closer'.e = tracked /\ closer'.late = FALSE
        /\ closer'.hasDone = (tracked # None /\ entry[tracked].ready) /\ closer' \in CloserRec
    <3> DEFINE b == tracked # None /\ entry[tracked].ready
               s == IF tracked = None THEN "end" ELSE "wait"
    <3>1. /\ b \in BOOLEAN /\ s \in {"wait", "end"} /\ (s = "wait" <=> tracked # None)
          /\ closer' = [pc |-> s, e |-> tracked, hasDone |-> b, late |-> FALSE]
      BY <2>1
    <3> HIDE DEF b, s
    <3>2. /\ closer'.pc = s /\ closer'.e = tracked /\ closer'.late = FALSE /\ closer'.hasDone = b
          /\ closer' \in CloserRec
      BY <1>t, <3>1 DEF CloserRec
    <3> QED BY <3>1, <3>2 DEF b
  <2>7. Types'
    BY <1>0, <2>1, <2>4, <2>6 DEF Types
  <2>8. Closing'
    <3>1. shuttingDown' /\ (closer'.pc = "end" => tracked' = None)
      BY <2>1, <2>6
    <3>2. ASSUME closer'.pc = "wait"
          PROVE  /\ closer'.e \in Made' /\ tracked' \in {None, closer'.e}
                 /\ ~closer'.hasDone => entry'[closer'.e].run # "running"
      <4>1. tracked # None /\ tracked \in Entries /\ tracked \in Made
        BY <1>t, <2>6, <3>2
      <4>2. ~entry[tracked].ready => entry'[tracked].run # "running"
        BY <1>r, <2>3, <4>1
      <4> QED BY <2>1, <2>6, <4>1, <4>2 DEF Made
    <3> QED BY <3>1, <3>2 DEF Closing
  <2> QED BY <1>t, <2>1, <2>5, <2>6, <2>7, <2>8, OthersKept
<1>2. CASE StopAllDrops
  <2>1. /\ closer.pc = "wait" /\ (closer.hasDone => entry[closer.e].run = "closed")
        /\ Untrack(closer.e) /\ closer' = [closer EXCEPT !.pc = "end"]
        /\ UNCHANGED <<entry, op, proc, shuttingDown, down, used, quiet>>
    BY <1>2 DEF StopAllDrops
  <2>2. closer.e \in Made /\ tracked \in {None, closer.e} /\ entry[closer.e].run # "running" /\ shuttingDown
    BY <1>0, <2>1 DEF Control, Closing
  <2>3. tracked' = None /\ \A x \in Entries : entry[x].run # "running"
    BY <1>r, <2>1, <2>2, ConstantFacts DEF Untrack
  <2>4. closer' \in CloserRec /\ closer'.pc = "end" /\ closer'.e = closer.e
    BY <1>t, <2>1 DEF CloserRec
  <2>5. Types' /\ EntriesKept
    BY <1>0, <2>1, <2>3, <2>4, EntriesUnchanged DEF Types
  <2>6. Closing'
    BY <2>1, <2>2, <2>3, <2>4 DEF Closing
  <2> QED BY <1>t, <2>1, <2>3, <2>4, <2>5, <2>6, OthersKept
<1>3. CASE StopAllTimesOut
  <2>1. /\ closer.pc = "wait" /\ used.timeouts < MaxTimeouts
        /\ used' = [used EXCEPT !.timeouts = @ + 1]
        /\ entry' = [entry EXCEPT ![closer.e].reaped = TRUE]
        /\ closer' = [closer EXCEPT !.pc = "end", !.late = TRUE]
        /\ UNCHANGED <<tracked, op, proc, shuttingDown, down, quiet>>
    BY <1>3 DEF StopAllTimesOut
  <2>2. closer.e \in Made /\ closer.e \in Entries /\ shuttingDown
    BY <1>0, <2>1, UsedFacts DEF Control, Closing
  <2>3. closer' \in CloserRec /\ closer'.pc = "end" /\ closer'.e = closer.e /\ closer'.late = TRUE
    BY <1>t, <2>1 DEF CloserRec
  <2>4. used' \in UsedRec /\ used'.entries = used.entries /\ used'.calls = used.calls
        /\ used'.crashes = used.crashes
    <3>1. used \in UsedRec /\ used.timeouts + 1 \in 0 .. MaxTimeouts
      BY <1>0, <2>1, UsedFacts, ConstantFacts DEF Types
    <3> QED BY <2>1, <3>1 DEF UsedRec
  <2>5. /\ entry' \in [Entries -> EntryRec] /\ \A x \in Entries : x # closer.e => entry'[x] = entry[x]
        /\ entry'[closer.e].run = entry[closer.e].run
        /\ entry'[closer.e].cancelled = entry[closer.e].cancelled
        /\ entry'[closer.e].ready = entry[closer.e].ready
        /\ entry'[closer.e].intentional = entry[closer.e].intentional
    <3> DEFINE c == closer.e
    <3>1. c \in Entries /\ entry' = [entry EXCEPT ![c].reaped = TRUE]
      BY <2>1, <2>2
    <3> HIDE DEF c
    <3>2. /\ entry' \in [Entries -> EntryRec] /\ \A x \in Entries : x # c => entry'[x] = entry[x]
          /\ entry'[c].run = entry[c].run /\ entry'[c].cancelled = entry[c].cancelled
          /\ entry'[c].ready = entry[c].ready /\ entry'[c].intentional = entry[c].intentional
      BY <1>t, <3>1 DEF EntryRec
    <3> QED BY <3>2 DEF c
  <2>6. EntriesKept
    BY <1>0, <2>2, <2>5 DEF EntriesKept, Control, Marked
  <2>7. Types'
    BY <1>0, <2>1, <2>3, <2>4, <2>5 DEF Types
  <2>8. Closing'
    BY <2>1, <2>2, <2>3 DEF Closing
  <2> QED BY <1>t, <2>1, <2>3, <2>4, <2>6, <2>7, <2>8, OthersKept
<1>4. CASE StopAllReturns
  <2>1. /\ closer.pc = "end" /\ shuttingDown' = FALSE
        /\ closer' = [pc |-> "done", e |-> None, hasDone |-> FALSE, late |-> FALSE]
        /\ quiet' = (~closer.late /\ Settled(None))
        /\ UNCHANGED <<entry, tracked, op, proc, down, used>>
    BY <1>4 DEF StopAllReturns
  <2>2. closer' \in CloserRec /\ closer'.pc = "done" /\ closer'.e = None
    BY <2>1 DEF CloserRec
  <2>3. Types' /\ EntriesKept
    <3>1. quiet' \in BOOLEAN
      BY <2>1
    <3> QED BY <1>0, <2>1, <2>2, <3>1, EntriesUnchanged DEF Types
  <2>4. Closing'
    BY <2>2 DEF Closing
  <2>5. quiet' => tracked' = None /\ \A p \in Procs : ~Ensuring(p)
    BY <1>0, <2>1, ConstantFacts DEF Settled, Control, Closing
  <2> QED BY <2>1, <2>2, <2>3, <2>4, <2>5, OthersKept
<1> QED BY <1>1, <1>2, <1>3, <1>4 DEF StopAllStep

-----------------------------------------------------------------------------
(* The theorems                                                            *)

LEMMA HostInit == Init => HostInv
<1> SUFFICES ASSUME Init PROVE HostInv
  OBVIOUS
<1>1. /\ entry = [e \in Entries |-> NoIndexer] /\ tracked = None /\ op = None
      /\ proc = [p \in Procs |-> Resting(p)]
      /\ shuttingDown = FALSE /\ down = FALSE /\ quiet = FALSE
      /\ closer = [pc |-> "idle", e |-> None, hasDone |-> FALSE, late |-> FALSE]
      /\ used = [calls |-> 0, crashes |-> 0, timeouts |-> 0, entries |-> 0]
  BY DEF Init
<1>2. closer \in CloserRec /\ closer.pc = "idle" /\ closer.e = None
  BY <1>1 DEF CloserRec
<1>3. used \in UsedRec /\ used.calls = 0 /\ used.crashes = 0 /\ used.entries = 0
  BY <1>1, ConstantFacts DEF UsedRec
<1>4. Types
  BY <1>1, <1>2, <1>3, NoIndexerFacts, RestingFacts DEF Types
<1>5. \A p \in Procs : /\ proc[p].e = None /\ proc[p].pc \in {"idle", "gone"}
                       /\ p \in Callers <=> proc[p].pc = "idle"
  BY <1>1, RestingFacts
<1>6. \A e \in Entries : entry[e] = NoIndexer /\ entry[e].run = "none" /\ ~entry[e].cancelled
  BY <1>1, NoIndexerFacts
<1>7. Control
  <2>1. Fresh /\ Marked
    BY <1>1, <1>2, <1>5, <1>6 DEF Fresh, Marked
  <2>2. Goroutines
    BY <1>5, <1>6, ConstantFacts DEF Goroutines
  <2>3. Starting /\ LockHeld
    BY <1>5 DEF Starting, LockHeld, OnTheWay, Awaits
  <2>4. Running /\ Closing
    BY <1>2, <1>6 DEF Running, Closing
  <2> QED BY <2>1, <2>2, <2>3, <2>4 DEF Control
<1>8. Budget
  <2>1. Starters = {}
    BY <1>5 DEF Starters, MayStart
  <2> QED BY <1>3, <2>1, FS_EmptySet DEF Budget
<1>9. Quiet
  BY <1>1 DEF Quiet
<1> QED BY <1>4, <1>7, <1>8, <1>9 DEF HostInv

LEMMA HostStep == HostInv /\ [Next]_vars => HostInv'
<1> SUFFICES ASSUME HostInv, [Next]_vars PROVE HostInv'
  OBVIOUS
<1>1. CASE \E p \in Callers : CallStop(p) \/ \E in \in Inputs : CallEnsure(p, in)
  BY <1>1, CallSteps
<1>2. ASSUME NEW p \in Procs, ProcStep(p) \/ CallTimesOut(p) PROVE HostInv'
  <2>1. CASE StopIndexer(p) \/ StopSeesStartEnd(p) \/ StopSeesExit(p) \/ CallTimesOut(p)
    BY <2>1, StopSteps
  <2>2. CASE \/ EnsureRefused(p) \/ EnsureFindsReady(p) \/ EnsureJoins(p) \/ EnsureReplaces(p)
             \/ EnsureJoined(p) \/ ReadinessFails(p) \/ Finalize(p)
    BY <2>2, EnsureSteps
  <2>3. CASE EnsureStarts(p)
    BY <2>3, StartStep
  <2>4. CASE StartReady(p)
    BY <2>4, LaunchStep
  <2>5. CASE OnIndexerExit(p) \/ RestartAfterBackoff(p) \/ CarryAttempts(p)
    BY <2>5, ExitSteps
  <2> QED BY <1>2, <2>1, <2>2, <2>3, <2>4, <2>5 DEF ProcStep
<1>3. ASSUME NEW e \in Entries, IndexerStops(e) \/ IndexerCrashes(e) PROVE HostInv'
  BY <1>3, EndSteps
<1>4. CASE HostCancelled \/ \E e \in Entries : Reap(e)
  BY <1>4, ReapSteps
<1>5. CASE StopAllBegins \/ StopAllStep \/ StopAllTimesOut
  BY <1>5, StopAllSteps
<1>6. CASE UNCHANGED vars
  BY <1>6 DEF vars, HostInv, Types, Control, Fresh, Marked, Goroutines, Starting, Running,
              LockHeld, Closing, Budget, Quiet, Made, OnTheWay, Awaits, Starters, MayStart, Ensuring
<1> QED BY <1>1, <1>2, <1>3, <1>4, <1>5, <1>6 DEF Next

LEMMA HostAlways == Spec => []HostInv
BY HostInit, HostStep, PTL DEF Spec

\* The types of the host, of which the bound on the entries is the hard one:
\* a call and an exit nobody asked for make at most one managedIndexer each.
THEOREM HostTypeCorrect == Spec => []TypeOK
<1>1. HostInv => TypeOK
  BY TypesAreTypeOK DEF HostInv
<1> QED BY <1>1, HostAlways, PTL

\* A running indexer is the one the host tracks, whatever stops, timeouts,
\* exits, restarts and StopAll do to each other: so two never run for one
\* target and none is left behind that nobody can stop.
THEOREM RunningIndexerIsTracked == Spec => []RunningIsTracked
<1>1. HostInv => RunningIsTracked
  BY DEF HostInv, Control, Running, RunningIsTracked
<1> QED BY <1>1, HostAlways, PTL

\* After StopIndexer or StopAll returned nil while nobody was on the way to
\* start an indexer, none is tracked and none runs until EnsureIndexer is
\* called again.
THEOREM StoppedIndexerStaysDown == Spec => []StoppedStaysDown
<1>1. HostInv => StoppedStaysDown
  BY ConstantFacts DEF HostInv, Control, Running, Quiet, StoppedStaysDown
<1> QED BY <1>1, HostAlways, PTL
=============================================================================
