-------------------------- MODULE MCOrchestration --------------------------
(* Model-checking instances of Orchestration. *)
EXTENDS Orchestration, TLC

\* Requests are alike, and so are targets where StaticTargets has all or none
\* of them and Accepting too.
Symmetry == Permutations(Requests) \cup Permutations(Targets)
=============================================================================
