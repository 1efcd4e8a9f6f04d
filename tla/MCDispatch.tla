----------------------------- MODULE MCDispatch -----------------------------
(* Model-checking instances of DeliveryDispatch. *)
EXTENDS DeliveryDispatch, TLC

Symmetry == Permutations(Targets)
=============================================================================
