------------------------------ MODULE MCStore ------------------------------
(* Model-checking instances of FulfillmentStore. *)
EXTENDS FulfillmentStore, TLC

Symmetry == Permutations(Writers)
=============================================================================
