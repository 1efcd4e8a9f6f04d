-------------------------------- MODULE MCHcp --------------------------------
(* Model-checking instance of HcpAgent. *)
EXTENDS HcpAgent

CONSTANTS n1, n2

\* Generation 2 drops one nodepool for another, generation 3 has both.
PoolsOf == [g \in Generations |-> IF g = 1 THEN {n1} ELSE IF g = 2 THEN {n2} ELSE {n1, n2}]
=============================================================================
