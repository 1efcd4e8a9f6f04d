------------------------- MODULE ReconcileContract -------------------------
(***************************************************************************)
(* What the platform promises of one fulfillment, whatever its workflows   *)
(* do: users raise its desired generation one at a time, the observed      *)
(* generation only ever catches up, never passing the desired one, it does *)
(* catch up, and once removed the fulfillment never comes back.            *)
(***************************************************************************)
EXTENDS Naturals

VARIABLES phase,    \* "absent", "present" or "removed"
          desired,  \* Fulfillment.Generation
          observed  \* Fulfillment.ObservedGeneration

cvars == <<phase, desired, observed>>

Init == phase = "absent" /\ desired = 0 /\ observed = 0

Create == /\ phase = "absent"
          /\ phase' = "present"
          /\ desired' = 1
          /\ UNCHANGED observed

Mutate == /\ phase = "present"
          /\ desired' = desired + 1
          /\ UNCHANGED <<phase, observed>>

\* A pass settles some generation that is newer than the last one settled.
Reconcile == /\ phase = "present"
             /\ observed < desired
             /\ observed' \in (observed + 1) .. desired
             /\ UNCHANGED <<phase, desired>>

\* Only a fulfillment that somebody mutated (a delete is a mutation) and that
\* was reconciled since its creation goes away.
Remove == /\ phase = "present"
          /\ observed > 1
          /\ phase' = "removed"
          /\ desired' = 0
          /\ observed' = 0

Next == Create \/ Mutate \/ Reconcile \/ Remove

Spec == Init /\ [][Next]_cvars

FairSpec == Spec /\ WF_cvars(Reconcile)
=============================================================================
