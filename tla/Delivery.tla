------------------------------ MODULE Delivery ------------------------------
(***************************************************************************)
(* The delivery aggregate (server/internal/domain/delivery.go): the record *)
(* of one fulfillment on one target, and the methods that move it, as      *)
(* operators.  Manifests and timestamps are left out.                      *)
(***************************************************************************)
EXTENDS Naturals

\* deliveryStateOrder: the forward-only order of the states before the end.
DeliveryStateOrder == [pending |-> 0, accepted |-> 1, progressing |-> 2]

TerminalStates == {"delivered", "failed", "partial", "auth_failed"}
DeliveryState  == DOMAIN DeliveryStateOrder \cup TerminalStates
IsTerminal(s)  == s \in TerminalStates

DeliveryOperation == {"deliver", "remove"}

DeliveryRecord == [generation : Nat, state : DeliveryState, operation : DeliveryOperation]

NewDelivery(gen) == [generation |-> gen, state |-> "pending", operation |-> "deliver"]

\* TransitionTo answers ErrIllegalStateTransition when this is false.
TransitionLegal(d, s) ==
    \/ d.state = s
    \/ /\ ~IsTerminal(d.state)
       /\ ~IsTerminal(s) => DeliveryStateOrder[s] > DeliveryStateOrder[d.state]

TransitionTo(d, s) == [d EXCEPT !.state = s]

\* Redispatch, whose caller has seen that the generation advances.
Redispatch(d, gen) == NewDelivery(gen)

\* Withdraw: the refusal, the (false, nil) result, and the (true, nil) one.
WithdrawRefused(d, gen)  == gen < d.generation
WithdrawModifies(d, gen) == ~(gen = d.generation /\ ~IsTerminal(d.state))
Withdraw(d, gen) == [generation |-> gen, state |-> "pending", operation |-> "remove"]

\* ResetForRetry keeps the generation and the operation.
ResetForRetry(d) == [d EXCEPT !.state = "pending"]

\* Retry asks for a re-dispatch of what no agent has acknowledged.
Retry(d, gen) == d.generation = gen /\ d.state = "pending"
=============================================================================
