------------------------------ MODULE MCAddons ------------------------------
(* Model-checking instance of AddonManager: an addon with two resource types, *)
(* one of which comes under two packages and with one or two capabilities,    *)
(* and an addon that shares a collection with it.                             *)
EXTENDS AddonManager

MCTypes == {<<"a", 1>>, <<"a", 2>>, <<"b", 1>>}
MCSchemas ==
    {[type |-> <<"a", 1>>, pkg |-> 1, caps |-> {"management"}],
     [type |-> <<"a", 1>>, pkg |-> 1, caps |-> {"management", "inventory"}],
     [type |-> <<"a", 1>>, pkg |-> 2, caps |-> {"management"}],
     [type |-> <<"a", 2>>, pkg |-> 1, caps |-> {}],
     [type |-> <<"a", 2>>, pkg |-> 1, caps |-> {"inventory"}],
     [type |-> <<"b", 1>>, pkg |-> 1, caps |-> {"management"}]}
=============================================================================
