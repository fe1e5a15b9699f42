------------------------------ MODULE MCCheckCalls ------------------------------
(***************************************************************************)
(* The check calls for TLC: the price service can move to another account, *)
(* availability can be deployed with another asset, verification with      *)
(* another slot.                                                           *)
(***************************************************************************)
EXTENDS CheckCalls

LOCAL Config(payTo, asset, slot) == [payTo |-> payTo, asset |-> asset, slot |-> slot]

Configurations ==
    [price |-> {Config("p", "usdc", 1), Config("moved", "usdc", 1)},
     availability |-> {Config("a", "usdc", 2), Config("a", "other", 2)},
     verification |-> {Config("v", "usdc", 3), Config("v", "usdc", 1)}]

Deployment ==
    [price |-> Config("p", "usdc", 1), availability |-> Config("a", "usdc", 2),
     verification |-> Config("v", "usdc", 3)]

LOCAL Sure(t) == [tier |-> t, confidence |-> "confirmed", certainty |-> 99]
LOCAL Unsure(t) == [tier |-> t, confidence |-> "ambiguous", certainty |-> 60]

\* Price is sure at once; the others need the standard tier.
TwoRoundAnswers ==
    [c \in Check |-> [t \in Tier |->
        IF t = "shallow" /\ c # "price" THEN {Unsure(t)} ELSE {Sure(t)}]]
================================================================================
