---------------------------- MODULE MCServiceRegistry ----------------------------
(***************************************************************************)
(* The service registry for TLC: four endpoints, two of them with the      *)
(* same id, two accounts, and a group with room for two services.          *)
(***************************************************************************)
EXTENDS ServiceRegistry, TLC

LOCAL AskOn(network, amount, payTo) ==
    [network |-> network, amount |-> amount, payTo |-> payTo, scheme |-> "exact",
     asset |-> "usdc"]
LOCAL Ask(amount, payTo) == AskOn("algorand", amount, payTo)

Ids == [u1 |-> "i1", u2 |-> "i1", u3 |-> "i3", u4 |-> "i4"]

CheckAccounts == <<"c1", "c2", "c3">>
RoundFees == {<<1, 1, 1>>, <<1, 1, 3>>}

\* The first service raises its fee, and lists a dear option before a cheap one.
ServiceOffers ==
    [u1 |-> {<<Ask(2, "a"), AskOn("base", 1, "a"), Ask(1, "a")>>, <<Ask(2, "a")>>},
     u2 |-> {<<Ask(NotAtomic, "b"), Ask(1, "b")>>},
     u3 |-> {<<Ask(2, "a")>>},
     u4 |-> {<<Ask(1, "b")>>}]

HandlerSymmetry == Permutations(Handler)
================================================================================
