---------------------------- MODULE AtomicSettlement ----------------------------
(***************************************************************************)
(* What the system promises about money, without saying how.  A purchase   *)
(* has its parties, fixed before the first of them agrees, and is paid     *)
(* through one atomic group.  Parties agree, for a purchase, to their      *)
(* payment in a group; a group to which all parties of a purchase agreed   *)
(* may be submitted, once for the purchase; what was submitted may be      *)
(* paid, whole, and stays paid.                                            *)
(***************************************************************************)
CONSTANTS Purchase, Group, Everyone

VARIABLES
    parties,     \* parties[x]: whose agreement purchase x needs
    agreed,      \* <<x, g, p>>: party p agreed, for x, to its payment in group g
    sent,        \* the submissions: a purchase, a group and an attempt number
    paid         \* the submissions whose group is on chain

vars == <<parties, agreed, sent, paid>>

Unanimous(x, g) == \A p \in parties[x] : <<x, g, p>> \in agreed
Unsubmitted(x) == \A m \in sent : m.run # x

Init ==
    /\ parties \in [Purchase -> SUBSET Everyone]
    /\ agreed = {} /\ sent = {} /\ paid = {}

\* A purchase begins: its parties are named.
Begin(x) ==
    /\ \A a \in agreed : a[1] # x
    /\ \E P \in SUBSET Everyone : parties' = [parties EXCEPT ![x] = P]
    /\ UNCHANGED <<agreed, sent, paid>>

\* Some parties of a purchase agree to a group; agreement is never withdrawn.
Agree(x, g) ==
    /\ agreed \subseteq agreed'
    /\ agreed' \ agreed \subseteq {x} \X {g} \X parties[x]
    /\ UNCHANGED <<parties, sent, paid>>

\* The one submission of a purchase.
Submit(x, g) ==
    /\ Unanimous(x, g) /\ Unsubmitted(x)
    /\ sent' = sent \union {[run |-> x, group |-> g, no |-> 1]}
    /\ UNCHANGED <<parties, agreed, paid>>

Pay(m) ==
    /\ paid' = paid \union {m}
    /\ UNCHANGED <<parties, agreed, sent>>

Next ==
    \/ \E x \in Purchase : Begin(x) \/ \E g \in Group : Agree(x, g) \/ Submit(x, g)
    \/ \E m \in sent : Pay(m)

Spec == Init /\ [][Next]_vars
================================================================================
