------------------------------ MODULE SpendPolicy ------------------------------
(***************************************************************************)
(* The tier ladder and the agent's spending rules: what one answer costs,  *)
(* when an answer is worth replacing by a deeper one, and which tiers the  *)
(* next round buys.  A verdict is what a check concluded (confidence), how *)
(* sure it is (certainty, in percent) and the tier that produced it; the   *)
(* reasons and rationales shown to the user are left out.                  *)
(***************************************************************************)
EXTENDS Integers

CONSTANTS
    Budget,          \* policy.budgetAtomic, in atomic units of the asset
    EscalateBelow,   \* policy.escalateBelow, in percent
    ReservePercent,  \* policy.reserveFraction, in percent
    NoAnswer         \* in place of a verdict: the check did not answer

Tier == {"shallow", "standard", "deep"}
Check == {"price", "availability", "verification"}
Confidence == {"confirmed", "ambiguous", "refuted"}
Verdict == [tier : Tier, confidence : Confidence, certainty : 0 .. 100]

\* The verdicts of a round.  The code lists those that came; a check that did
\* not answer is missing from the list.
Verdicts == [Check -> Verdict \union {NoAnswer}]
NoVerdicts == [c \in Check |-> NoAnswer]

TierFee == [shallow |-> 10000, standard |-> 50000, deep |-> 200000]

\* The fees of the three check payments of a group bought at these tiers.
FeesOf(tiers) ==
    TierFee[tiers["price"]] + TierFee[tiers["availability"]] + TierFee[tiers["verification"]]

OpeningTiers == [c \in Check |-> "shallow"]

Reserve == (Budget * ReservePercent) \div 100

\* A budget from which the opening round can be paid with the reserve intact.
ASSUME PolicyAssumption ==
    /\ Budget \in Nat
    /\ EscalateBelow \in 0 .. 100
    /\ ReservePercent \in 0 .. 100
    /\ FeesOf(OpeningTiers) + Reserve <= Budget
    /\ NoAnswer \notin Verdict
--------------------------------------------------------------------------------
\* The deeper tier of rule 3; a deep answer has none and maps to itself.
NextTier == [shallow |-> "standard", standard |-> "deep", deep |-> "deep"]

\* Slip: a refusal is not told apart from a doubt.
EscalatesRefused(verdict, spent) ==
    /\ verdict.certainty < EscalateBelow
    /\ verdict.tier # "deep"
    /\ Budget - spent - TierFee[NextTier[verdict.tier]] >= Reserve

\* decideEscalation: a refusal is final, a sure answer is kept, a deep one has
\* nothing below it, and the reserve must survive the purchase.
Escalates(verdict, spent) ==
    /\ verdict.confidence # "refuted"
    /\ verdict.certainty < EscalateBelow
    /\ verdict.tier # "deep"
    /\ Budget - spent - TierFee[NextTier[verdict.tier]] >= Reserve

\* The checks are considered in the order their verdicts are listed, and each
\* purchase is charged before the next check is considered.
SpentAfter(c, verdicts, spent) ==
    IF verdicts[c] # NoAnswer /\ Escalates(verdicts[c], spent)
    THEN spent + TierFee[NextTier[verdicts[c].tier]]
    ELSE spent

\* Slip: every purchase of a round is judged by what was spent before the round.
SpentBeforeRound(c, verdicts, spent) == spent

SpentBefore(c, verdicts, spent) ==
    LET afterPrice == SpentAfter("price", verdicts, spent)
        afterAvailability == SpentAfter("availability", verdicts, afterPrice)
    IN  CASE c = "price" -> spent
          [] c = "availability" -> afterPrice
          [] c = "verification" -> afterAvailability

PlanBuys(c, verdicts, spent) ==
    verdicts[c] # NoAnswer /\ Escalates(verdicts[c], SpentBefore(c, verdicts, spent))

\* planEscalation returns a plan only when some check is escalated.
PlanExists(verdicts, spent) == \E c \in Check : PlanBuys(c, verdicts, spent)

PlannedTiers(verdicts, spent, tiers) ==
    [c \in Check |-> IF PlanBuys(c, verdicts, spent)
                     THEN NextTier[verdicts[c].tier] ELSE tiers[c]]

\* recordRound adds the cost of the whole plan to the ledger.
SpentAfterPlan(verdicts, spent) ==
    SpentAfter("verification", verdicts, SpentBefore("verification", verdicts, spent))

\* Every check answered, and every answer is a confirmation.
Confirmed(verdict) == verdict # NoAnswer /\ verdict.confidence = "confirmed"
AllConfirmed(verdicts) == \A c \in Check : Confirmed(verdicts[c])
================================================================================
