---------------------------- MODULE SpendPolicyProofs ----------------------------
(***************************************************************************)
(* What the spending rules compute, for any budget, reserve and threshold: *)
(* the types of the tier ladder and of a plan, and that what a plan adds   *)
(* to the ledger covers the fees it adds and leaves the reserve alone.     *)
(***************************************************************************)
EXTENDS SpendPolicy, TLAPS
--------------------------------------------------------------------------------
(* Types. *)

\* The tier ladder's own types.
LEMMA LadderTypes ==
    /\ TierFee \in [Tier -> Nat] /\ NextTier \in [Tier -> Tier]
    /\ OpeningTiers \in [Check -> Tier] /\ NoVerdicts \in Verdicts
    /\ \A tiers \in [Check -> Tier] : FeesOf(tiers) \in Nat
<1>1. TierFee \in [Tier -> Nat] /\ NextTier \in [Tier -> Tier]
  BY DEF TierFee, NextTier, Tier
<1>2. OpeningTiers \in [Check -> Tier] /\ NoVerdicts \in Verdicts
  BY DEF OpeningTiers, NoVerdicts, Verdicts, Tier
<1>3. ASSUME NEW tiers \in [Check -> Tier] PROVE FeesOf(tiers) \in Nat
  <2>1. /\ tiers["price"] \in Tier /\ tiers["availability"] \in Tier
        /\ tiers["verification"] \in Tier
    BY DEF Check
  <2>2. QED BY <1>1, <2>1 DEF FeesOf
<1>4. QED BY <1>1, <1>2, <1>3

\* A plan leaves the ledger a natural number and every check a tier.
LEMMA PlanTypes ==
    ASSUME NEW v \in Verdicts, NEW spent \in Nat, NEW tiers \in [Check -> Tier]
    PROVE  /\ SpentAfterPlan(v, spent) \in Nat
           /\ PlannedTiers(v, spent, tiers) \in [Check -> Tier]
<1>1. \A c \in Check : v[c] # NoAnswer => v[c].tier \in Tier
  BY DEF Verdicts, Verdict
<1>2. \A c \in Check, s \in Nat : SpentAfter(c, v, s) \in Nat
  BY <1>1, LadderTypes DEF SpentAfter
<1>3. SpentAfterPlan(v, spent) \in Nat
  BY <1>2 DEF SpentAfterPlan, SpentBefore, Check
<1>4. PlannedTiers(v, spent, tiers) \in [Check -> Tier]
  BY <1>1, LadderTypes DEF PlannedTiers, PlanBuys
<1>5. QED BY <1>3, <1>4
--------------------------------------------------------------------------------
(* The ledger. *)

\* The reserve is a natural number, and the ladder's fees tell its tiers apart.
LEMMA ReserveType == Reserve \in Nat
<1>1. Budget \in Nat /\ ReservePercent \in Nat
  BY PolicyAssumption
<1>2. \A m, n \in Nat : m * n \in Nat
  OBVIOUS
<1>3. \A n \in Nat : n \div 100 \in Nat
  OBVIOUS
<1>4. QED BY <1>1, <1>2, <1>3 DEF Reserve

LEMMA FeeDecidesTier == \A s, t \in Tier : TierFee[s] = TierFee[t] => s = t
  BY DEF TierFee, Tier

\* Charging one check: either nothing is bought, or the deeper tier is, and then
\* the reserve survives.
LEMMA OneCheck ==
    ASSUME NEW c \in Check, NEW v \in Verdicts, NEW s \in Nat, s <= Budget - Reserve
    PROVE  LET buys == v[c] # NoAnswer /\ Escalates(v[c], s)
               fee == TierFee[NextTier[v[c].tier]]
           IN  /\ SpentAfter(c, v, s) \in Nat /\ SpentAfter(c, v, s) <= Budget - Reserve
               /\ buys => fee \in Nat /\ SpentAfter(c, v, s) = s + fee
               /\ ~buys => SpentAfter(c, v, s) = s
<1>1. CASE v[c] # NoAnswer /\ Escalates(v[c], s)
  <2>1. v[c].tier \in Tier
    BY <1>1 DEF Verdicts, Verdict
  <2>2. PICK fee \in Nat : fee = TierFee[NextTier[v[c].tier]]
    BY <2>1, LadderTypes
  <2>3. Budget - s - fee >= Reserve
    BY <1>1, <2>2 DEF Escalates
  <2>4. s + fee <= Budget - Reserve
    BY <2>2, <2>3, ReserveType, PolicyAssumption
  <2>5. SpentAfter(c, v, s) = s + fee
    BY <1>1, <2>2 DEF SpentAfter
  <2>6. QED BY <1>1, <2>2, <2>4, <2>5
<1>2. CASE ~(v[c] # NoAnswer /\ Escalates(v[c], s))
  BY <1>2 DEF SpentAfter
<1>3. QED BY <1>1, <1>2

\* However much a plan buys, the reserve survives it.
LEMMA PlanWithin ==
    ASSUME NEW v \in Verdicts, NEW spent \in Nat, spent <= Budget - Reserve
    PROVE  SpentAfterPlan(v, spent) \in Nat /\ SpentAfterPlan(v, spent) <= Budget - Reserve
<1>1. \A c \in Check, s \in Nat : s <= Budget - Reserve =>
        SpentAfter(c, v, s) \in Nat /\ SpentAfter(c, v, s) <= Budget - Reserve
  BY OneCheck
<1>2. QED BY <1>1 DEF SpentAfterPlan, SpentBefore, Check

\* What a plan adds to the ledger covers what it adds to the group's fees.
LEMMA PlanPaid ==
    ASSUME NEW v \in Verdicts, NEW spent \in Nat, NEW tiers \in [Check -> Tier],
           spent <= Budget - Reserve, FeesOf(tiers) <= spent
    PROVE  /\ SpentAfterPlan(v, spent) <= Budget - Reserve
           /\ FeesOf(PlannedTiers(v, spent, tiers)) <= SpentAfterPlan(v, spent)
<1>1. /\ "price" \in Check /\ "availability" \in Check /\ "verification" \in Check
  BY DEF Check
<1>2. PICK s1 \in Nat : s1 = SpentAfter("price", v, spent) /\ s1 <= Budget - Reserve
  BY <1>1, OneCheck
<1>3. PICK s2 \in Nat : s2 = SpentAfter("availability", v, s1) /\ s2 <= Budget - Reserve
  BY <1>1, <1>2, OneCheck
<1>4. PICK s3 \in Nat : s3 = SpentAfter("verification", v, s2) /\ s3 <= Budget - Reserve
  BY <1>1, <1>3, OneCheck
<1>5. /\ SpentBefore("price", v, spent) = spent /\ SpentBefore("availability", v, spent) = s1
      /\ SpentBefore("verification", v, spent) = s2
  BY <1>2, <1>3 DEF SpentBefore
<1>6. SpentAfterPlan(v, spent) = s3
  BY <1>4, <1>5 DEF SpentAfterPlan
<1>7. PICK planned \in [Check -> Tier] : planned = PlannedTiers(v, spent, tiers)
  BY PlanTypes
<1>8. \A t \in Tier : TierFee[t] \in Nat
  BY LadderTypes
<1>9. TierFee[planned["price"]] - TierFee[tiers["price"]] <= s1 - spent
  BY <1>1, <1>2, <1>5, <1>7, <1>8, OneCheck DEF PlannedTiers, PlanBuys
<1>10. TierFee[planned["availability"]] - TierFee[tiers["availability"]] <= s2 - s1
  BY <1>1, <1>2, <1>3, <1>5, <1>7, <1>8, OneCheck DEF PlannedTiers, PlanBuys
<1>11. TierFee[planned["verification"]] - TierFee[tiers["verification"]] <= s3 - s2
  BY <1>1, <1>3, <1>4, <1>5, <1>7, <1>8, OneCheck DEF PlannedTiers, PlanBuys
<1>12. FeesOf(planned) <= s3
  <2>1. \A c \in Check : TierFee[planned[c]] \in Nat /\ TierFee[tiers[c]] \in Nat
    BY <1>8
  <2>2. QED BY <1>1, <1>9, <1>10, <1>11, <2>1 DEF FeesOf
<1>13. QED BY <1>4, <1>6, <1>7, <1>12
================================================================================
