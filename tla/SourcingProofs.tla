----------------------------- MODULE SourcingProofs -----------------------------
(***************************************************************************)
(* What the rounds of an order come to, for every set of orders and every  *)
(* start day.  First the calendar of the availability service, whose       *)
(* addWorkingDays is given a closed form; then what each domain function   *)
(* answers; then the invariants of the run; last, what the check digit of  *)
(* a tax number is worth.                                                  *)
(***************************************************************************)
EXTENDS Sourcing, SpendPolicyProofs, FiniteSetTheorems, WellFoundedInduction
--------------------------------------------------------------------------------
(* Working days. *)

\* The weekdays up to a day, counted from the week before day 0, and the day on
\* which a count is reached.
CountTo(day) == 5 * ((day + 4) \div 7) + (IF (day + 4) % 7 = 6 THEN 5 ELSE (day + 4) % 7)
NthDay(n) == 7 * ((n - 1) \div 5) + ((n - 1) % 5) - 3

\* The day that is a number of weekdays after another.
Target(from, days) == IF days = 0 THEN from ELSE NthDay(CountTo(from) + days)
TargetOf == [from \in Nat |-> [days \in Nat |-> Target(from, days)]]

\* The equation addWorkingDays is the loop for.
Solves(f) ==
    f = [from \in Nat |-> [days \in Nat |->
            IF days = 0 THEN from
            ELSE f[from + 1][IF WorkingDay(from + 1) THEN days - 1 ELSE days]]]

\* A weekday raises the count by one and is the day that count is reached on; a
\* Saturday or Sunday leaves it alone.
LEMMA CountStep ==
    ASSUME NEW d \in Nat
    PROVE  /\ CountTo(d) \in Nat \ {0}
           /\ WorkingDay(d + 1) => CountTo(d + 1) = CountTo(d) + 1 /\ NthDay(CountTo(d + 1)) = d + 1
           /\ ~WorkingDay(d + 1) => CountTo(d + 1) = CountTo(d)
BY DEF CountTo, WorkingDay, NthDay

\* The day a higher count is reached on is a later one, and has that count.
LEMMA NthIsLater ==
    ASSUME NEW d \in Nat, NEW n \in Nat \ {0}
    PROVE  /\ NthDay(CountTo(d) + n) \in Nat /\ NthDay(CountTo(d) + n) > d
           /\ CountTo(NthDay(CountTo(d) + n)) = CountTo(d) + n
BY DEF CountTo, NthDay

LEMMA TargetSolves == Solves(TargetOf)
<1>1. ASSUME NEW from \in Nat, NEW days \in Nat
      PROVE  Target(from, days) = IF days = 0 THEN from
              ELSE TargetOf[from + 1][IF WorkingDay(from + 1) THEN days - 1 ELSE days]
  <2>1. CASE days = 0
    BY <2>1 DEF Target
  <2>2. CASE days # 0
    <3>1. from + 1 \in Nat /\ days - 1 \in Nat
      BY <2>2
    <3>2. CASE WorkingDay(from + 1)
      <4>1. TargetOf[from + 1][days - 1] = Target(from + 1, days - 1)
        BY <3>1 DEF TargetOf
      <4>2. Target(from + 1, days - 1) = Target(from, days)
        <5>1. CountTo(from) \in Nat
          BY CountStep
        <5>2. CASE days = 1
          BY <2>2, <3>2, <5>1, <5>2, CountStep DEF Target
        <5>3. CASE days # 1
          <6>1. CountTo(from + 1) + (days - 1) = CountTo(from) + days
            BY <3>2, <5>1, CountStep
          <6>2. QED BY <2>2, <5>3, <6>1 DEF Target
        <5>4. QED BY <5>2, <5>3
      <4>3. QED BY <2>2, <3>2, <4>1, <4>2
    <3>3. CASE ~WorkingDay(from + 1)
      <4>1. TargetOf[from + 1][days] = Target(from + 1, days)
        BY <3>1 DEF TargetOf
      <4>2. QED BY <2>2, <3>3, <4>1, CountStep DEF Target
    <3>4. QED BY <3>2, <3>3
  <2>3. QED BY <2>1, <2>2
<1>2. QED BY <1>1 DEF Solves, TargetOf

\* So the function is well defined: some function satisfies its equation.
LEMMA AddWorkingDaysSolves == Solves(AddWorkingDays)
<1>1. AddWorkingDays = CHOOSE f : Solves(f)
  BY Zenon DEF AddWorkingDays, Solves
<1>2. QED BY <1>1, TargetSolves

\* Every nonempty set of numbers has a least one.
LEMMA LeastNumber ==
    ASSUME NEW S \in SUBSET Nat, S # {}
    PROVE  \E n \in S : \A m \in S : n <= m
<1>1. PICK n \in S : \A m \in S : ~(<<m, n>> \in OpToRel(<, Nat))
  BY NatLessThanWellFounded, WFMin
<1>2. \A m \in S : ~(m < n)
  BY <1>1 DEF OpToRel
<1>3. QED BY <1>2

\* addWorkingDays in closed form.  Of the cases where the two differ, take one
\* whose answer is the fewest days away: the loop's next case is nearer.
LEMMA AddWorkingDaysIs ==
    ASSUME NEW from \in Nat, NEW days \in Nat
    PROVE  AddWorkingDays[from][days] = Target(from, days)
<1> DEFINE Away(f, d) == Target(f, d) - f
           Wrong == {n \in Nat : \E f, d \in Nat :
                        Away(f, d) = n /\ AddWorkingDays[f][d] # Target(f, d)}
<1>1. ASSUME NEW f \in Nat, NEW d \in Nat
      PROVE  Away(f, d) \in Nat
  <2>1. CASE d = 0 BY <2>1 DEF Target
  <2>2. CASE d # 0
    <3>1. NthDay(CountTo(f) + d) \in Nat /\ NthDay(CountTo(f) + d) > f
      BY <2>2, NthIsLater
    <3>2. QED BY <2>2, <3>1 DEF Target
  <2>3. QED BY <2>1, <2>2
<1>2. ASSUME NEW f \in Nat, NEW d \in Nat
      PROVE  /\ AddWorkingDays[f][d] =
                    IF d = 0 THEN f
                    ELSE AddWorkingDays[f + 1][IF WorkingDay(f + 1) THEN d - 1 ELSE d]
             /\ Target(f, d) =
                    IF d = 0 THEN f
                    ELSE Target(f + 1, IF WorkingDay(f + 1) THEN d - 1 ELSE d)
  <2>1. AddWorkingDays[f][d] =
            IF d = 0 THEN f ELSE AddWorkingDays[f + 1][IF WorkingDay(f + 1) THEN d - 1 ELSE d]
    BY AddWorkingDaysSolves DEF Solves
  <2>2. TargetOf[f][d] =
            IF d = 0 THEN f ELSE TargetOf[f + 1][IF WorkingDay(f + 1) THEN d - 1 ELSE d]
    BY TargetSolves DEF Solves
  <2>3. f + 1 \in Nat /\ d # 0 => (IF WorkingDay(f + 1) THEN d - 1 ELSE d) \in Nat
    OBVIOUS
  <2>4. QED BY <2>1, <2>2, <2>3 DEF TargetOf
<1>3. ASSUME Wrong # {} PROVE FALSE
  <2>1. PICK n \in Wrong : \A m \in Wrong : n <= m
    BY <1>3, LeastNumber
  <2>2. PICK f \in Nat, d \in Nat : Away(f, d) = n /\ AddWorkingDays[f][d] # Target(f, d)
    BY <2>1
  <2>3. d # 0
    BY <1>2, <2>2
  <2>4. PICK e \in Nat : e = IF WorkingDay(f + 1) THEN d - 1 ELSE d
    BY <2>3
  <2>5. Target(f, d) = Target(f + 1, e) /\ AddWorkingDays[f + 1][e] # Target(f + 1, e)
    BY <1>2, <2>2, <2>3, <2>4
  <2>6. f + 1 \in Nat /\ Away(f + 1, e) \in Nat /\ Away(f, d) \in Nat
    <3>1. f + 1 \in Nat OBVIOUS
    <3>2. QED BY <1>1, <3>1
  <2>7. Away(f + 1, e) \in Wrong
    BY <2>5, <2>6
  <2>8. Away(f + 1, e) = Away(f, d) - 1
    <3>1. Target(f, d) \in Int
      BY DEF Target, NthDay, CountTo
    <3>2. QED BY <2>5, <3>1
  <2>9. QED BY <2>1, <2>2, <2>6, <2>7, <2>8
<1>4. Away(from, days) \in Nat
  BY <1>1
<1>5. QED BY <1>3, <1>4

\* The weekdays between two days, counted.
LEMMA WeekdaysCounted ==
    ASSUME NEW a \in Nat, NEW b \in Nat, a <= b
    PROVE  Cardinality(Weekdays((a + 1) .. b)) = CountTo(b) - CountTo(a)
<1> DEFINE Days(k) == Weekdays((a + 1) .. k)
           Wrong == {k \in Nat : a <= k /\ Cardinality(Days(k)) # CountTo(k) - CountTo(a)}
<1>1. ASSUME NEW k \in Nat
      PROVE  IsFiniteSet(Days(k))
  <2>1. IsFiniteSet((a + 1) .. k) /\ Days(k) \subseteq (a + 1) .. k
    BY FS_Interval DEF Weekdays
  <2>2. QED BY <2>1, FS_Subset
<1>2. Days(a) = {}
  BY DEF Weekdays
<1>3. ASSUME NEW k \in Nat, a <= k
      PROVE  Cardinality(Days(k + 1)) = Cardinality(Days(k)) + (CountTo(k + 1) - CountTo(k))
  <2>1. CASE WorkingDay(k + 1)
    <3>1. Days(k + 1) = Days(k) \cup {k + 1}
      BY <1>3, <2>1 DEF Weekdays, WorkingDay
    <3>2. k + 1 \notin Days(k)
      BY DEF Weekdays
    <3>3. Cardinality(Days(k + 1)) = Cardinality(Days(k)) + 1
      BY <1>1, <3>1, <3>2, FS_AddElement
    <3>4. CountTo(k) \in Nat /\ CountTo(k + 1) = CountTo(k) + 1
      BY <2>1, CountStep
    <3>5. QED BY <3>3, <3>4
  <2>2. CASE ~WorkingDay(k + 1)
    <3>1. Days(k + 1) = Days(k)
      BY <1>3, <2>2 DEF Weekdays, WorkingDay
    <3>2. CountTo(k) \in Nat /\ CountTo(k + 1) = CountTo(k)
      BY <2>2, CountStep
    <3>3. Cardinality(Days(k)) \in Nat
      BY <1>1, FS_CardinalityType
    <3>4. QED BY <3>1, <3>2, <3>3
  <2>3. QED BY <2>1, <2>2
<1>4. ASSUME Wrong # {} PROVE FALSE
  <2>1. PICK k \in Wrong : \A m \in Wrong : k <= m
    BY <1>4, LeastNumber
  <2>2. k # a
    <3>1. CountTo(a) \in Nat /\ Cardinality(Days(a)) = 0
      BY <1>2, FS_EmptySet, CountStep
    <3>2. QED BY <2>1, <3>1
  <2>3. k - 1 \in Nat /\ a <= k - 1
    BY <2>1, <2>2
  <2>4. Cardinality(Days(k - 1)) = CountTo(k - 1) - CountTo(a)
    BY <2>1, <2>3
  <2>5. Cardinality(Days((k - 1) + 1)) = Cardinality(Days(k - 1)) + (CountTo((k - 1) + 1) - CountTo(k - 1))
    BY <1>3, <2>3
  <2>6. (k - 1) + 1 = k
    BY <2>1
  <2>7. CountTo(k) \in Nat /\ CountTo(k - 1) \in Nat /\ CountTo(a) \in Nat
    BY <2>1, <2>3, CountStep
  <2>8. Cardinality(Days(k)) = CountTo(k) - CountTo(a)
    BY <2>4, <2>5, <2>6, <2>7
  <2>9. QED BY <2>1, <2>8
<1>5. QED BY <1>4

\* A later deadline leaves at least the weekdays an earlier one does.
LEMMA CountGrows ==
    ASSUME NEW a \in Nat, NEW b \in Nat, a <= b
    PROVE  CountTo(a) <= CountTo(b)
BY DEF CountTo

\* A higher count is reached later, and a wait that starts later ends no sooner.
LEMMA NthGrows ==
    ASSUME NEW m \in Nat \ {0}, NEW n \in Nat \ {0}, m <= n
    PROVE  NthDay(m) <= NthDay(n)
BY DEF NthDay

LEMMA TargetGrows ==
    ASSUME NEW a \in Nat, NEW b \in Nat, a <= b, NEW days \in Nat
    PROVE  Target(a, days) <= Target(b, days)
<1>1. CASE days = 0
  BY <1>1 DEF Target
<1>2. CASE days # 0
  <2>1. /\ CountTo(a) + days \in Nat \ {0} /\ CountTo(b) + days \in Nat \ {0}
        /\ CountTo(a) + days <= CountTo(b) + days
    BY CountStep, CountGrows
  <2>2. NthDay(CountTo(a) + days) <= NthDay(CountTo(b) + days)
    BY <2>1, NthGrows
  <2>3. QED BY <1>2, <2>2 DEF Target
<1>3. QED BY <1>1, <1>2

\* What addWorkingDays(from, days) computes, however far it goes: the day `days`
\* weekdays later and no later one, which for a wait of a day or more is itself a
\* weekday; and a wait that starts later does not end sooner.
THEOREM WorkingDaysTheorem ==
    ASSUME NEW from \in Nat, NEW days \in Nat
    PROVE  /\ AddWorkingDays[from][days] \in Nat
           /\ AddWorkingDays[from][days] >= from
           /\ Cardinality(Weekdays((from + 1) .. AddWorkingDays[from][days])) = days
           /\ days > 0 => WorkingDay(AddWorkingDays[from][days])
           /\ \A later \in Nat : from <= later =>
                AddWorkingDays[from][days] <= AddWorkingDays[later][days]
<1>1. PICK end : end = AddWorkingDays[from][days] /\ end = Target(from, days)
  BY AddWorkingDaysIs
<1>2. \A later \in Nat : from <= later => end <= AddWorkingDays[later][days]
  BY <1>1, AddWorkingDaysIs, TargetGrows
<1>3. CASE days = 0
  <2>1. end = from
    BY <1>1, <1>3 DEF Target
  <2>2. Cardinality(Weekdays((from + 1) .. from)) = CountTo(from) - CountTo(from)
    BY WeekdaysCounted
  <2>3. QED BY <1>1, <1>2, <1>3, <2>1, <2>2, CountStep
<1>4. CASE days # 0
  <2>1. end = NthDay(CountTo(from) + days)
    BY <1>1, <1>4 DEF Target
  <2>2. end \in Nat /\ end > from /\ CountTo(end) = CountTo(from) + days
    BY <1>4, <2>1, NthIsLater
  <2>3. Cardinality(Weekdays((from + 1) .. end)) = CountTo(end) - CountTo(from)
    BY <2>2, WeekdaysCounted
  <2>4. WorkingDay(end)
    BY <1>4, <2>1 DEF WorkingDay, NthDay, CountTo
  <2>5. CountTo(from) \in Nat
    BY CountStep
  <2>6. QED BY <1>1, <1>2, <2>2, <2>3, <2>4, <2>5
<1>5. QED BY <1>3, <1>4

--------------------------------------------------------------------------------
(* What the domain functions answer. *)

\* Figures are natural numbers and no supplier lists goods twice, so that the
\* entry found is the only one.
LEMMA CatalogueFacts ==
    /\ \A e \in CATALOGUE : e.cached \in Nat /\ e.live \in Nat /\ e.discount \in Nat /\ e.age \in Nat
    /\ \A e, f \in CATALOGUE : e.sku = f.sku /\ e.supplier = f.supplier => e = f
BY DEF CATALOGUE, CatalogueEntry

LEMMA LedgerFacts ==
    /\ \A r \in LEDGER : /\ r.counted \in Nat /\ r.live \in Nat /\ r.reserved \in Nat
                         /\ r.pending \in Nat /\ r.age \in Nat /\ r.lead \in Nat
                         /\ r.pending = 0 => r.slotFree
    /\ \A r, s \in LEDGER : r.sku = s.sku /\ r.supplier = s.supplier => r = s
BY DEF LEDGER, StockRecord

LEMMA HistoryFacts ==
    /\ \A h \in SUPPLIER_HISTORY : h.orders \in Nat /\ h.disputes \in Nat /\ h.licence \in Nat
    /\ \A h, g \in SUPPLIER_HISTORY : h.supplier = g.supplier => h = g
BY DEF SUPPLIER_HISTORY, SupplierHistory

\* A verdict CheckAnswers lists for its check, up to the certainty of a refusal.
Listed(c, v) ==
    \E a \in ServiceAnswers[c][v.tier] :
        a.confidence = v.confidence /\ (v.confidence = "refuted" \/ a.certainty = v.certainty)

\* The lists of CheckAnswers, tier by tier.
LEMMA ListedAnswers ==
    ASSUME NEW c \in Check, NEW v \in Verdict
    PROVE  /\ v.confidence = "refuted" => Listed(c, v)
           /\ c = "price" => ServiceAnswers[c][v.tier] = PriceAnswers(v.tier)
           /\ c = "availability" => ServiceAnswers[c][v.tier] = AvailabilityAnswers(v.tier)
           /\ c = "verification" => ServiceAnswers[c][v.tier] = VerificationAnswers(v.tier)
<1>1. v.tier \in Tier
  BY DEF Verdict
<1>2. /\ c = "price" => ServiceAnswers[c][v.tier] = PriceAnswers(v.tier)
      /\ c = "availability" => ServiceAnswers[c][v.tier] = AvailabilityAnswers(v.tier)
      /\ c = "verification" => ServiceAnswers[c][v.tier] = VerificationAnswers(v.tier)
  BY <1>1 DEF ServiceAnswers, AnswersOf, Check, Tier
<1>3. /\ Refusal(v.tier) \in ServiceAnswers[c][v.tier]
      /\ Refusal(v.tier).confidence = "refuted"
  <2>1. Refusal(v.tier).confidence = "refuted"
    BY DEF Refusal, Answer
  <2>2. /\ Refusal(v.tier) \in PriceAnswers(v.tier) /\ Refusal(v.tier) \in AvailabilityAnswers(v.tier)
        /\ Refusal(v.tier) \in VerificationAnswers(v.tier)
    BY DEF PriceAnswers, AvailabilityAnswers, VerificationAnswers
  <2>3. QED BY <1>2, <2>1, <2>2 DEF Check
<1>4. QED BY <1>2, <1>3 DEF Listed

\* A price check confirms only what its tier sees at or below the ceiling.  From
\* the cache it is never surer than 68 percent, and what is neither refuted nor
\* cached is confirmed, with 90 percent or more.
LEMMA PriceOutcome ==
    ASSUME NEW o, o.ceiling \in Nat, NEW tier \in Tier,
           NEW v, v = RunPriceCheck(o, tier)
    PROVE  /\ v \in Verdict /\ v.tier = tier /\ Listed("price", v)
           /\ v.confidence = "confirmed" =>
                /\ PricesOf(o.sku, o.supplier) # {}
                /\ \A e \in PricesOf(o.sku, o.supplier) :
                    /\ SeenPrice(e, tier) <= o.ceiling
                    /\ tier = "shallow" => ~TooThin(e, o.ceiling)
           /\ v.confidence # "refuted" /\ tier = "shallow" => v.certainty < 69
           /\ v.confidence # "refuted" /\ tier # "shallow" => v.certainty >= 90
<1>1. CASE PricesOf(o.sku, o.supplier) = {}
  <2>1. v = [tier |-> tier, confidence |-> "refuted", certainty |-> 100]
    BY <1>1 DEF RunPriceCheck
  <2>2. v \in Verdict
    BY <2>1 DEF Verdict, Confidence
  <2>3. QED BY <2>1, <2>2, ListedAnswers DEF Check
<1>2. CASE PricesOf(o.sku, o.supplier) # {}
  <2>1. PICK e \in PricesOf(o.sku, o.supplier) : v = PriceVerdict(e, o.ceiling, tier)
    BY <1>2 DEF RunPriceCheck
  <2>2. /\ \A f \in PricesOf(o.sku, o.supplier) : f = e
        /\ e.cached \in Nat /\ e.live \in Nat /\ e.discount \in Nat
    BY <2>1, CatalogueFacts DEF PricesOf
  <2>3. PICK seen \in Int : seen = SeenPrice(e, tier)
    BY <2>2 DEF SeenPrice, Tier
  <2>4. \/ v = [tier |-> tier, confidence |-> "refuted", certainty |-> TierCertainty[tier]]
        \/ /\ seen <= o.ceiling /\ tier = "shallow"
           /\ v = [tier |-> tier, confidence |-> "ambiguous", certainty |-> 62]
        \/ /\ seen <= o.ceiling /\ ~(tier = "shallow" /\ TooThin(e, o.ceiling))
           /\ v = [tier |-> tier, confidence |-> "confirmed", certainty |-> TierCertainty[tier]]
    BY <2>1, <2>3 DEF PriceVerdict
  <2>5. /\ TierCertainty[tier] \in 0 .. 100
        /\ tier = "shallow" => TierCertainty[tier] = 68
        /\ tier = "standard" => TierCertainty[tier] = 90
        /\ tier = "deep" => TierCertainty[tier] = 99
    BY DEF TierCertainty, Tier
  <2>6. /\ v.tier = tier /\ v.confidence \in Confidence /\ v.certainty \in 0 .. 100
        /\ v.confidence = "refuted" \/ seen <= o.ceiling
        /\ v.confidence = "confirmed" => ~(tier = "shallow" /\ TooThin(e, o.ceiling))
        /\ v.confidence # "refuted" =>
            /\ tier = "shallow" =>
                \/ v.confidence = "ambiguous" /\ v.certainty = 62
                \/ v.confidence = "confirmed" /\ v.certainty = 68
            /\ tier = "standard" => v.confidence = "confirmed" /\ v.certainty = 90
            /\ tier = "deep" => v.confidence = "confirmed" /\ v.certainty = 99
    BY <2>4, <2>5 DEF Confidence, Tier
  <2>7. v \in Verdict
    BY <2>4, <2>6 DEF Verdict
  <2>8. Listed("price", v)
    <3>1. CASE v.confidence = "refuted"
      BY <2>7, <3>1, ListedAnswers DEF Check
    <3>2. CASE v.confidence # "refuted"
      <4>1. Answer(tier, v.confidence, v.certainty) \in PriceAnswers(tier)
        BY <2>6, <3>2 DEF PriceAnswers, Tier
      <4>2. ServiceAnswers["price"][v.tier] = PriceAnswers(tier)
        BY <2>6, <2>7, ListedAnswers DEF Check
      <4>3. QED BY <4>1, <4>2 DEF Listed, Answer
    <3>3. QED BY <3>1, <3>2
  <2>9. QED BY <1>2, <2>2, <2>3, <2>6, <2>7, <2>8 DEF Tier, Confidence
<1>3. QED BY <1>1, <1>2

\* A dispatch that starts later is no earlier, so what rules stock out today rules
\* it out on any later day.
LEMMA RuledOutStays ==
    ASSUME NEW o, o.requiredBy \in Nat, NEW r \in LEDGER, NEW day \in Nat, NEW later \in Nat,
           day <= later, NEW tier \in Tier, RuledOut(r, o, day, tier)
    PROVE  RuledOut(r, o, later, tier)
<1>1. PICK a \in Nat, b \in Nat : a = DispatchDay(r, day) /\ b = DispatchDay(r, later) /\ a <= b
  <2>1. r.lead \in Nat
    BY LedgerFacts
  <2>2. \A days \in Nat : /\ AddWorkingDays[day][days] \in Nat /\ AddWorkingDays[later][days] \in Nat
                          /\ AddWorkingDays[day][days] <= AddWorkingDays[later][days]
    BY WorkingDaysTheorem
  <2>3. QED BY <2>1, <2>2 DEF DispatchDay
<1>2. QED BY <1>1 DEF RuledOut

\* No such goods, or the tier rules them out.
OutOfStock(o, day, tier) ==
    \/ StockOf(o.sku, o.supplier) = {}
    \/ \E r \in StockOf(o.sku, o.supplier) : RuledOut(r, o, day, tier)

\* An availability check refuses exactly what its tier rules out.  From the last
\* count it is never surer than 68 percent; it confirms from the live quantity
\* only where nothing is pending.
LEMMA StockOutcome ==
    ASSUME NEW o, o.requiredBy \in Nat, NEW day \in Nat, NEW tier \in Tier,
           NEW v, v = RunAvailabilityCheck(o, day, tier)
    PROVE  /\ v \in Verdict /\ v.tier = tier /\ Listed("availability", v)
           /\ v.confidence = "refuted" <=> OutOfStock(o, day, tier)
           /\ v.confidence = "confirmed" /\ tier = "standard" =>
                \A r \in StockOf(o.sku, o.supplier) : r.pending = 0
           /\ v.confidence # "refuted" /\ tier = "shallow" => v.certainty < 69
<1>1. CASE StockOf(o.sku, o.supplier) = {}
  <2>1. v = [tier |-> tier, confidence |-> "refuted", certainty |-> 100]
    BY <1>1 DEF RunAvailabilityCheck
  <2>2. v \in Verdict
    BY <2>1 DEF Verdict, Confidence
  <2>3. QED BY <1>1, <2>1, <2>2, ListedAnswers DEF Check, OutOfStock
<1>2. CASE StockOf(o.sku, o.supplier) # {}
  <2>1. PICK r \in StockOf(o.sku, o.supplier) : v = StockVerdict(r, o, day, tier)
    BY <1>2 DEF RunAvailabilityCheck
  <2>2. /\ \A s \in StockOf(o.sku, o.supplier) : s = r
        /\ r.pending \in Nat /\ r.age \in Nat
    BY <2>1, LedgerFacts DEF StockOf
  <2>3. PICK sure \in 0 .. 100 :
            /\ sure = [shallow |-> 68, standard |-> 90, deep |-> 99][tier]
            /\ tier = "shallow" => sure = 68
            /\ tier = "standard" => sure = 90
            /\ tier = "deep" => sure = 99
    BY DEF Tier
  <2>4. \/ /\ RuledOut(r, o, day, tier)
           /\ v = [tier |-> tier, confidence |-> "refuted", certainty |-> sure]
        \/ /\ ~RuledOut(r, o, day, tier) /\ tier = "shallow"
           /\ v = [tier |-> tier, confidence |-> "ambiguous", certainty |-> 60]
        \/ /\ ~RuledOut(r, o, day, tier) /\ tier = "standard"
           /\ v = [tier |-> tier, confidence |-> "ambiguous", certainty |-> 72]
        \/ /\ ~RuledOut(r, o, day, tier) /\ ~(tier = "standard" /\ r.pending > 0)
           /\ v = [tier |-> tier, confidence |-> "confirmed", certainty |-> sure]
    BY <2>1, <2>3 DEF StockVerdict
  <2>5. /\ v.tier = tier /\ v.confidence \in Confidence /\ v.certainty \in 0 .. 100
        /\ v.confidence # "refuted" <=> ~RuledOut(r, o, day, tier)
        /\ v.confidence = "confirmed" => ~(tier = "standard" /\ r.pending > 0)
        /\ v.confidence # "refuted" =>
            /\ tier = "shallow" =>
                \/ v.confidence = "ambiguous" /\ v.certainty = 60
                \/ v.confidence = "confirmed" /\ v.certainty = 68
            /\ tier = "standard" =>
                \/ v.confidence = "ambiguous" /\ v.certainty = 72
                \/ v.confidence = "confirmed" /\ v.certainty = 90
            /\ tier = "deep" => v.confidence = "confirmed" /\ v.certainty = 99
    BY <2>3, <2>4 DEF Confidence, Tier
  <2>6. v \in Verdict
    BY <2>4, <2>5 DEF Verdict
  <2>7. Listed("availability", v)
    <3>1. CASE v.confidence = "refuted"
      BY <2>6, <3>1, ListedAnswers DEF Check
    <3>2. CASE v.confidence # "refuted"
      <4>1. Answer(tier, v.confidence, v.certainty) \in AvailabilityAnswers(tier)
        BY <2>5, <3>2 DEF AvailabilityAnswers, Tier
      <4>2. ServiceAnswers["availability"][v.tier] = AvailabilityAnswers(tier)
        BY <2>5, <2>6, ListedAnswers DEF Check
      <4>3. QED BY <4>1, <4>2 DEF Listed, Answer
    <3>3. QED BY <3>1, <3>2
  <2>8. OutOfStock(o, day, tier) <=> RuledOut(r, o, day, tier)
    BY <1>2, <2>2 DEF OutOfStock
  <2>9. QED BY <2>2, <2>5, <2>6, <2>7, <2>8 DEF Tier, Confidence
<1>3. QED BY <1>1, <1>2

\* A seller check confirms only at the deep tier, and only a supplier on file with
\* a well-formed number, few disputes and a licence valid that day.
LEMMA SellerOutcome ==
    ASSUME NEW o, o.supplier \in STRING, NEW day \in Nat, NEW tier \in Tier, NEW reply \in RegistryReply,
           NEW v, v = RunVerificationCheck(o, day, tier, reply)
    PROVE  /\ v \in Verdict /\ v.tier = tier /\ Listed("verification", v)
           /\ v.confidence = "confirmed" =>
                /\ tier = "deep" /\ HistoryOf(o.supplier) # {}
                /\ \A h \in HistoryOf(o.supplier) :
                    /\ ValidStructure(h.gstin) /\ h.licence >= day
                    /\ h.disputes <= MAX_ACCEPTABLE_DISPUTES
<1>1. CASE HistoryOf(o.supplier) = {}
  <2>1. v = [tier |-> tier, confidence |-> "refuted", certainty |-> 100]
    BY <1>1 DEF RunVerificationCheck
  <2>2. v \in Verdict
    BY <2>1 DEF Verdict, Confidence
  <2>3. QED BY <2>1, <2>2, ListedAnswers DEF Check
<1>2. CASE HistoryOf(o.supplier) # {}
  <2>1. PICK h \in HistoryOf(o.supplier) : v = SellerVerdict(h, day, tier, reply)
    BY <1>2 DEF RunVerificationCheck
  <2>2. /\ \A g \in HistoryOf(o.supplier) : g = h
        /\ h.disputes \in Nat /\ h.licence \in Nat
    BY <2>1, HistoryFacts DEF HistoryOf
  <2>3. CASE Conclusive(h, day, tier, reply)
    <3>1. v = [tier |-> tier, confidence |-> "refuted", certainty |-> 99]
      BY <2>1, <2>3 DEF SellerVerdict
    <3>2. v \in Verdict
      BY <3>1 DEF Verdict, Confidence
    <3>3. QED BY <3>1, <3>2, ListedAnswers DEF Check
  <2>4. CASE ~Conclusive(h, day, tier, reply)
    <3>1. PICK f : /\ f = Finding(h, tier, reply)
                   /\ v = [tier |-> tier, confidence |-> f.confidence, certainty |-> f.certainty]
      BY <2>1, <2>4 DEF SellerVerdict
    <3>2. /\ tier = "shallow" => f.confidence = "ambiguous" /\ f.certainty = 62
          /\ tier = "standard" =>
                f.confidence = "ambiguous" /\ (f.certainty = 60 \/ f.certainty = 82)
          /\ tier = "deep" =>
                \/ f.confidence = "confirmed" /\ (f.certainty = 99 \/ f.certainty = 88)
                \/ f.confidence = "ambiguous" /\ f.certainty = 65
      BY <3>1 DEF Finding, DeepFinding, RegistryReply
    <3>3. /\ v.tier = tier /\ v.confidence = f.confidence /\ v.certainty = f.certainty
          /\ v.confidence \in Confidence \ {"refuted"} /\ v.certainty \in 0 .. 100
      BY <3>1, <3>2 DEF Confidence, Tier
    <3>4. v \in Verdict
      BY <3>1, <3>3 DEF Verdict
    <3>5. Answer(tier, v.confidence, v.certainty) \in VerificationAnswers(tier)
      BY <3>2, <3>3 DEF VerificationAnswers, Tier
    <3>6. ServiceAnswers["verification"][v.tier] = VerificationAnswers(tier)
      BY <3>3, <3>4, ListedAnswers DEF Check
    <3>7. Listed("verification", v)
      BY <3>5, <3>6 DEF Listed, Answer
    <3>8. v.confidence = "confirmed" => tier = "deep"
      BY <3>2, <3>3 DEF Tier
    <3>9. ValidStructure(h.gstin)
      BY <2>4 DEF Conclusive
    <3>10. tier = "deep" => h.licence >= day /\ h.disputes <= MAX_ACCEPTABLE_DISPUTES
      BY <2>2, <2>4 DEF Conclusive, LicenceValid, MAX_ACCEPTABLE_DISPUTES
    <3>11. QED BY <1>2, <2>2, <3>3, <3>4, <3>7, <3>8, <3>9, <3>10
  <2>5. QED BY <2>3, <2>4
<1>3. QED BY <1>1, <1>2

--------------------------------------------------------------------------------
(* One round. *)

\* The part of the order a service is sent is all its check reads.
LEMMA BodySuffices ==
    ASSUME order \in SourcingRequest, NEW tier, NEW reply
    PROVE  /\ RunPriceCheck(BuildCheckBody("price"), tier) = RunPriceCheck(order, tier)
           /\ RunAvailabilityCheck(BuildCheckBody("availability"), today, tier)
                = RunAvailabilityCheck(order, today, tier)
           /\ RunVerificationCheck(BuildCheckBody("verification"), today, tier, reply)
                = RunVerificationCheck(order, today, tier, reply)
<1>1. RunPriceCheck(BuildCheckBody("price"), tier) = RunPriceCheck(order, tier)
  <2> DEFINE o == BuildCheckBody("price")
  <2>1. o.sku = order.sku /\ o.supplier = order.supplier /\ o.ceiling = order.ceiling
    BY DEF BuildCheckBody, SourcingRequest
  <2> HIDE DEF o
  <2>2. PricesOf(o.sku, o.supplier) = PricesOf(order.sku, order.supplier)
    BY <2>1, Zenon
  <2>3. \A p : PriceVerdict(p, o.ceiling, tier) = PriceVerdict(p, order.ceiling, tier)
    BY <2>1, Zenon
  <2>4. RunPriceCheck(o, tier) = RunPriceCheck(order, tier)
    BY <2>2, <2>3, Zenon DEF RunPriceCheck
  <2>5. QED BY <2>4 DEF o
<1>2. RunAvailabilityCheck(BuildCheckBody("availability"), today, tier)
        = RunAvailabilityCheck(order, today, tier)
  <2> DEFINE o == BuildCheckBody("availability")
  <2>1. /\ o.sku = order.sku /\ o.supplier = order.supplier
        /\ o.quantity = order.quantity /\ o.requiredBy = order.requiredBy
    BY DEF BuildCheckBody, SourcingRequest
  <2> HIDE DEF o
  <2>2. ASSUME NEW r PROVE StockVerdict(r, o, today, tier) = StockVerdict(r, order, today, tier)
    <3>1. RuledOut(r, o, today, tier) <=> RuledOut(r, order, today, tier)
      BY <2>1, Zenon DEF RuledOut
    <3>2. QED BY <3>1, Zenon DEF StockVerdict
  <2>3. StockOf(o.sku, o.supplier) = StockOf(order.sku, order.supplier)
    BY <2>1, Zenon
  <2>4. RunAvailabilityCheck(o, today, tier) = RunAvailabilityCheck(order, today, tier)
    BY <2>2, <2>3, Zenon DEF RunAvailabilityCheck
  <2>5. QED BY <2>4 DEF o
<1>3. RunVerificationCheck(BuildCheckBody("verification"), today, tier, reply)
        = RunVerificationCheck(order, today, tier, reply)
  <2> DEFINE o == BuildCheckBody("verification")
  <2>1. o.supplier = order.supplier
    BY DEF BuildCheckBody, SourcingRequest
  <2> HIDE DEF o
  <2>2. HistoryOf(o.supplier) = HistoryOf(order.supplier)
    BY <2>1, Zenon
  <2>3. RunVerificationCheck(o, today, tier, reply) = RunVerificationCheck(order, today, tier, reply)
    <3>1. CASE HistoryOf(order.supplier) = {}
      BY <2>2, <3>1, Zenon DEF RunVerificationCheck
    <3>2. CASE HistoryOf(order.supplier) # {}
      <4>1. (CHOOSE h \in HistoryOf(o.supplier) : TRUE) = CHOOSE h \in HistoryOf(order.supplier) : TRUE
        BY <2>2, Zenon
      <4>2. QED BY <2>2, <3>2, <4>1, Zenon DEF RunVerificationCheck
    <3>3. QED BY <3>1, <3>2
  <2>4. QED BY <2>3 DEF o
<1>4. QED BY <1>1, <1>2, <1>3

\* The answers of a round: a check that is reached, and takes its part of the order
\* for a body, answers what its domain function does, at the tier bought.
LEMMA RoundIs ==
    ASSUME TypeOK, NEW reply \in RegistryReply, NEW unreached \in SUBSET Check,
           NEW v, v = RoundVerdicts(reply, unreached)
    PROVE  /\ v \in Verdicts
           /\ \A c \in Check : v[c] # NoAnswer =>
                v[c] \in Verdict /\ v[c].tier = tiers[c] /\ Listed(c, v[c])
           /\ v["price"] # NoAnswer => v["price"] = RunPriceCheck(order, tiers["price"])
           /\ v["availability"] # NoAnswer =>
                v["availability"] = RunAvailabilityCheck(order, today, tiers["availability"])
           /\ v["verification"] # NoAnswer =>
                v["verification"] = RunVerificationCheck(order, today, tiers["verification"], reply)
<1>1. /\ order \in SourcingRequest /\ today \in Nat
      /\ \A c \in Check : tiers[c] \in Tier
  BY SourcingAssumption DEF TypeOK
<1>2. /\ "price" \in Check /\ "availability" \in Check /\ "verification" \in Check
  BY DEF Check
<1>3. order.ceiling \in Nat /\ order.requiredBy \in Nat /\ order.supplier \in STRING
  BY <1>1 DEF SourcingRequest
<1>4. v["price"] # NoAnswer => v["price"] = RunPriceCheck(order, tiers["price"])
  BY <1>1, <1>2, BodySuffices DEF RoundVerdicts, AnswerOf, PriceAnswer
<1>5. v["availability"] # NoAnswer =>
        v["availability"] = RunAvailabilityCheck(order, today, tiers["availability"])
  BY <1>1, <1>2, BodySuffices DEF RoundVerdicts, AnswerOf, AvailabilityAnswer
<1>6. v["verification"] # NoAnswer =>
        v["verification"] = RunVerificationCheck(order, today, tiers["verification"], reply)
  BY <1>1, <1>2, BodySuffices DEF RoundVerdicts, AnswerOf, VerificationAnswer
<1>7. v["price"] # NoAnswer =>
        v["price"] \in Verdict /\ v["price"].tier = tiers["price"] /\ Listed("price", v["price"])
  BY <1>1, <1>2, <1>3, <1>4, PriceOutcome
<1>8. v["availability"] # NoAnswer =>
        /\ v["availability"] \in Verdict /\ v["availability"].tier = tiers["availability"]
        /\ Listed("availability", v["availability"])
  BY <1>1, <1>2, <1>3, <1>5, StockOutcome
<1>9. v["verification"] # NoAnswer =>
        /\ v["verification"] \in Verdict /\ v["verification"].tier = tiers["verification"]
        /\ Listed("verification", v["verification"])
  BY <1>1, <1>2, <1>3, <1>6, SellerOutcome
<1>10. \A c \in Check : v[c] # NoAnswer =>
        v[c] \in Verdict /\ v[c].tier = tiers[c] /\ Listed(c, v[c])
  BY <1>7, <1>8, <1>9 DEF Check
<1>11. v \in Verdicts
  <2>1. v = [c \in Check |-> v[c]]
    BY DEF RoundVerdicts
  <2>2. QED BY <1>10, <2>1 DEF Verdicts
<1>12. QED BY <1>4, <1>5, <1>6, <1>10, <1>11

\* Every variable keeps its type, and every answer is one RunLifecycle reckons with.
Sound == TypeOK /\ AnswersAreCovered

LEMMA SoundInvariance == Spec => []Sound
<1>1. Init => Sound
  <2>1. SUFFICES ASSUME Init PROVE Sound
    OBVIOUS
  <2>2. order \in Order /\ today \in Nat
    BY <2>1, SourcingAssumption DEF Init
  <2>3. TypeOK
    BY <2>1, <2>2, LadderTypes, SourcingAssumption DEF Init, TypeOK
  <2>4. AnswersAreCovered
    BY <2>1 DEF Init, NoVerdicts, AnswersAreCovered
  <2>5. QED BY <2>3, <2>4 DEF Sound
<1>2. Sound /\ [Next]_vars => Sound'
  <2>1. SUFFICES ASSUME Sound, [Next]_vars PROVE Sound'
    OBVIOUS
  <2> USE <2>1 DEF Sound
  <2>2. ASSUME NEW reply \in RegistryReply, NEW unreached \in SUBSET Check,
               NEW v, v = RoundVerdicts(reply, unreached), Asked(v)
        PROVE  /\ AnswersAreCovered'
               /\ order' \in Order /\ today' \in Nat /\ answeredOn' \in Nat
               /\ verdicts' \in Verdicts /\ refused' \subseteq Check /\ silent' \subseteq Check
    <3>1. v \in Verdicts /\ \A c \in Check : v[c] # NoAnswer => Listed(c, v[c])
      BY <2>2, RoundIs
    <3>2. AnswersAreCovered'
      BY <2>2, <3>1 DEF Asked, AnswersAreCovered, Listed
    <3>3. QED BY <2>2, <3>1, <3>2 DEF Asked, TypeOK
  <2>3. ASSUME NEW reply \in RegistryReply, NEW unreached \in SUBSET Check,
               NEW v, v = RoundVerdicts(reply, unreached)
        PROVE  (AllConfirm(v) => Sound') /\ (Escalate(v) => Sound') /\ (GiveUp(v) => Sound')
    <3>1. CASE AllConfirm(v)
      BY <2>2, <2>3, <3>1 DEF AllConfirm, TypeOK
    <3>2. CASE Escalate(v)
      <4>1. v \in Verdicts
        BY <2>3, RoundIs
      <4>2. tiers' \in [Check -> Tier] /\ spent' \in Nat
        BY <3>2, <4>1, PlanTypes DEF Escalate, TypeOK
      <4>3. rounds' \in 1 .. MaxRounds
        BY <3>2, SourcingAssumption DEF Escalate, MayEscalate, TypeOK
      <4>4. QED BY <2>2, <2>3, <3>2, <4>2, <4>3 DEF Escalate, TypeOK
    <3>3. CASE GiveUp(v)
      BY <2>2, <2>3, <3>3 DEF GiveUp, TypeOK
    <3>4. QED BY <3>1, <3>2, <3>3
  <2>4. CASE NextDay
    BY <2>4 DEF NextDay, TypeOK, AnswersAreCovered
  <2>5. CASE UNCHANGED vars
    BY <2>5 DEF vars, TypeOK, AnswersAreCovered
  <2>6. QED BY <2>3, <2>4, <2>5 DEF Next
<1>3. QED BY <1>1, <1>2, PTL DEF Spec

\* Type correctness, for every set of orders.
THEOREM SourcingTypes == Spec => []TypeOK
<1>1. Sound => TypeOK
  BY DEF Sound
<1>2. QED BY <1>1, SoundInvariance, PTL

\* Whatever is ordered and whenever, each verdict on file is one CheckAnswers lists:
\* what RunLifecycle lets the services answer is all an order can get.
THEOREM CoveredTheorem == Spec => []AnswersAreCovered
<1>1. Sound => AnswersAreCovered
  BY DEF Sound
<1>2. QED BY <1>1, SoundInvariance, PTL

--------------------------------------------------------------------------------
(* A refusal is final. *)

\* How far down the ladder a tier is.
Level == [shallow |-> 1, standard |-> 2, deep |-> 3]

\* Price and availability go on refusing what they refused.  A seller check may
\* change its mind with the registry, but one that refused stays a tier behind
\* the rounds, and no round is left by the time the deep tier could answer.
Refusals ==
    /\ "price" \in refused => RunPriceCheck(order, tiers["price"]).confidence = "refuted"
    /\ "availability" \in refused =>
        RunAvailabilityCheck(order, today, tiers["availability"]).confidence = "refuted"
    /\ Level[tiers["verification"]] <= rounds
    /\ "verification" \in refused /\ outcome = "verifying" =>
        Level[tiers["verification"]] < rounds

RefusalInv == Sound /\ Refusals /\ RefusedNeverReady

\* What an availability check refuses today it refuses on every later day.
LEMMA RefusalStays ==
    ASSUME NEW o, o.requiredBy \in Nat, NEW day \in Nat, NEW later \in Nat, day <= later,
           NEW tier \in Tier, RunAvailabilityCheck(o, day, tier).confidence = "refuted"
    PROVE  RunAvailabilityCheck(o, later, tier).confidence = "refuted"
<1>1. OutOfStock(o, day, tier)
  BY StockOutcome
<1>2. \A r \in StockOf(o.sku, o.supplier) : RuledOut(r, o, day, tier) => RuledOut(r, o, later, tier)
  BY RuledOutStays DEF StockOf
<1>3. OutOfStock(o, later, tier)
  BY <1>1, <1>2 DEF OutOfStock
<1>4. QED BY <1>3, StockOutcome

\* What is bought of a check: nothing, or the next tier of one that answered and
\* did not refuse.
LEMMA WhatIsBought ==
    ASSUME NEW v \in Verdicts, NEW s \in Nat, NEW t \in [Check -> Tier], NEW c \in Check,
           v[c] # NoAnswer => v[c].tier = t[c]
    PROVE  /\ PlannedTiers(v, s, t)[c] \in {t[c], NextTier[t[c]]}
           /\ Level[PlannedTiers(v, s, t)[c]] <= Level[t[c]] + 1
           /\ v[c] = NoAnswer \/ v[c].confidence = "refuted" => PlannedTiers(v, s, t)[c] = t[c]
<1>1. PlannedTiers(v, s, t)[c] \in {t[c], NextTier[t[c]]}
  BY DEF PlannedTiers, PlanBuys
<1>2. v[c] = NoAnswer \/ v[c].confidence = "refuted" => PlannedTiers(v, s, t)[c] = t[c]
  BY DEF PlannedTiers, PlanBuys, Escalates
<1>3. \A tier \in Tier : Level[tier] \in Nat /\ Level[NextTier[tier]] <= Level[tier] + 1
  BY DEF Level, NextTier, Tier
<1>4. t[c] \in Tier
  OBVIOUS
<1>5. QED BY <1>1, <1>2, <1>3, <1>4

\* A check on file as refusing, this round included, still refuses if it answers;
\* the seller check at least does not confirm.
LEMMA RefusalsHold ==
    ASSUME RefusalInv, outcome = "verifying", MaxRounds <= 3,
           NEW reply \in RegistryReply, NEW unreached \in SUBSET Check,
           NEW v, v = RoundVerdicts(reply, unreached),
           NEW r, r = refused \union {c \in Check : v[c] # NoAnswer /\ v[c].confidence = "refuted"}
    PROVE  /\ "price" \in r => RunPriceCheck(order, tiers["price"]).confidence = "refuted"
           /\ "availability" \in r =>
                RunAvailabilityCheck(order, today, tiers["availability"]).confidence = "refuted"
           /\ \A c \in r : ~Confirmed(v[c])
<1>1. /\ "price" \in Check /\ "availability" \in Check /\ "verification" \in Check
      /\ tiers["verification"] \in Tier /\ rounds \in 1 .. 3 /\ today \in Nat /\ order \in SourcingRequest
      /\ refused \in SUBSET Check
  BY SourcingAssumption DEF RefusalInv, Sound, TypeOK, Check
<1>2. /\ v["price"] # NoAnswer => v["price"] = RunPriceCheck(order, tiers["price"])
      /\ v["availability"] # NoAnswer =>
            v["availability"] = RunAvailabilityCheck(order, today, tiers["availability"])
      /\ v["verification"] # NoAnswer =>
            v["verification"] = RunVerificationCheck(order, today, tiers["verification"], reply)
  BY RoundIs DEF RefusalInv, Sound
<1>3. "price" \in r => RunPriceCheck(order, tiers["price"]).confidence = "refuted"
  BY <1>2 DEF RefusalInv, Refusals
<1>4. "availability" \in r =>
        RunAvailabilityCheck(order, today, tiers["availability"]).confidence = "refuted"
  BY <1>2 DEF RefusalInv, Refusals
<1>5. "verification" \in r => ~Confirmed(v["verification"])
  <2>1. SUFFICES ASSUME "verification" \in r, Confirmed(v["verification"]) PROVE FALSE
    OBVIOUS
  <2>2. /\ v["verification"] # NoAnswer /\ v["verification"].confidence = "confirmed"
    BY <2>1 DEF Confirmed
  <2>3. "verification" \in refused
    BY <2>1, <2>2
  <2>4. Level[tiers["verification"]] < rounds
    BY <2>3 DEF RefusalInv, Refusals
  <2>5. tiers["verification"] # "deep"
    BY <1>1, <2>4 DEF Level
  <2>6. order.supplier \in STRING
    BY <1>1 DEF SourcingRequest
  <2>7. QED BY <1>1, <1>2, <2>2, <2>5, <2>6, SellerOutcome
<1>6. \A c \in r : c \in {"price", "availability", "verification"}
  BY <1>1 DEF Check
<1>7. QED BY <1>2, <1>3, <1>4, <1>5, <1>6 DEF Confirmed

LEMMA RefusalInvariance ==
    ASSUME MaxRounds <= 3
    PROVE  Spec => []RefusalInv
<1>1. Init => Refusals /\ RefusedNeverReady
  BY DEF Init, Refusals, RefusedNeverReady, OpeningTiers, Check, Level
<1>2. RefusalInv /\ Sound' /\ [Next]_vars => RefusalInv'
  <2>1. SUFFICES ASSUME RefusalInv, Sound', [Next]_vars PROVE Refusals' /\ RefusedNeverReady'
    BY DEF RefusalInv
  <2>2. /\ TypeOK /\ order \in SourcingRequest /\ order.requiredBy \in Nat
        /\ \A c \in Check : tiers[c] \in Tier
        /\ "price" \in Check /\ "availability" \in Check /\ "verification" \in Check
        /\ rounds \in Nat /\ spent \in Nat /\ today \in Nat
    BY <2>1, SourcingAssumption DEF RefusalInv, Sound, TypeOK, SourcingRequest, Check
  <2>3. \A t \in Tier : Level[t] \in Nat
    BY DEF Level, Tier
  <2>4. ASSUME NEW reply \in RegistryReply, NEW unreached \in SUBSET Check,
               NEW v, v = RoundVerdicts(reply, unreached), AllConfirm(v) \/ Escalate(v) \/ GiveUp(v)
        PROVE  Refusals' /\ RefusedNeverReady'
    <3>1. Asked(v) /\ outcome = "verifying" /\ order' = order /\ today' = today
      BY <2>4 DEF AllConfirm, Escalate, GiveUp, Asked
    <3>2. PICK r : /\ r = refused \union {c \in Check : v[c] # NoAnswer /\ v[c].confidence = "refuted"}
                   /\ refused' = r
      BY <3>1 DEF Asked
    <3>3. /\ "price" \in r => RunPriceCheck(order, tiers["price"]).confidence = "refuted"
          /\ "availability" \in r =>
                RunAvailabilityCheck(order, today, tiers["availability"]).confidence = "refuted"
          /\ \A c \in r : ~Confirmed(v[c])
      BY <2>1, <2>4, <3>1, <3>2, RefusalsHold
    <3>4. /\ v \in Verdicts
          /\ \A c \in Check : v[c] # NoAnswer => v[c].tier = tiers[c]
          /\ v["price"] # NoAnswer => v["price"] = RunPriceCheck(order, tiers["price"])
          /\ v["availability"] # NoAnswer =>
                v["availability"] = RunAvailabilityCheck(order, today, tiers["availability"])
      BY <2>2, <2>4, RoundIs
    <3>5. r \subseteq Check /\ Level[tiers["verification"]] <= rounds
      BY <2>1, <2>2, <3>2 DEF RefusalInv, Refusals, TypeOK
    <3>6. CASE AllConfirm(v)
      <4>1. r = {}
        BY <3>3, <3>5, <3>6 DEF AllConfirm, AllConfirmed
      <4>2. QED BY <3>1, <3>2, <3>5, <3>6, <4>1 DEF AllConfirm, Refusals, RefusedNeverReady
    <3>7. CASE GiveUp(v)
      BY <3>1, <3>2, <3>3, <3>5, <3>7 DEF GiveUp, Refusals, RefusedNeverReady
    <3>8. CASE Escalate(v)
      <4>1. tiers' = PlannedTiers(v, spent, tiers) /\ rounds' = rounds + 1 /\ outcome' = "verifying"
        BY <3>1, <3>8 DEF Escalate
      <4>2. tiers \in [Check -> Tier]
        BY <2>2 DEF TypeOK
      <4>3. "price" \in r => tiers'["price"] = tiers["price"]
        BY <2>2, <3>3, <3>4, <4>1, <4>2, WhatIsBought
      <4>4. "availability" \in r => tiers'["availability"] = tiers["availability"]
        BY <2>2, <3>3, <3>4, <4>1, <4>2, WhatIsBought
      <4>5. Level[tiers'["verification"]] <= Level[tiers["verification"]] + 1
        BY <2>2, <3>4, <4>1, <4>2, WhatIsBought
      <4>6. tiers'["verification"] \in Tier
        BY <2>1, <2>2 DEF Sound, TypeOK
      <4>7. "verification" \in r => Level[tiers'["verification"]] < rounds + 1
        <5>1. CASE "verification" \in refused
          <6>1. Level[tiers["verification"]] < rounds
            BY <2>1, <3>1, <5>1 DEF RefusalInv, Refusals
          <6>2. QED BY <2>2, <2>3, <4>5, <4>6, <6>1
        <5>2. ASSUME "verification" \notin refused, "verification" \in r
              PROVE  Level[tiers'["verification"]] < rounds + 1
          <6>1. v["verification"] # NoAnswer /\ v["verification"].confidence = "refuted"
            BY <3>2, <5>2
          <6>2. tiers'["verification"] = tiers["verification"]
            BY <2>2, <3>4, <4>1, <4>2, <6>1, WhatIsBought
          <6>3. QED BY <2>2, <2>3, <3>5, <6>2
        <5>3. QED BY <5>1, <5>2
      <4>8. Level[tiers'["verification"]] <= rounds + 1
        BY <2>2, <2>3, <3>5, <4>5, <4>6
      <4>9. QED BY <3>1, <3>2, <3>3, <4>1, <4>3, <4>4, <4>7, <4>8 DEF Refusals, RefusedNeverReady
    <3>9. QED BY <2>4, <3>6, <3>7, <3>8
  <2>5. CASE NextDay
    <3>1. "availability" \in refused =>
            RunAvailabilityCheck(order, today + 1, tiers["availability"]).confidence = "refuted"
      <4>1. PICK tier \in Tier, later \in Nat : tier = tiers["availability"] /\ later = today + 1
        BY <2>2
      <4>2. RunAvailabilityCheck(order, today, tier).confidence = "refuted" =>
                RunAvailabilityCheck(order, later, tier).confidence = "refuted"
        BY <2>2, <4>1, RefusalStays
      <4>3. QED BY <2>1, <4>1, <4>2 DEF RefusalInv, Refusals
    <3>2. QED BY <2>1, <2>5, <3>1 DEF NextDay, RefusalInv, Refusals, RefusedNeverReady
  <2>6. CASE UNCHANGED vars
    BY <2>1, <2>6 DEF vars, RefusalInv, Refusals, RefusedNeverReady
  <2>7. QED BY <2>1, <2>4, <2>5, <2>6 DEF Next
<1>3. Sound /\ Refusals /\ RefusedNeverReady <=> RefusalInv
  BY DEF RefusalInv
<1>4. QED BY <1>1, <1>2, <1>3, SoundInvariance, PTL DEF Spec

\* A check that refused in some round is never overruled: with the three rounds
\* the code allows, no order becomes ready after a refusal, whatever the other
\* checks buy and however often the registry changes its answer.
THEOREM RefusedTheorem ==
    ASSUME MaxRounds <= 3
    PROVE  Spec => []RefusedNeverReady
<1>1. RefusalInv => RefusedNeverReady
  BY DEF RefusalInv
<1>2. QED BY <1>1, RefusalInvariance, PTL

--------------------------------------------------------------------------------
(* A ready order is a good one. *)

\* A deadline no earlier than the dispatch leaves the lead time's working days.
LEMMA EnoughDays ==
    ASSUME NEW day \in Nat, NEW lead \in Nat, NEW deadline \in Nat,
           AddWorkingDays[day][lead] <= deadline
    PROVE  Cardinality(Weekdays((day + 1) .. deadline)) >= lead
<1>1. PICK end \in Nat : /\ end = AddWorkingDays[day][lead] /\ day <= end
                         /\ Cardinality(Weekdays((day + 1) .. end)) = lead
  BY WorkingDaysTheorem
<1>2. /\ CountTo(end) - CountTo(day) = lead
      /\ Cardinality(Weekdays((day + 1) .. deadline)) = CountTo(deadline) - CountTo(day)
  <2>1. day <= end /\ end <= deadline /\ day <= deadline
    BY <1>1
  <2>2. Cardinality(Weekdays((day + 1) .. end)) = CountTo(end) - CountTo(day)
    BY <2>1, WeekdaysCounted
  <2>3. Cardinality(Weekdays((day + 1) .. deadline)) = CountTo(deadline) - CountTo(day)
    BY <2>1, WeekdaysCounted
  <2>4. QED BY <1>1, <2>2, <2>3
<1>3. CountTo(end) <= CountTo(deadline)
  BY <1>1, CountGrows
<1>4. CountTo(day) \in Nat /\ CountTo(end) \in Nat /\ CountTo(deadline) \in Nat
  BY <1>1, CountStep
<1>5. QED BY <1>2, <1>3, <1>4

\* Confirmed from the live price, an order is for goods priced within its ceiling.
LEMMA LivePrice ==
    ASSUME NEW o \in SourcingRequest, RunPriceCheck(o, "standard").confidence = "confirmed"
    PROVE  /\ PricesOf(o.sku, o.supplier) # {}
           /\ \A e \in PricesOf(o.sku, o.supplier) : e.live <= o.ceiling
<1>1. o.ceiling \in Nat
  BY DEF SourcingRequest
<1>2. /\ PricesOf(o.sku, o.supplier) # {}
      /\ \A e \in PricesOf(o.sku, o.supplier) : SeenPrice(e, "standard") <= o.ceiling
  BY <1>1, PriceOutcome DEF Tier
<1>3. QED BY <1>2 DEF SeenPrice

\* Confirmed from the live quantity or deeper, an order is for units that are free,
\* with a slot, and that leave in time.
LEMMA FreeStock ==
    ASSUME NEW o \in SourcingRequest, NEW day \in Nat, NEW tier \in Tier \ {"shallow"},
           RunAvailabilityCheck(o, day, tier).confidence = "confirmed"
    PROVE  /\ StockOf(o.sku, o.supplier) # {}
           /\ \A r \in StockOf(o.sku, o.supplier) :
                /\ o.quantity <= r.live - r.reserved - r.pending
                /\ r.slotFree
                /\ Cardinality(Weekdays((day + 1) .. o.requiredBy)) >= r.lead
<1>1. o.requiredBy \in Nat /\ o.quantity \in Nat
  BY DEF SourcingRequest
<1>2. /\ ~OutOfStock(o, day, tier)
      /\ tier = "standard" => \A r \in StockOf(o.sku, o.supplier) : r.pending = 0
  BY <1>1, StockOutcome
<1>3. ASSUME NEW r \in StockOf(o.sku, o.supplier)
      PROVE  /\ o.quantity <= r.live - r.reserved - r.pending
             /\ r.slotFree
             /\ Cardinality(Weekdays((day + 1) .. o.requiredBy)) >= r.lead
  <2>1. /\ r.live \in Nat /\ r.reserved \in Nat /\ r.pending \in Nat /\ r.lead \in Nat
        /\ r.pending = 0 => r.slotFree
    BY LedgerFacts DEF StockOf
  <2>2. ~RuledOut(r, o, day, tier)
    BY <1>2 DEF OutOfStock
  <2>3. AddWorkingDays[day][r.lead] \in Nat
    BY <2>1, WorkingDaysTheorem
  <2>4. AddWorkingDays[day][r.lead] <= o.requiredBy
    BY <1>1, <2>2, <2>3 DEF RuledOut, DispatchDay
  <2>5. Cardinality(Weekdays((day + 1) .. o.requiredBy)) >= r.lead
    BY <1>1, <2>1, <2>4, EnoughDays
  <2>6. CASE tier = "deep"
    <3>1. r.slotFree
      BY <2>2, <2>6, Zenon DEF RuledOut
    <3>2. o.quantity <= r.live - r.reserved - r.pending
      BY <1>1, <2>1, <2>2, <2>6 DEF RuledOut, FreeUnits
    <3>3. QED BY <2>5, <3>1, <3>2
  <2>7. CASE tier = "standard"
    <3>1. r.pending = 0 /\ r.slotFree
      BY <1>2, <2>1, <2>7, Zenon
    <3>2. o.quantity <= r.live - r.reserved - r.pending
      BY <1>1, <2>1, <2>2, <2>7, <3>1 DEF RuledOut, FreeUnits
    <3>3. QED BY <2>5, <3>1, <3>2
  <2>8. QED BY <2>6, <2>7 DEF Tier
<1>4. QED BY <1>2, <1>3 DEF OutOfStock

\* No tier confirms the price of an order the form presents as one that aborts: the
\* live price is above the ceiling, and the cached one is above it or too close.
LEMMA PresetsAbort ==
    ASSUME NEW o \in SourcingRequest, NEW tier \in Tier,
           RunPriceCheck(o, tier).confidence = "confirmed"
    PROVE  [outcome |-> "aborts", request |-> o] \notin PRESETS
<1>1. SUFFICES ASSUME [outcome |-> "aborts", request |-> o] \in PRESETS PROVE FALSE
  OBVIOUS
<1>2. /\ o.ceiling = 8333
      /\ \/ o.sku = "4472" /\ o.supplier = "BLR"
         \/ o.sku = "9002" /\ o.supplier = "PUN"
  BY <1>1 DEF PRESETS, SourcingRequest
<1>3. \A e \in PricesOf(o.sku, o.supplier) :
        SeenPrice(e, tier) <= 8333 /\ (tier = "shallow" => ~TooThin(e, 8333))
  BY <1>2, PriceOutcome
<1>4. CASE o.sku = "4472" /\ o.supplier = "BLR"
  <2>1. PICK e \in PricesOf(o.sku, o.supplier) :
            e.cached = 8080 /\ e.live = 8580 /\ e.discount = 0
    <3> DEFINE e == CatalogueEntry("4472", "BLR", 8080, 14, 8580, 0)
    <3>1. /\ e \in CATALOGUE
          /\ e.sku = "4472" /\ e.supplier = "BLR"
          /\ e.cached = 8080 /\ e.live = 8580 /\ e.discount = 0
      BY DEF CATALOGUE, CatalogueEntry
    <3>2. e \in PricesOf(o.sku, o.supplier)
      BY <1>4, <3>1 DEF PricesOf
    <3>3. QED BY <3>1, <3>2
  <2>2. Margin(e.cached, 8333) < 80
    BY <2>1 DEF Margin
  <2>3. QED BY <1>3, <2>1, <2>2 DEF SeenPrice, TooThin, Tier
<1>5. CASE o.sku = "9002" /\ o.supplier = "PUN"
  <2>1. PICK e \in PricesOf(o.sku, o.supplier) :
            e.cached = 136000 /\ e.live = 136000 /\ e.discount = 0
    <3> DEFINE e == CatalogueEntry("9002", "PUN", 136000, 3, 136000, 0)
    <3>1. /\ e \in CATALOGUE
          /\ e.sku = "9002" /\ e.supplier = "PUN"
          /\ e.cached = 136000 /\ e.live = 136000 /\ e.discount = 0
      BY DEF CATALOGUE, CatalogueEntry
    <3>2. e \in PricesOf(o.sku, o.supplier)
      BY <1>5, <3>1 DEF PricesOf
    <3>3. QED BY <3>1, <3>2
  <2>2. QED BY <1>3, <2>1 DEF SeenPrice, Tier
<1>6. QED BY <1>2, <1>4, <1>5

\* A policy that doubts an answer from the cache and not one from the live price,
\* with money to take both the price and the availability one tier down.
Discerning == EscalateBelow \in 69 .. 90 /\ 130000 + Reserve <= Budget

\* The defaults of the policy are of this kind.
LEMMA CodeIsDiscerning ==
    ASSUME EscalateBelow = 85, Budget = 500000, ReservePercent = 20
    PROVE  Discerning
<1>1. Reserve = 100000
  BY DEF Reserve
<1>2. QED BY <1>1 DEF Discerning

\* After the opening round, price and availability have left the cache behind when
\* they answered and did not refuse; and price never goes deep, where the rebate
\* would count.
Bought ==
    /\ rounds = 1 => tiers = OpeningTiers /\ spent = 30000
    /\ tiers["price"] # "deep"
    /\ rounds > 1 /\ silent = {} =>
        /\ "price" \in refused \/ tiers["price"] = "standard"
        /\ "availability" \in refused \/ tiers["availability"] # "shallow"

\* In the opening round a discerning policy buys both, if they answered without
\* refusing.
LEMMA OpeningPurchases ==
    ASSUME Discerning, NEW v \in Verdicts, NEW c \in {"price", "availability"},
           v[c] # NoAnswer, v[c].confidence # "refuted", v[c].tier = "shallow",
           v[c].certainty < 69,
           v["price"] # NoAnswer => v["price"].tier = "shallow"
    PROVE  PlannedTiers(v, 30000, OpeningTiers)[c] = "standard"
<1>1. c \in Check /\ "price" \in Check /\ v[c] \in Verdict /\ v[c].certainty \in 0 .. 100
  BY DEF Check, Verdicts, Verdict
<1>2. NextTier["shallow"] = "standard" /\ TierFee["standard"] = 50000
  BY DEF NextTier, TierFee
<1>3. /\ Budget \in Nat /\ EscalateBelow \in 0 .. 100 /\ EscalateBelow >= 69
      /\ Reserve \in Nat /\ 130000 + Reserve <= Budget
  BY ReserveType, PolicyAssumption DEF Discerning
<1>4. ASSUME NEW s \in Nat, s <= 80000
      PROVE  Escalates(v[c], s)
  <2>1. Budget - s - TierFee[NextTier[v[c].tier]] >= Reserve
    BY <1>2, <1>3, <1>4
  <2>2. v[c].certainty < EscalateBelow
    BY <1>1, <1>3
  <2>3. QED BY <2>1, <2>2 DEF Escalates
<1>5. SpentAfter("price", v, 30000) \in {30000, 80000}
  <2>1. CASE v["price"] # NoAnswer /\ Escalates(v["price"], 30000)
    BY <1>2, <2>1 DEF SpentAfter
  <2>2. CASE ~(v["price"] # NoAnswer /\ Escalates(v["price"], 30000))
    BY <2>2 DEF SpentAfter
  <2>3. QED BY <2>1, <2>2
<1>6. SpentBefore(c, v, 30000) \in {30000, 80000}
  BY <1>5 DEF SpentBefore
<1>7. PlanBuys(c, v, 30000)
  BY <1>4, <1>6 DEF PlanBuys
<1>8. QED BY <1>1, <1>2, <1>7 DEF PlannedTiers

\* What a round finds, at the tiers it was bought at.
LEMMA RoundFinds ==
    ASSUME TypeOK, NEW reply \in RegistryReply, NEW unreached \in SUBSET Check,
           NEW v, v = RoundVerdicts(reply, unreached)
    PROVE  /\ v["price"] # NoAnswer /\ v["price"].confidence # "refuted" =>
                IF tiers["price"] = "shallow" THEN v["price"].certainty < 69
                ELSE v["price"].certainty >= 90
           /\ v["availability"] # NoAnswer /\ v["availability"].confidence # "refuted"
                /\ tiers["availability"] = "shallow" => v["availability"].certainty < 69
           /\ Confirmed(v["verification"]) =>
                /\ tiers["verification"] = "deep" /\ HistoryOf(order.supplier) # {}
                /\ \A h \in HistoryOf(order.supplier) :
                    /\ ValidStructure(h.gstin) /\ h.licence >= today
                    /\ h.disputes <= MAX_ACCEPTABLE_DISPUTES
<1>1. /\ order \in SourcingRequest /\ today \in Nat
      /\ tiers["price"] \in Tier /\ tiers["availability"] \in Tier /\ tiers["verification"] \in Tier
  BY SourcingAssumption DEF TypeOK, Check
<1>2. order.ceiling \in Nat /\ order.requiredBy \in Nat /\ order.supplier \in STRING
  BY <1>1 DEF SourcingRequest
<1>3. /\ v["price"] # NoAnswer => v["price"] = RunPriceCheck(order, tiers["price"])
      /\ v["availability"] # NoAnswer =>
            v["availability"] = RunAvailabilityCheck(order, today, tiers["availability"])
      /\ v["verification"] # NoAnswer =>
            v["verification"] = RunVerificationCheck(order, today, tiers["verification"], reply)
  BY RoundIs
<1>4. v["price"] # NoAnswer /\ v["price"].confidence # "refuted" =>
        IF tiers["price"] = "shallow" THEN v["price"].certainty < 69
        ELSE v["price"].certainty >= 90
  BY <1>1, <1>2, <1>3, PriceOutcome
<1>5. v["availability"] # NoAnswer /\ v["availability"].confidence # "refuted"
        /\ tiers["availability"] = "shallow" => v["availability"].certainty < 69
  BY <1>1, <1>2, <1>3, StockOutcome
<1>6. ASSUME Confirmed(v["verification"])
      PROVE  /\ tiers["verification"] = "deep" /\ HistoryOf(order.supplier) # {}
             /\ \A h \in HistoryOf(order.supplier) :
                    /\ ValidStructure(h.gstin) /\ h.licence >= today
                    /\ h.disputes <= MAX_ACCEPTABLE_DISPUTES
  <2>1. PICK day \in Nat, tier \in Tier : day = today /\ tier = tiers["verification"]
    BY <1>1
  <2>2. /\ v["verification"] = RunVerificationCheck(order, day, tier, reply)
        /\ v["verification"].confidence = "confirmed"
    BY <1>3, <1>6, <2>1 DEF Confirmed
  <2>3. /\ tier = "deep" /\ HistoryOf(order.supplier) # {}
        /\ \A h \in HistoryOf(order.supplier) :
            ValidStructure(h.gstin) /\ h.licence >= day /\ h.disputes <= MAX_ACCEPTABLE_DISPUTES
    BY <1>2, <2>2, SellerOutcome
  <2>4. QED BY <2>1, <2>3
<1>7. QED BY <1>4, <1>5, <1>6

\* A round that ends in another one keeps Bought.
LEMMA EscalationBuys ==
    ASSUME Discerning, RefusalInv, RefusalInv', Bought,
           NEW reply \in RegistryReply, NEW unreached \in SUBSET Check,
           NEW v, v = RoundVerdicts(reply, unreached), Escalate(v)
    PROVE  Bought'
<1>1. /\ "price" \in Check /\ "availability" \in Check
      /\ TypeOK /\ tiers \in [Check -> Tier] /\ rounds \in Nat \ {0} /\ spent \in Nat
  BY DEF RefusalInv, Sound, TypeOK, Check
<1>2. /\ v \in Verdicts /\ \A c \in Check : v[c] # NoAnswer => v[c] \in Verdict /\ v[c].tier = tiers[c]
  BY <1>1, RoundIs
<1>3. /\ tiers' = PlannedTiers(v, spent, tiers) /\ rounds' = rounds + 1
      /\ refused' = refused \union {c \in Check : v[c] # NoAnswer /\ v[c].confidence = "refuted"}
      /\ silent' = silent \union {c \in Check : v[c] = NoAnswer}
  BY DEF Escalate, Asked
<1>4. /\ tiers'["price"] \in {tiers["price"], NextTier[tiers["price"]]}
      /\ tiers'["availability"] \in {tiers["availability"], NextTier[tiers["availability"]]}
  BY <1>1, <1>2, <1>3, WhatIsBought
<1>5. rounds' # 1 /\ rounds' > 1
  BY <1>1, <1>3
<1>6. tiers'["price"] # "deep"
  <2>1. CASE tiers["price"] = "shallow"
    BY <1>4, <2>1 DEF NextTier
  <2>2. CASE tiers["price"] # "shallow"
    <3>1. v["price"] # NoAnswer /\ v["price"].confidence # "refuted" => v["price"].certainty >= 90
      BY <1>1, <2>2, RoundFinds
    <3>2. ~PlanBuys("price", v, spent)
      <4>1. SUFFICES ASSUME v["price"] # NoAnswer, v["price"].confidence # "refuted",
                            v["price"].certainty < EscalateBelow
                     PROVE  FALSE
        BY DEF PlanBuys, Escalates
      <4>2. v["price"].certainty \in 0 .. 100 /\ v["price"].certainty >= 90
        BY <1>1, <1>2, <3>1, <4>1 DEF Verdict
      <4>3. EscalateBelow \in 69 .. 90
        BY DEF Discerning
      <4>4. QED BY <4>1, <4>2, <4>3
    <3>3. QED BY <1>1, <1>3, <3>2 DEF PlannedTiers, Bought
  <2>3. QED BY <2>1, <2>2
<1>7. ASSUME silent' = {}
      PROVE  /\ "price" \in refused' \/ tiers'["price"] = "standard"
             /\ "availability" \in refused' \/ tiers'["availability"] # "shallow"
  <2>1. silent = {} /\ \A c \in Check : v[c] # NoAnswer
    BY <1>3, <1>7
  <2>2. CASE rounds = 1
    <3>1. tiers = OpeningTiers /\ spent = 30000
      BY <2>2 DEF Bought
    <3>2. tiers["price"] = "shallow" /\ tiers["availability"] = "shallow"
      BY <1>1, <3>1 DEF OpeningTiers
    <3>3. ASSUME "price" \notin refused' PROVE tiers'["price"] = "standard"
      <4>1. v["price"].confidence # "refuted" /\ v["price"].tier = "shallow"
        BY <1>1, <1>2, <1>3, <2>1, <3>2, <3>3
      <4>2. v["price"].certainty < 69
        BY <1>1, <2>1, <3>2, <4>1, RoundFinds
      <4>3. QED BY <1>1, <1>2, <1>3, <2>1, <3>1, <4>1, <4>2, OpeningPurchases
    <3>4. ASSUME "availability" \notin refused' PROVE tiers'["availability"] # "shallow"
      <4>1. v["availability"].confidence # "refuted" /\ v["availability"].tier = "shallow"
        BY <1>1, <1>2, <1>3, <2>1, <3>2, <3>4
      <4>2. v["availability"].certainty < 69 /\ v["price"].tier = "shallow"
        BY <1>1, <1>2, <2>1, <3>2, <4>1, RoundFinds
      <4>3. tiers'["availability"] = "standard"
        BY <1>1, <1>2, <1>3, <2>1, <3>1, <4>1, <4>2, OpeningPurchases
      <4>4. QED BY <4>3
    <3>5. QED BY <3>3, <3>4
  <2>3. CASE rounds # 1
    <3>1. /\ "price" \in refused \/ tiers["price"] = "standard"
          /\ "availability" \in refused \/ tiers["availability"] # "shallow"
      BY <1>1, <2>1, <2>3 DEF Bought
    <3>2. tiers["price"] = "standard" => tiers'["price"] = "standard"
      BY <1>4, <1>6 DEF NextTier
    <3>3. tiers["availability"] # "shallow" => tiers'["availability"] # "shallow"
      BY <1>1, <1>4 DEF NextTier, Tier
    <3>4. QED BY <1>3, <3>1, <3>2, <3>3
  <2>4. QED BY <2>2, <2>3
<1>8. QED BY <1>5, <1>6, <1>7 DEF Bought

\* An order that becomes ready is a good one.
LEMMA ConfirmedIsGood ==
    ASSUME MaxRounds <= 3, RefusalInv, RefusalInv', Bought,
           NEW reply \in RegistryReply, NEW unreached \in SUBSET Check,
           NEW v, v = RoundVerdicts(reply, unreached), AllConfirm(v)
    PROVE  ReadyOrdersAreGood'
<1>1. /\ TypeOK /\ order \in SourcingRequest /\ today \in Nat
      /\ tiers["price"] \in Tier /\ tiers["availability"] \in Tier
      /\ "price" \in Check /\ "availability" \in Check /\ "verification" \in Check
  BY SourcingAssumption DEF RefusalInv, Sound, TypeOK, Check
<1>2. /\ Confirmed(v["price"]) /\ Confirmed(v["availability"]) /\ Confirmed(v["verification"])
      /\ order' = order /\ answeredOn' = today /\ outcome' = "ready"
      /\ silent' = {} => silent = {}
  BY <1>1 DEF AllConfirm, AllConfirmed, Asked
<1>3. /\ tiers["verification"] = "deep" /\ HistoryOf(order.supplier) # {}
      /\ \A h \in HistoryOf(order.supplier) :
            ValidStructure(h.gstin) /\ h.licence >= today /\ h.disputes <= MAX_ACCEPTABLE_DISPUTES
  BY <1>1, <1>2, RoundFinds
<1>4. /\ RunPriceCheck(order, tiers["price"]).confidence = "confirmed"
      /\ RunAvailabilityCheck(order, today, tiers["availability"]).confidence = "confirmed"
  BY <1>1, <1>2, RoundIs DEF Confirmed
<1>5. [outcome |-> "aborts", request |-> order] \notin PRESETS
  BY <1>1, <1>4, PresetsAbort
<1>6. ASSUME silent' = {}
      PROVE  tiers["price"] = "standard" /\ tiers["availability"] # "shallow"
  <2>1. refused' = {}
    BY <1>2 DEF RefusalInv, RefusedNeverReady
  <2>2. refused = {}
    BY <2>1 DEF AllConfirm, Asked
  <2>3. rounds # 1
    BY <1>1, <1>3 DEF Bought, OpeningTiers
  <2>4. rounds > 1
    BY <1>1, <2>3 DEF TypeOK
  <2>5. QED BY <1>2, <1>6, <2>2, <2>4 DEF Bought
<1>7. ASSUME silent' = {}
      PROVE  /\ PricesOf(order.sku, order.supplier) # {}
             /\ \A e \in PricesOf(order.sku, order.supplier) : e.live <= order.ceiling
             /\ StockOf(order.sku, order.supplier) # {}
             /\ \A r \in StockOf(order.sku, order.supplier) :
                    /\ order.quantity <= r.live - r.reserved - r.pending
                    /\ r.slotFree
                    /\ Cardinality(Weekdays((today + 1) .. order.requiredBy)) >= r.lead
  <2>1. RunPriceCheck(order, "standard").confidence = "confirmed"
    BY <1>4, <1>6, <1>7
  <2>2. tiers["availability"] \in Tier \ {"shallow"}
    BY <1>1, <1>6, <1>7
  <2>3. /\ PricesOf(order.sku, order.supplier) # {}
        /\ \A e \in PricesOf(order.sku, order.supplier) : e.live <= order.ceiling
    BY <1>1, <2>1, LivePrice
  <2>4. /\ StockOf(order.sku, order.supplier) # {}
        /\ \A r \in StockOf(order.sku, order.supplier) :
                    /\ order.quantity <= r.live - r.reserved - r.pending
                    /\ r.slotFree
                    /\ Cardinality(Weekdays((today + 1) .. order.requiredBy)) >= r.lead
    BY <1>1, <1>4, <2>2, FreeStock
  <2>5. QED BY <2>3, <2>4
<1>8. QED BY <1>2, <1>3, <1>5, <1>7 DEF ReadyOrdersAreGood, Reliable, Affordable, Suppliable

LEMMA GoodInvariance ==
    ASSUME Discerning, MaxRounds <= 3
    PROVE  Spec => [](Bought /\ ReadyOrdersAreGood)
<1>1. Init => Bought /\ ReadyOrdersAreGood
  <2>1. FeesOf(OpeningTiers) = 30000 /\ OpeningTiers["price"] = "shallow"
    BY DEF FeesOf, OpeningTiers, TierFee, Check
  <2>2. QED BY <2>1 DEF Init, Bought, ReadyOrdersAreGood
<1>2. /\ RefusalInv /\ RefusalInv' /\ Bought /\ ReadyOrdersAreGood /\ [Next]_vars
      => Bought' /\ ReadyOrdersAreGood'
  <2>1. SUFFICES ASSUME RefusalInv, RefusalInv', Bought, ReadyOrdersAreGood, [Next]_vars
                 PROVE  Bought' /\ ReadyOrdersAreGood'
    OBVIOUS
  <2>2. ASSUME NEW reply \in RegistryReply, NEW unreached \in SUBSET Check,
               NEW v, v = RoundVerdicts(reply, unreached)
        PROVE  /\ AllConfirm(v) => Bought' /\ ReadyOrdersAreGood'
               /\ Escalate(v) => Bought' /\ ReadyOrdersAreGood'
               /\ GiveUp(v) => Bought' /\ ReadyOrdersAreGood'
    <3>1. CASE AllConfirm(v)
      <4>1. ReadyOrdersAreGood'
        BY <2>1, <2>2, <3>1, ConfirmedIsGood
      <4>2. Bought'
        BY <2>1, <3>1 DEF AllConfirm, Asked, Bought
      <4>3. QED BY <4>1, <4>2
    <3>2. CASE Escalate(v)
      <4>1. Bought'
        BY <2>1, <2>2, <3>2, EscalationBuys
      <4>2. outcome' # "ready"
        BY <3>2 DEF Escalate, Asked
      <4>3. QED BY <4>1, <4>2 DEF ReadyOrdersAreGood
    <3>3. CASE GiveUp(v)
      BY <2>1, <3>3 DEF GiveUp, Asked, Bought, ReadyOrdersAreGood
    <3>4. CASE ~AllConfirm(v) /\ ~Escalate(v) /\ ~GiveUp(v)
      BY <3>4
    <3>5. QED BY <3>1, <3>2, <3>3, <3>4
  <2>3. CASE NextDay
    BY <2>1, <2>3 DEF NextDay, Bought, ReadyOrdersAreGood
  <2>4. CASE UNCHANGED vars
    BY <2>1, <2>4 DEF vars, Bought, ReadyOrdersAreGood, Reliable, Affordable, Suppliable
  <2>5. QED BY <2>1, <2>2, <2>3, <2>4 DEF Next
<1>3. QED BY <1>1, <1>2, RefusalInvariance, PTL DEF Spec

\* For every order: it becomes ready only from a supplier a deep look finds
\* reliable, and, if no check was ever silent, at a live price within the ceiling
\* with free units that leave in time; and never if the form says it aborts.  The
\* policy must buy past the cache and stop at the live price, as the default one
\* does: above 90 percent it would go on to the rebate, below 69 stop at the cache.
THEOREM GoodTheorem ==
    ASSUME Discerning, MaxRounds <= 3
    PROVE  Spec => []ReadyOrdersAreGood
<1>1. QED BY GoodInvariance, PTL

--------------------------------------------------------------------------------
(* The check digit of a tax number: no single wrong character and no exchange of
   neighbours other than 0 and Z leaves it right. *)

\* The fourteen characters a check digit is computed from.
First14 == [1 .. 14 -> Char]

\* Each weight maps the characters into the residues of 36, and no two
\* characters to the same one.
LEMMA ContributionIsInjective ==
    ASSUME NEW i \in 1 .. 14, NEW a \in Char, NEW b \in Char
    PROVE  /\ Contribution(i, a) \in 0 .. 35
           /\ Contribution(i, a) = Contribution(i, b) => a = b
<1>1. CASE i % 2 = 1
  BY <1>1 DEF Contribution, Char
<1>2. CASE i % 2 # 1
  <2>1. ASSUME NEW c \in Char
        PROVE  Contribution(i, c) = IF c < 18 THEN 2 * c ELSE 2 * c - 35
    BY <1>2 DEF Contribution, Char
  <2>2. QED BY <2>1 DEF Char
<1>3. QED BY <1>1, <1>2

\* Two neighbours contribute the same when exchanged only if they are equal, or
\* are 0 and Z.
LEMMA ExchangeIsSeen ==
    ASSUME NEW i \in 1 .. 13, NEW a \in Char, NEW b \in Char, a # b, {a, b} # {0, Z}
    PROVE  (Contribution(i, a) + Contribution(i + 1, b)) % 36
               # (Contribution(i, b) + Contribution(i + 1, a)) % 36
<1> DEFINE Double(c) == IF c < 18 THEN 2 * c ELSE 2 * c - 35
<1>1. ASSUME NEW j \in 1 .. 14, NEW c \in Char
      PROVE  Contribution(j, c) = IF j % 2 = 1 THEN c ELSE Double(c)
  BY <1>1 DEF Contribution, Char
<1>2. ~(a = 0 /\ b = 35) /\ ~(a = 35 /\ b = 0)
  BY DEF Z
<1>3. (a + Double(b)) % 36 # (b + Double(a)) % 36
  BY <1>2 DEF Char
<1>4. CASE i % 2 = 1
  <2>1. (i + 1) % 2 # 1 /\ i \in 1 .. 14 /\ i + 1 \in 1 .. 14 BY <1>4
  <2>2. QED BY <1>1, <1>3, <1>4, <2>1
<1>5. CASE i % 2 # 1
  <2>1. (i + 1) % 2 = 1 /\ i \in 1 .. 14 /\ i + 1 \in 1 .. 14 BY <1>5
  <2>2. Double(a) + b = b + Double(a) /\ Double(b) + a = a + Double(b) BY DEF Char
  <2>3. QED BY <1>1, <1>3, <1>5, <2>1, <2>2
<1>6. QED BY <1>4, <1>5

\* Two sums with different remainders have different check digits.
LEMMA RemainderDecides ==
    ASSUME NEW s, NEW t, Checksum(s) \in Nat, Checksum(t) \in Nat,
           Checksum(s) % 36 # Checksum(t) % 36
    PROVE  ComputeCheckDigit(s) # ComputeCheckDigit(t)
<1>1. \A r, q \in 0 .. 35 : (36 - r) % 36 = (36 - q) % 36 => r = q
  OBVIOUS
<1>2. Checksum(s) % 36 \in 0 .. 35 /\ Checksum(t) % 36 \in 0 .. 35
  OBVIOUS
<1>3. QED BY <1>1, <1>2 DEF ComputeCheckDigit

\* Pairs of characters contribute natural numbers, and so does the whole.
LEMMA ChecksumType ==
    ASSUME NEW s \in First14
    PROVE  PairSums(s) \in [1 .. 7 -> 0 .. 70] /\ Checksum(s) \in Nat
<1>1. \A k \in 1 .. 7 : /\ Contribution(2 * k - 1, s[2 * k - 1]) \in 0 .. 35
                        /\ Contribution(2 * k, s[2 * k]) \in 0 .. 35
  <2>1. ASSUME NEW k \in 1 .. 7
        PROVE  2 * k - 1 \in 1 .. 14 /\ 2 * k \in 1 .. 14
    BY <2>1
  <2>2. QED BY <2>1, ContributionIsInjective DEF First14
<1>2. PairSums(s) \in [1 .. 7 -> 0 .. 70]
  <2>1. \A a, b \in 0 .. 35 : a + b \in 0 .. 70
    OBVIOUS
  <2>2. \A k \in 1 .. 7 : Contribution(2 * k - 1, s[2 * k - 1]) + Contribution(2 * k, s[2 * k])
                            \in 0 .. 70
    BY <1>1, <2>1
  <2>3. QED BY <2>2 DEF PairSums
<1> DEFINE p == PairSums(s)
<1>3. /\ p[1] \in Nat /\ p[2] \in Nat /\ p[3] \in Nat /\ p[4] \in Nat /\ p[5] \in Nat
      /\ p[6] \in Nat /\ p[7] \in Nat
  BY <1>2
<1>4. Checksum(s) = p[1] + p[2] + p[3] + p[4] + p[5] + p[6] + p[7]
  BY DEF Checksum
<1> HIDE DEF p
<1>5. Checksum(s) \in Nat
  BY <1>3, <1>4
<1>6. QED BY <1>2, <1>5

\* Sums of seven that agree but at two neighbouring places differ by what these
\* places differ.
SumOfSeven(p) == p[1] + p[2] + p[3] + p[4] + p[5] + p[6] + p[7]

LEMMA TwoApart ==
    ASSUME NEW p \in [1 .. 7 -> 0 .. 70], NEW q \in [1 .. 7 -> 0 .. 70],
           NEW k \in 1 .. 6, \A j \in 1 .. 7 : j \notin {k, k + 1} => p[j] = q[j]
    PROVE  SumOfSeven(p) - SumOfSeven(q) = (p[k] + p[k + 1]) - (q[k] + q[k + 1])
<1> USE DEF SumOfSeven
<1>1. /\ p[1] \in Int /\ p[2] \in Int /\ p[3] \in Int /\ p[4] \in Int /\ p[5] \in Int
      /\ p[6] \in Int /\ p[7] \in Int
      /\ q[1] \in Int /\ q[2] \in Int /\ q[3] \in Int /\ q[4] \in Int /\ q[5] \in Int
      /\ q[6] \in Int /\ q[7] \in Int
  OBVIOUS
<1>2. CASE k = 1
  <2>1. /\ p[3] = q[3] /\ p[4] = q[4] /\ p[5] = q[5] /\ p[6] = q[6] /\ p[7] = q[7]
    BY <1>2
  <2>2. QED BY <1>1, <1>2, <2>1
<1>3. CASE k = 2
  <2>1. /\ p[1] = q[1] /\ p[4] = q[4] /\ p[5] = q[5] /\ p[6] = q[6] /\ p[7] = q[7]
    BY <1>3
  <2>2. QED BY <1>1, <1>3, <2>1
<1>4. CASE k = 3
  <2>1. /\ p[1] = q[1] /\ p[2] = q[2] /\ p[5] = q[5] /\ p[6] = q[6] /\ p[7] = q[7]
    BY <1>4
  <2>2. QED BY <1>1, <1>4, <2>1
<1>5. CASE k = 4
  <2>1. /\ p[1] = q[1] /\ p[2] = q[2] /\ p[3] = q[3] /\ p[6] = q[6] /\ p[7] = q[7]
    BY <1>5
  <2>2. QED BY <1>1, <1>5, <2>1
<1>6. CASE k = 5
  <2>1. /\ p[1] = q[1] /\ p[2] = q[2] /\ p[3] = q[3] /\ p[4] = q[4] /\ p[7] = q[7]
    BY <1>6
  <2>2. QED BY <1>1, <1>6, <2>1
<1>7. CASE k = 6
  <2>1. /\ p[1] = q[1] /\ p[2] = q[2] /\ p[3] = q[3] /\ p[4] = q[4] /\ p[5] = q[5]
    BY <1>7
  <2>2. QED BY <1>1, <1>7, <2>1
<1>8. QED BY <1>2, <1>3, <1>4, <1>5, <1>6, <1>7

\* Numbers that differ by less than 36 have different remainders.
LEMMA SmallDifference ==
    ASSUME NEW x \in Nat, NEW y \in Nat, NEW a \in 0 .. 35, NEW b \in 0 .. 35,
           x - y = a - b, a # b
    PROVE  x % 36 # y % 36
OBVIOUS

\* Numbers with one difference agree in their remainders together.
LEMMA SameDifference ==
    ASSUME NEW x \in Nat, NEW y \in Nat, NEW a \in 0 .. 70, NEW b \in 0 .. 70,
           x - y = a - b, a % 36 # b % 36
    PROVE  x % 36 # y % 36
OBVIOUS

\* What is added to both sides makes no difference.
LEMMA SameAdded ==
    ASSUME NEW x \in 0 .. 35, NEW y \in 0 .. 35, NEW z \in 0 .. 35
    PROVE  (x + z) - (y + z) = x - y /\ (z + x) - (z + y) = x - y
OBVIOUS

\* Two numbers that agree but at positions i and i + 1 have checksums that differ
\* by what those two positions contribute.
LEMMA ChecksumsApart ==
    ASSUME NEW s \in First14, NEW t \in First14, NEW i \in 1 .. 13,
           \A j \in 1 .. 14 : j \notin {i, i + 1} => s[j] = t[j]
    PROVE  Checksum(s) - Checksum(t) =
               (Contribution(i, s[i]) + Contribution(i + 1, s[i + 1]))
                   - (Contribution(i, t[i]) + Contribution(i + 1, t[i + 1]))
<1> DEFINE p == PairSums(s)
           q == PairSums(t)
           c(j) == Contribution(j, s[j])
           d(j) == Contribution(j, t[j])
<1>1. p \in [1 .. 7 -> 0 .. 70] /\ q \in [1 .. 7 -> 0 .. 70]
  BY ChecksumType
<1>2. \A k \in 1 .. 7 : p[k] = c(2 * k - 1) + c(2 * k) /\ q[k] = d(2 * k - 1) + d(2 * k)
  BY DEF PairSums
<1>3. \A j \in 1 .. 14 : c(j) \in 0 .. 35 /\ d(j) \in 0 .. 35
  BY ContributionIsInjective DEF First14
<1>4. \A j \in 1 .. 14 : j \notin {i, i + 1} => c(j) = d(j)
  OBVIOUS
<1>5. Checksum(s) = SumOfSeven(p) /\ Checksum(t) = SumOfSeven(q)
  BY DEF Checksum, SumOfSeven
<1> HIDE DEF p, q, c, d
<1>6. CASE i = 13
  <2>1. \A k \in 1 .. 6 : p[k] = q[k]
    <3>1. ASSUME NEW k \in 1 .. 6 PROVE p[k] = q[k]
      <4>1. c(2 * k - 1) = d(2 * k - 1) /\ c(2 * k) = d(2 * k)
        BY <1>4, <1>6
      <4>2. QED BY <1>2, <4>1
    <3>2. QED BY <3>1
  <2>2. p[7] = c(13) + c(14) /\ q[7] = d(13) + d(14)
    BY <1>2
  <2>3. Checksum(s) - Checksum(t) = (p[6] + p[7]) - (q[6] + q[7])
    <3>1. \A j \in 1 .. 7 : j \notin {6, 6 + 1} => p[j] = q[j] BY <2>1
    <3>2. SumOfSeven(p) - SumOfSeven(q) = (p[6] + p[6 + 1]) - (q[6] + q[6 + 1])
      BY <1>1, <3>1, TwoApart
    <3>3. QED BY <1>5, <3>2
  <2>4. p[6] = q[6] /\ p[6] \in Int BY <1>1, <2>1
  <2>5. c(13) \in Int /\ c(14) \in Int /\ d(13) \in Int /\ d(14) \in Int
    BY <1>3
  <2>6. Checksum(s) - Checksum(t) = (c(i) + c(i + 1)) - (d(i) + d(i + 1))
    BY <1>6, <2>2, <2>3, <2>4, <2>5
  <2>7. QED BY <2>6 DEF c, d
<1>7. CASE i # 13
  <2>1. PICK k \in 1 .. 6 : i \in {2 * k - 1, 2 * k}
    <3>1. (i + 1) \div 2 \in 1 .. 6 /\ i \in {2 * ((i + 1) \div 2) - 1, 2 * ((i + 1) \div 2)}
      BY <1>7
    <3>2. QED BY <3>1
  <2>2. ASSUME NEW j \in 1 .. 7, j \notin {k, k + 1} PROVE p[j] = q[j]
    <3>1. 2 * j - 1 \in 1 .. 14 \ {i, i + 1} /\ 2 * j \in 1 .. 14 \ {i, i + 1}
      BY <2>1, <2>2
    <3>2. QED BY <1>2, <1>4, <3>1
  <2>3. Checksum(s) - Checksum(t) = (p[k] + p[k + 1]) - (q[k] + q[k + 1])
    BY <1>1, <1>5, <2>2, TwoApart
  <2>4. /\ p[k] = c(2 * k - 1) + c(2 * k) /\ p[k + 1] = c(2 * k + 1) + c(2 * k + 2)
        /\ q[k] = d(2 * k - 1) + d(2 * k) /\ q[k + 1] = d(2 * k + 1) + d(2 * k + 2)
    <3>1. k \in 1 .. 7 /\ k + 1 \in 1 .. 7 /\ 2 * (k + 1) - 1 = 2 * k + 1 /\ 2 * (k + 1) = 2 * k + 2
      OBVIOUS
    <3>2. QED BY <1>2, <3>1
  <2>5. /\ c(2 * k - 1) \in Int /\ c(2 * k) \in Int /\ c(2 * k + 1) \in Int
        /\ c(2 * k + 2) \in Int /\ d(2 * k - 1) \in Int /\ d(2 * k) \in Int
        /\ d(2 * k + 1) \in Int /\ d(2 * k + 2) \in Int
    <3>1. ASSUME NEW j \in 1 .. 14 PROVE c(j) \in Int /\ d(j) \in Int
      BY <1>3
    <3>2. /\ 2 * k - 1 \in 1 .. 14 /\ 2 * k \in 1 .. 14
          /\ 2 * k + 1 \in 1 .. 14 /\ 2 * k + 2 \in 1 .. 14
      OBVIOUS
    <3>3. QED BY <3>1, <3>2
  <2>6. Checksum(s) - Checksum(t) = (c(i) + c(i + 1)) - (d(i) + d(i + 1))
    <3>1. CASE i = 2 * k - 1
      <4>1. c(2 * k + 1) = d(2 * k + 1) /\ c(2 * k + 2) = d(2 * k + 2)
        BY <1>4, <3>1
      <4>2. QED BY <2>3, <2>4, <2>5, <3>1, <4>1
    <3>2. CASE i = 2 * k
      <4>1. c(2 * k - 1) = d(2 * k - 1) /\ c(2 * k + 2) = d(2 * k + 2)
        BY <1>4, <3>2
      <4>2. QED BY <2>3, <2>4, <2>5, <3>2, <4>1
    <3>3. QED BY <2>1, <3>1, <3>2
  <2>7. QED BY <2>6 DEF c, d
<1>8. QED BY <1>6, <1>7

\* A wrong character anywhere changes the check digit (computeCheckDigit).
THEOREM SubstitutionIsCaught ==
    ASSUME NEW s \in First14, NEW t \in First14, Substitution(s, t)
    PROVE  ComputeCheckDigit(s) # ComputeCheckDigit(t)
<1> DEFINE c(j) == Contribution(j, s[j])
           d(j) == Contribution(j, t[j])
<1>1. PICK i \in 1 .. 14 : s[i] # t[i] /\ \A j \in 1 .. 14 : j # i => s[j] = t[j]
  BY DEF Substitution
<1>2. PICK k \in 1 .. 13 : i \in {k, k + 1}
  <2>1. CASE i = 14
    <3>1. 13 \in 1 .. 13 /\ i \in {13, 13 + 1} BY <2>1
    <3>2. QED BY <3>1
  <2>2. CASE i # 14 BY <2>2
  <2>3. QED BY <2>1, <2>2
<1>3. \A j \in 1 .. 14 : c(j) \in 0 .. 35 /\ d(j) \in 0 .. 35
  BY ContributionIsInjective DEF First14
<1>4. c(i) # d(i)
  BY <1>1, ContributionIsInjective DEF First14
<1>5. \A j \in 1 .. 14 : j # i => c(j) = d(j)
  BY <1>1
<1>6. Checksum(s) - Checksum(t) = (c(k) + c(k + 1)) - (d(k) + d(k + 1))
  BY <1>1, <1>2, ChecksumsApart
<1> HIDE DEF c, d
<1>7. Checksum(s) - Checksum(t) = c(i) - d(i)
  <2>1. k \in 1 .. 14 /\ k + 1 \in 1 .. 14 OBVIOUS
  <2>2. CASE i = k
    <3>1. c(k + 1) = d(k + 1) /\ c(k + 1) \in 0 .. 35 BY <1>3, <1>5, <2>1, <2>2
    <3>2. c(k) \in 0 .. 35 /\ d(k) \in 0 .. 35 BY <1>3, <2>1
    <3>3. (c(k) + c(k + 1)) - (d(k) + c(k + 1)) = c(k) - d(k)
      BY <3>1, <3>2, SameAdded
    <3>4. QED BY <1>6, <2>2, <3>1, <3>3
  <2>3. CASE i = k + 1
    <3>1. c(k) = d(k) /\ c(k) \in 0 .. 35 BY <1>3, <1>5, <2>1, <2>3
    <3>2. c(k + 1) \in 0 .. 35 /\ d(k + 1) \in 0 .. 35 BY <1>3, <2>1
    <3>3. (c(k) + c(k + 1)) - (c(k) + d(k + 1)) = c(k + 1) - d(k + 1)
      BY <3>1, <3>2, SameAdded
    <3>4. QED BY <1>6, <2>3, <3>1, <3>3
  <2>4. QED BY <1>2, <2>2, <2>3
<1>8. Checksum(s) % 36 # Checksum(t) % 36
  BY <1>3, <1>4, <1>7, ChecksumType, SmallDifference
<1>9. QED BY <1>8, ChecksumType, RemainderDecides

\* So does the exchange of two neighbours, unless they are 0 and Z.
THEOREM TranspositionIsCaught ==
    ASSUME NEW s \in First14, NEW t \in First14, Transposition(s, t)
    PROVE  ComputeCheckDigit(s) # ComputeCheckDigit(t)
<1>1. PICK i \in 1 .. 13 :
        /\ s[i] # s[i + 1] /\ {s[i], s[i + 1]} # {0, Z}
        /\ t[i] = s[i + 1] /\ t[i + 1] = s[i]
        /\ \A j \in 1 .. 14 : j \notin {i, i + 1} => s[j] = t[j]
  BY DEF Transposition
<1> DEFINE a == Contribution(i, s[i]) + Contribution(i + 1, s[i + 1])
           b == Contribution(i, t[i]) + Contribution(i + 1, t[i + 1])
<1>2. i \in 1 .. 14 /\ i + 1 \in 1 .. 14
  OBVIOUS
<1>3. s[i] \in Char /\ s[i + 1] \in Char
  BY <1>2 DEF First14
<1>4. a % 36 # b % 36
  BY <1>1, <1>3, ExchangeIsSeen
<1>5. a \in 0 .. 70 /\ b \in 0 .. 70
  <2>1. /\ Contribution(i, s[i]) \in 0 .. 35 /\ Contribution(i + 1, s[i + 1]) \in 0 .. 35
        /\ Contribution(i, t[i]) \in 0 .. 35 /\ Contribution(i + 1, t[i + 1]) \in 0 .. 35
    BY <1>1, <1>2, <1>3, ContributionIsInjective
  <2>2. QED BY <2>1
<1>6. Checksum(s) - Checksum(t) = a - b
  BY <1>1, ChecksumsApart
<1> HIDE DEF a, b
<1>7. Checksum(s) % 36 # Checksum(t) % 36
  BY <1>4, <1>5, <1>6, ChecksumType, SameDifference
<1>8. QED BY <1>7, ChecksumType, RemainderDecides
--------------------------------------------------------------------------------
(* Mistyped tax numbers. *)

\* The fourteen characters of a number that its check digit is computed from.
Checked(s) == [i \in 1 .. 14 |-> s[i]]

LEMMA CheckedDecides ==
    ASSUME NEW s
    PROVE  ComputeCheckDigit(s) = ComputeCheckDigit(Checked(s))
<1>1. PairSums(s) = PairSums(Checked(s))
  <2>1. \A k \in 1 .. 7 : /\ Checked(s)[2 * k - 1] = s[2 * k - 1]
                          /\ Checked(s)[2 * k] = s[2 * k]
    BY DEF Checked
  <2>2. QED BY <2>1 DEF PairSums
<1>2. QED BY <1>1 DEF ComputeCheckDigit, Checksum

\* A slip in a well-formed number leaves one that is not well formed: the check
\* digit, which it does not touch, is no longer the right one.
LEMMA SlipIsCaught ==
    ASSUME NEW s \in [1 .. 15 -> Char], ValidStructure(s), NEW t \in [1 .. 15 -> Char],
           t[15] = s[15],
           Substitution(Checked(s), Checked(t)) \/ Transposition(Checked(s), Checked(t))
    PROVE  ~ValidStructure(t)
<1>1. Checked(s) \in First14 /\ Checked(t) \in First14
  BY DEF Checked, First14
<1>2. ComputeCheckDigit(Checked(s)) # ComputeCheckDigit(Checked(t))
  BY <1>1, SubstitutionIsCaught, TranspositionIsCaught
<1>3. s[15] = ComputeCheckDigit(s)
  BY DEF ValidStructure
<1>4. SUFFICES ASSUME ValidStructure(t) PROVE FALSE
  OBVIOUS
<1>5. t[15] = ComputeCheckDigit(t)
  BY <1>4 DEF ValidStructure
<1>6. QED BY <1>2, <1>3, <1>5, CheckedDecides

LEMMA ReplacedIsCaught ==
    ASSUME NEW s \in [1 .. 15 -> Char], ValidStructure(s),
           NEW i \in 1 .. 14, NEW x \in Char, x # s[i]
    PROVE  ~ValidStructure(Replaced(s, i, x))
<1> DEFINE t == [s EXCEPT ![i] = x]
<1>1. t \in [1 .. 15 -> Char] /\ t[15] = s[15] /\ t[i] = x /\ \A j \in 1 .. 14 : j # i => t[j] = s[j]
  OBVIOUS
<1> HIDE DEF t
<1>2. Checked(s)[i] # Checked(t)[i] /\ \A j \in 1 .. 14 : j # i => Checked(s)[j] = Checked(t)[j]
  BY <1>1 DEF Checked
<1>3. Substitution(Checked(s), Checked(t))
  BY <1>2 DEF Substitution
<1>4. ~ValidStructure(t)
  BY <1>1, <1>3, SlipIsCaught
<1>5. QED BY <1>4 DEF t, Replaced

LEMMA ExchangedIsCaught ==
    ASSUME NEW s \in [1 .. 15 -> Char], ValidStructure(s), NEW i \in 1 .. 13,
           s[i] # s[i + 1], {s[i], s[i + 1]} # {0, Z}
    PROVE  ~ValidStructure(Exchanged(s, i))
<1> DEFINE t == [s EXCEPT ![i] = s[i + 1], ![i + 1] = s[i]]
<1>1. /\ t \in [1 .. 15 -> Char] /\ t[15] = s[15] /\ t[i] = s[i + 1] /\ t[i + 1] = s[i]
      /\ \A j \in 1 .. 14 : j \notin {i, i + 1} => t[j] = s[j]
  OBVIOUS
<1> HIDE DEF t
<1>2. /\ Checked(s)[i] = s[i] /\ Checked(s)[i + 1] = s[i + 1]
      /\ Checked(t)[i] = s[i + 1] /\ Checked(t)[i + 1] = s[i]
      /\ \A j \in 1 .. 14 : j \notin {i, i + 1} => Checked(s)[j] = Checked(t)[j]
  BY <1>1 DEF Checked
<1>3. Transposition(Checked(s), Checked(t))
  BY <1>2 DEF Transposition
<1>4. ~ValidStructure(t)
  BY <1>1, <1>3, SlipIsCaught
<1>5. QED BY <1>4 DEF t, Exchanged

\* A number of the right make is well formed exactly when its last character is the
\* check digit of the others.
LEMMA OnlyTheCheckDigit ==
    ASSUME NEW s \in [1 .. 15 -> Char], Len(s) = 15, AssignedState(s[1], s[2]), HasPan(s), s[14] = Z,
           NEW m \in Nat, Checksum(s) = m
    PROVE  ValidStructure(s) <=> s[15] = (36 - (m % 36)) % 36
BY DEF ValidStructure, ComputeCheckDigit

\* The numbers on file are well formed, but for that of HYD.
LEMMA NumbersOnFile ==
    \A h \in SUPPLIER_HISTORY :
        /\ h.gstin \in [1 .. 15 -> Char]
        /\ ValidStructure(h.gstin) <=> h.supplier # "HYD"
<1>1. ASSUME NEW s, s = <<2, 9, 10, 10, 11, 12, 25, 1, 2, 3, 4, 22, 1, 35, 11>>
      PROVE  s \in [1 .. 15 -> Char] /\ ValidStructure(s)
  <2>1. s \in [1 .. 15 -> Char] /\ Len(s) = 15
    BY <1>1 DEF Char
  <2>2. /\ s[1] = 2 /\ s[2] = 9 /\ s[3] = 10 /\ s[4] = 10 /\ s[5] = 11 /\ s[6] = 12
        /\ s[7] = 25 /\ s[8] = 1 /\ s[9] = 2 /\ s[10] = 3 /\ s[11] = 4 /\ s[12] = 22
        /\ s[13] = 1 /\ s[14] = 35 /\ s[15] = 11
    BY <1>1
  <2>3. Checksum(s) = 169
    BY <2>2 DEF Checksum, PairSums, Contribution
  <2>4. AssignedState(s[1], s[2]) /\ HasPan(s) /\ s[14] = Z
    BY <2>2 DEF AssignedState, HasPan, Digit, Letter, Z
  <2>5. QED BY <2>1, <2>2, <2>3, <2>4, OnlyTheCheckDigit
<1>2. ASSUME NEW s, s = <<3, 3, 10, 10, 17, 12, 12, 3, 4, 5, 6, 26, 1, 35, 9>>
      PROVE  s \in [1 .. 15 -> Char] /\ ValidStructure(s)
  <2>1. s \in [1 .. 15 -> Char] /\ Len(s) = 15
    BY <1>2 DEF Char
  <2>2. /\ s[1] = 3 /\ s[2] = 3 /\ s[3] = 10 /\ s[4] = 10 /\ s[5] = 17 /\ s[6] = 12
        /\ s[7] = 12 /\ s[8] = 3 /\ s[9] = 4 /\ s[10] = 5 /\ s[11] = 6 /\ s[12] = 26
        /\ s[13] = 1 /\ s[14] = 35 /\ s[15] = 9
    BY <1>2
  <2>3. Checksum(s) = 171
    BY <2>2 DEF Checksum, PairSums, Contribution
  <2>4. AssignedState(s[1], s[2]) /\ HasPan(s) /\ s[14] = Z
    BY <2>2 DEF AssignedState, HasPan, Digit, Letter, Z
  <2>5. QED BY <2>1, <2>2, <2>3, <2>4, OnlyTheCheckDigit
<1>3. ASSUME NEW s, s = <<2, 7, 10, 10, 15, 12, 12, 5, 6, 7, 8, 23, 1, 35, 34>>
      PROVE  s \in [1 .. 15 -> Char] /\ ValidStructure(s)
  <2>1. s \in [1 .. 15 -> Char] /\ Len(s) = 15
    BY <1>3 DEF Char
  <2>2. /\ s[1] = 2 /\ s[2] = 7 /\ s[3] = 10 /\ s[4] = 10 /\ s[5] = 15 /\ s[6] = 12
        /\ s[7] = 12 /\ s[8] = 5 /\ s[9] = 6 /\ s[10] = 7 /\ s[11] = 8 /\ s[12] = 23
        /\ s[13] = 1 /\ s[14] = 35 /\ s[15] = 34
    BY <1>3
  <2>3. Checksum(s) = 182
    BY <2>2 DEF Checksum, PairSums, Contribution
  <2>4. AssignedState(s[1], s[2]) /\ HasPan(s) /\ s[14] = Z
    BY <2>2 DEF AssignedState, HasPan, Digit, Letter, Z
  <2>5. QED BY <2>1, <2>2, <2>3, <2>4, OnlyTheCheckDigit
<1>4. ASSUME NEW s, s = <<0, 7, 10, 10, 16, 12, 23, 9, 0, 1, 2, 25, 1, 35, 0>>
      PROVE  s \in [1 .. 15 -> Char] /\ ValidStructure(s)
  <2>1. s \in [1 .. 15 -> Char] /\ Len(s) = 15
    BY <1>4 DEF Char
  <2>2. /\ s[1] = 0 /\ s[2] = 7 /\ s[3] = 10 /\ s[4] = 10 /\ s[5] = 16 /\ s[6] = 12
        /\ s[7] = 23 /\ s[8] = 9 /\ s[9] = 0 /\ s[10] = 1 /\ s[11] = 2 /\ s[12] = 25
        /\ s[13] = 1 /\ s[14] = 35 /\ s[15] = 0
    BY <1>4
  <2>3. Checksum(s) = 180
    BY <2>2 DEF Checksum, PairSums, Contribution
  <2>4. AssignedState(s[1], s[2]) /\ HasPan(s) /\ s[14] = Z
    BY <2>2 DEF AssignedState, HasPan, Digit, Letter, Z
  <2>5. QED BY <2>1, <2>2, <2>3, <2>4, OnlyTheCheckDigit
<1>5. ASSUME NEW s, s = <<3, 6, 10, 10, 19, 12, 13, 7, 8, 9, 0, 27, 1, 35, 16>>
      PROVE  s \in [1 .. 15 -> Char] /\ ~ValidStructure(s)
  <2>1. s \in [1 .. 15 -> Char] /\ Len(s) = 15
    BY <1>5 DEF Char
  <2>2. /\ s[1] = 3 /\ s[2] = 6 /\ s[3] = 10 /\ s[4] = 10 /\ s[5] = 19 /\ s[6] = 12
        /\ s[7] = 13 /\ s[8] = 7 /\ s[9] = 8 /\ s[10] = 9 /\ s[11] = 0 /\ s[12] = 27
        /\ s[13] = 1 /\ s[14] = 35 /\ s[15] = 16
    BY <1>5
  <2>3. Checksum(s) = 196
    BY <2>2 DEF Checksum, PairSums, Contribution
  <2>4. AssignedState(s[1], s[2]) /\ HasPan(s) /\ s[14] = Z
    BY <2>2 DEF AssignedState, HasPan, Digit, Letter, Z
  <2>5. QED BY <2>1, <2>2, <2>3, <2>4, OnlyTheCheckDigit
<1>6. \A h \in SUPPLIER_HISTORY :
        \/ h.supplier = "BLR" /\ h.gstin = <<2, 9, 10, 10, 11, 12, 25, 1, 2, 3, 4, 22, 1, 35, 11>>
        \/ h.supplier = "CHN" /\ h.gstin = <<3, 3, 10, 10, 17, 12, 12, 3, 4, 5, 6, 26, 1, 35, 9>>
        \/ h.supplier = "PUN" /\ h.gstin = <<2, 7, 10, 10, 15, 12, 12, 5, 6, 7, 8, 23, 1, 35, 34>>
        \/ h.supplier = "DEL" /\ h.gstin = <<0, 7, 10, 10, 16, 12, 23, 9, 0, 1, 2, 25, 1, 35, 0>>
        \/ h.supplier = "HYD" /\ h.gstin = <<3, 6, 10, 10, 19, 12, 13, 7, 8, 9, 0, 27, 1, 35, 16>>
  BY DEF SUPPLIER_HISTORY, SupplierHistory
<1>7. QED BY <1>1, <1>2, <1>3, <1>4, <1>5, <1>6

\* Whichever supplier an order names, a single wrong character in its number, or an
\* exchange of neighbours other than 0 and Z, is ruled out by the cheapest tier; so
\* is the number of HYD as it stands.
THEOREM MistypedTheorem == Spec => []MistypedNumbersAreRejected
<1>1. ASSUME NEW supplier, NEW h \in HistoryOf(supplier), supplier # "HYD"
      PROVE  h \in SlipsAreCaught
  <2>1. /\ h \in SUPPLIER_HISTORY /\ h.supplier # "HYD"
        /\ h.gstin \in [1 .. 15 -> Char] /\ ValidStructure(h.gstin)
    BY <1>1, NumbersOnFile DEF HistoryOf
  <2>2. \A i \in 1 .. 14, x \in Char : x # h.gstin[i] => ~ValidStructure(Replaced(h.gstin, i, x))
    BY <2>1, ReplacedIsCaught
  <2>3. \A i \in 1 .. 13 : h.gstin[i] # h.gstin[i + 1] /\ {h.gstin[i], h.gstin[i + 1]} # {0, Z}
                              => ~ValidStructure(Exchanged(h.gstin, i))
    BY <2>1, ExchangedIsCaught
  <2>4. QED BY <2>1, <2>2, <2>3 DEF SlipsAreCaught
<1>2. \A h \in HistoryOf("HYD") : ~ValidStructure(h.gstin)
  BY NumbersOnFile DEF HistoryOf
<1>3. MistypedNumbersAreRejected
  BY <1>1, <1>2 DEF MistypedNumbersAreRejected
<1>4. QED BY <1>3, PTL
================================================================================
