---------------------------- MODULE CheckCallsProofs ----------------------------
(***************************************************************************)
(* Theorems about the check calls, for any configurations, answers,        *)
(* numbers of attempts and rounds, and however often the services and the  *)
(* facilitator change.                                                     *)
(***************************************************************************)
EXTENDS CheckCalls, SpendPolicyProofs, SequenceTheorems
--------------------------------------------------------------------------------
(* The inductive invariant. *)

Stage == {"booting", "idle", "quoting", "building", "signing", "verifying", "ready",
          "aborted", "failed"}
Group == [pays : [1 .. 3 -> [payTo : STRING, asset : STRING, amount : Nat]],
          feePayer : Key \union {NoKey}]
RunRecord == [stage : Stage, rounds : 0 .. MaxRounds, tiers : [Check -> Tier], spent : Nat,
              quotes : [Check -> Configuration \union {Pending}], groups : Seq(Group),
              signed : Nat]
Call == [at : {"idle", "waiting", "backoff"}, no : Nat, attempt : 0 .. QUOTE_ATTEMPTS,
         payment : Payment \union {NoPayment}]
Requests == [to : Check, no : Nat, payment : Payment \union {NoPayment},
             at : {"sent", "working"}]

\* The types, and what has been spent so far.
RunTyped ==
    /\ run \in RunRecord /\ run.spent <= Budget - Reserve
    /\ run.rounds > 0 => run.quotes \in [Check -> Configuration]

Typed ==
    /\ RunTyped
    /\ feePayer \in Key \union {NoKey} /\ signer \in Key
    /\ calls \in [Check -> Call] /\ wire \subseteq Requests
    /\ DOMAIN terms = Check /\ \A c \in Check : terms[c] \in Terms[c]
    /\ DOMAIN answers = Check /\ DOMAIN vouched = Check
    /\ \A c \in Check : answers[c] \in {Pending, NoAnswer} \union Terms[c] \union Verdict

\* Calls are open only while a collection or a fan-out goes on, or after a
\* collection that failed; an open one has no answer yet.
Open ==
    /\ run.stage \in {"booting", "idle", "building", "signing", "ready", "aborted"} =>
            \A c \in Check : calls[c].at = "idle"
    /\ run.stage \in {"quoting", "verifying"} =>
            \A c \in Check : calls[c].at # "idle" => answers[c] = Pending
    /\ run.stage \in {"building", "signing", "verifying", "ready", "aborted"} => run.rounds > 0
    /\ run.stage \in {"booting", "idle", "quoting"} => run.rounds = 0 /\ run.groups = <<>>

\* What the calls of a stage present, and what can be answered to them.
Presented ==
    /\ run.stage \in {"booting", "idle", "quoting"} =>
            \A c \in Check : calls[c].payment = NoPayment
    /\ run.stage = "quoting" =>
            \A c \in Check : answers[c] \in {Pending, NoAnswer} \union Terms[c]
    /\ run.stage = "verifying" =>
            /\ run.signed \in 1 .. Len(run.groups)
            /\ \A c \in Check : /\ calls[c].payment = PaymentHeader(c, run.signed)
                                /\ answers[c] \in {Pending, NoAnswer} \union Verdict

\* The calls of a collection are its attempts; after that there is one per round.
Counted ==
    \A c \in Check :
        /\ calls[c].payment = NoPayment => calls[c].no = calls[c].attempt
        /\ run.stage \in {"booting", "idle"} => calls[c].no = 0
        /\ calls[c].no <= QUOTE_ATTEMPTS + run.rounds
        /\ run.stage \in {"building", "signing"} =>
                calls[c].no <= QUOTE_ATTEMPTS + run.rounds - 1
        /\ calls[c].at = "backoff" =>
                calls[c].payment = NoPayment /\ calls[c].attempt < QUOTE_ATTEMPTS

\* A request shows the payment of the call it was made for, if that call is the
\* latest; one that is worked on is paid by the transaction it points at.
CarriesPayment(q) ==
    /\ q.no \in 1 .. calls[q.to].no
    /\ q.no = calls[q.to].no => q.payment = calls[q.to].payment
    /\ q.payment # NoPayment =>
            q.payment.index = GROUP_SLOT[q.to] /\ q.payment.group \in 1 .. Len(run.groups)
    /\ q.at = "working" =>
            /\ q.payment # NoPayment
            /\ run.groups[q.payment.group].pays[q.payment.index].amount = q.payment.amount

OnWire == \A q \in wire : CarriesPayment(q)

CallsInv == Typed /\ Open /\ Presented /\ Counted /\ OnWire /\ VerdictsAreOfTheRound
--------------------------------------------------------------------------------
(* Operators. *)

\* Each slot of the three belongs to a check, and no two checks share one.
LEMMA Slots ==
    /\ \A c \in Check : GROUP_SLOT[c] \in 1 .. 3
    /\ \A slot \in 1 .. 3 : (CHOOSE c \in Check : GROUP_SLOT[c] = slot) \in Check
<1>1. \A c \in Check : GROUP_SLOT[c] \in 1 .. 3
  BY DEF Check, GROUP_SLOT
<1>2. \A slot \in 1 .. 3 : \E c \in Check : GROUP_SLOT[c] = slot
  BY DEF Check, GROUP_SLOT
<1>3. QED BY <1>1, <1>2

\* A group built from quotes on file is a group, and one more for the run.
LEMMA BuildGroupType ==
    ASSUME Typed, run.rounds > 0
    PROVE  BuildGroup \in Group
<1>1. \A slot \in 1 .. 3 : RequireQuote(slot) \in Configuration
  BY Slots DEF Typed, RunTyped, RequireQuote
<1>2. \A slot \in 1 .. 3 : RoundFee(slot) \in Nat
  BY Slots, LadderTypes DEF Typed, RunTyped, RunRecord, RoundFee
<1>3. \A slot \in 1 .. 3 :
        [payTo |-> RequireQuote(slot).payTo, asset |-> RequireQuote(slot).asset,
         amount |-> RoundFee(slot)] \in [payTo : STRING, asset : STRING, amount : Nat]
  BY <1>1, <1>2 DEF Configuration
<1>4. QED BY <1>3 DEF BuildGroup, Group, Typed

\* The header of a round's payments is a payment.
LEMMA HeaderType ==
    ASSUME Typed, run.rounds > 0, NEW g \in Nat, NEW c \in Check
    PROVE  PaymentHeader(c, g) \in Payment /\ PaymentHeader(c, g) # NoPayment
<1>1. run.quotes[c] \in Configuration
  BY DEF Typed, RunTyped
<1>2. TierFee[run.tiers[c]] \in Nat /\ GROUP_SLOT[c] \in Nat
  <2>1. run.tiers[c] \in Tier /\ GROUP_SLOT[c] \in 1 .. 3
    BY Slots DEF Typed, RunTyped, RunRecord
  <2>2. QED BY <2>1, LadderTypes
<1>3. PaymentHeader(c, g) \in Payment
  BY <1>1, <1>2, CallsAssumption DEF PaymentHeader, PayeeMap, Payment, Configuration
<1>4. QED BY <1>3, CallsAssumption

\* A challenge is read as the configuration behind it, or not at all.
LEMMA ChallengeType ==
    ASSUME Typed, NEW c \in Check
    PROVE  ParseChallenge(c, Offer(c)) \in {NoAnswer, terms[c]}
<1>1. terms[c] \in Configuration
  BY CallsAssumption DEF Typed
<1>2. /\ Offer(c).accepts["shallow"].payTo = terms[c].payTo
      /\ Offer(c).accepts["shallow"].asset = terms[c].asset
      /\ Offer(c).paymentIndex = terms[c].slot
  BY DEF Check, Tier, Offer, PriceOffer, AvailabilityOffer, VerificationOffer,
         PriceRequirements, AvailabilityRequirements, VerificationRequirements
<1>3. [payTo |-> terms[c].payTo, asset |-> terms[c].asset, slot |-> terms[c].slot] = terms[c]
  BY <1>1 DEF Configuration
<1>4. QED BY <1>2, <1>3 DEF ParseChallenge

\* What a service works for is what it requires, and what it requires is paid.
LEMMA AdmitsThePaid ==
    ASSUME NEW c \in Check, NEW p, NEW tier \in Tier, Gate(c, p, tier), Verified(c, p, tier)
    PROVE  LET pay == run.groups[p.group].pays[p.index] IN
           /\ pay.payTo = terms[c].payTo /\ pay.asset = terms[c].asset
           /\ pay.amount = p.amount /\ p.amount = TierFee[tier]
           /\ run.groups[p.group].feePayer = signer
  BY DEF Check, Gate, PriceGate, AvailabilityGate, VerificationGate, TierForAmount,
         Verified, PriceVerified, AvailabilityVerified, VerificationVerified, Verifies,
         MeetsRequirements, PriceRequirements, AvailabilityRequirements,
         VerificationRequirements

\* A route answers with a verdict of the tier it was entered with.
LEMMA RouteType ==
    ASSUME NEW c \in Check, NEW tier \in Tier, NEW v \in RouteAnswers(c, tier)
    PROVE  v \in Verdict /\ v.tier = tier
<1>1. v \in Answers[c][tier]
  BY DEF Check, RouteAnswers, PriceRoute, AvailabilityRoute, VerificationRoute
<1>2. QED BY <1>1, CallsAssumption
--------------------------------------------------------------------------------
(* A call ends. *)

\* Verdict v, about group g, is what the round asked check c for.
Vouches(c, v, g) ==
    /\ v.tier = run.tiers[c] /\ g = run.signed
    /\ run.groups[run.signed].pays[GROUP_SLOT[c]].amount = TierFee[run.tiers[c]]

\* An answer that fits what is going on.
Fitting(c, a, g) ==
    /\ a \in {NoAnswer} \union Terms[c] \union Verdict
    /\ run.stage = "quoting" => a \in {NoAnswer} \union Terms[c]
    /\ run.stage = "verifying" =>
            a \in {NoAnswer} \union Verdict /\ (a \in Verdict => Vouches(c, a, g))

\* The requests that are left stay what they are when groups are only added and
\* no call changes its number or its payment.
LEMMA WireKeeps ==
    ASSUME Typed, OnWire, wire' \subseteq wire,
           \A c \in Check : calls'[c].no = calls[c].no /\ calls'[c].payment = calls[c].payment,
           Len(run.groups) <= Len(run'.groups),
           run'.groups \in Seq(Group),
           \A g \in 1 .. Len(run.groups) : run'.groups[g] = run.groups[g]
    PROVE  OnWire'
<1> SUFFICES ASSUME NEW q \in wire PROVE CarriesPayment(q)'
  BY DEF OnWire
<1>1. q.to \in Check /\ CarriesPayment(q)
  BY DEF Typed, Requests, OnWire
<1>2. Len(run.groups) \in Nat /\ Len(run'.groups) \in Nat
  BY DEF Typed, RunTyped, RunRecord
<1>3. q.payment # NoPayment => run'.groups[q.payment.group] = run.groups[q.payment.group]
  BY <1>1 DEF CarriesPayment
<1>4. q.payment # NoPayment => q.payment.group \in 1 .. Len(run'.groups)
  BY <1>1, <1>2 DEF CarriesPayment
<1>5. QED BY <1>1, <1>3, <1>4 DEF CarriesPayment

\* The end of a call, before anything is made of it.
Ended(c, a, g) ==
    /\ calls' \in [Check -> Call] /\ calls'[c].at = "idle"
    /\ \A d \in Check : /\ calls'[d].no = calls[d].no
                        /\ calls'[d].attempt = calls[d].attempt
                        /\ calls'[d].payment = calls[d].payment
                        /\ d # c => calls'[d].at = calls[d].at
    /\ answers' = [answers EXCEPT ![c] = a] /\ vouched' = [vouched EXCEPT ![c] = g]
    /\ RunTyped' => Typed'

LEMMA EndTypes ==
    ASSUME CallsInv, NEW c \in Check, NEW a, NEW g, Fitting(c, a, g), CallEnds(c, a, g),
           UNCHANGED <<feePayer, world>>, wire' \subseteq wire
    PROVE  Ended(c, a, g)
<1>1. calls' = [calls EXCEPT ![c].at = "idle"]
  BY DEF CallEnds
<1>2. calls' \in [Check -> Call] /\ calls'[c].at = "idle"
  BY <1>1 DEF CallsInv, Typed, Call
<1>3. \A d \in Check : /\ calls'[d].no = calls[d].no
                       /\ calls'[d].attempt = calls[d].attempt
                       /\ calls'[d].payment = calls[d].payment
                       /\ d # c => calls'[d].at = calls[d].at
  BY <1>1 DEF CallsInv, Typed, Call
<1>4. answers' = [answers EXCEPT ![c] = a] /\ vouched' = [vouched EXCEPT ![c] = g]
  BY DEF CallEnds
<1>5. DOMAIN answers' = Check /\ DOMAIN vouched' = Check
  BY <1>4 DEF CallsInv, Typed
<1>6. \A d \in Check : answers'[d] \in {Pending, NoAnswer} \union Terms[d] \union Verdict
  BY <1>4 DEF CallsInv, Typed, Fitting
<1>7. QED BY <1>2, <1>3, <1>4, <1>5, <1>6 DEF Ended, CallsInv, Typed, world

\* A collection that takes up another answer.
LEMMA CollectedKeeps ==
    ASSUME CallsInv, NEW c \in Check, NEW a, NEW g, calls[c].at = "waiting",
           run.stage = "quoting", Fitting(c, a, g), CallEnds(c, a, g),
           UNCHANGED <<feePayer, world>>, wire' \subseteq wire
    PROVE  CallsInv'
<1> DEFINE got == [answers EXCEPT ![c] = a]
<1>1. Collected(got) /\ answers' = got /\ RunTyped /\ Typed
  BY DEF CallEnds, CallsInv, Typed
<1>2. \A d \in Check : got[d] \in {Pending, NoAnswer} \union Terms[d]
  BY DEF Fitting, CallsInv, Typed, Presented
<1>3. /\ run.rounds = 0 /\ run.groups = <<>>
      /\ \A d \in Check : calls[d].payment = NoPayment
      /\ \A d \in Check : calls[d].at # "idle" => answers[d] = Pending
  BY DEF CallsInv, Open, Presented
<1>4. Ended(c, a, g)
  BY EndTypes
<1>5. \A d \in Check : calls'[d].at # "idle" => d # c /\ calls[d].at # "idle"
  BY <1>4 DEF Ended
<1>6. \A d \in Check : /\ calls'[d] \in Call /\ calls'[d].payment = NoPayment
                       /\ calls'[d].no = calls'[d].attempt
                       /\ calls'[d].at = "backoff" => calls'[d].attempt < QUOTE_ATTEMPTS
  BY <1>3, <1>4, <1>5 DEF Ended, CallsInv, Counted
<1>7. run'.groups = run.groups /\ run'.groups \in Seq(Group) => OnWire'
  BY <1>1, <1>3, <1>4, WireKeeps DEF Ended, CallsInv
<1>8. run'.stage \notin {"booting", "idle"} /\ run'.rounds >= 0 /\ run'.rounds \in Nat
        /\ (run'.stage \in {"building", "signing"} => run'.rounds >= 1) => Counted'
  BY <1>6, CallsAssumption DEF Counted, Call
<1>9. CASE \E d \in Check : got[d] = NoAnswer
  <2>1. run' = [run EXCEPT !.stage = "failed"]
    BY <1>1, <1>9 DEF Collected
  <2>2. RunTyped' /\ run'.stage = "failed" /\ run'.rounds = 0 /\ run'.groups = run.groups
    BY <1>1, <1>3, <2>1 DEF RunTyped, RunRecord, Stage
  <2>3. run'.groups \in Seq(Group)
    BY <2>2 DEF RunTyped, RunRecord
  <2>4. QED BY <1>4, <1>7, <1>8, <2>2, <2>3
        DEF Ended, CallsInv, Open, Presented, VerdictsAreOfTheRound
<1>10. CASE \A d \in Check : got[d] \notin {Pending, NoAnswer}
  <2>1. \E stage \in {"building", "failed"} :
          run' = [run EXCEPT !.stage = stage, !.quotes = got, !.rounds = 1,
                             !.spent = FeesOf(OpeningTiers)]
    BY <1>1, <1>10 DEF Collected
  <2>2. FeesOf(OpeningTiers) \in Nat /\ FeesOf(OpeningTiers) <= Budget - Reserve
    BY LadderTypes, ReserveType, PolicyAssumption
  <2>3. got \in [Check -> Configuration]
    BY <1>1, <1>2, <1>10, CallsAssumption DEF Typed
  <2>4. run'.rounds = 1 /\ run'.stage \in {"building", "failed"} /\ run'.groups = run.groups
    BY <1>1, <2>1 DEF RunTyped, RunRecord
  <2>5. 1 \in 0 .. MaxRounds
    BY CallsAssumption
  <2>6. RunTyped' /\ run'.groups \in Seq(Group)
    BY <1>1, <2>1, <2>2, <2>3, <2>5 DEF RunTyped, RunRecord, Stage
  <2>7. \A d \in Check : calls'[d].at = "idle"
    BY <1>1, <1>3, <1>5, <1>10 DEF Typed
  <2>8. QED BY <1>4, <1>7, <1>8, <2>4, <2>6, <2>7
        DEF Ended, CallsInv, Open, Presented, VerdictsAreOfTheRound
<1>11. CASE /\ \A d \in Check : got[d] # NoAnswer
            /\ \E d \in Check : got[d] \in {Pending, NoAnswer}
  <2>1. run' = run
    BY <1>1, <1>11 DEF Collected
  <2>2. Typed' /\ OnWire' /\ Counted'
    BY <1>1, <1>3, <1>4, <1>7, <1>8, <2>1 DEF Ended, RunTyped, RunRecord
  <2>3. \A d \in Check : calls'[d].at # "idle" => answers'[d] = Pending
    BY <1>1, <1>3, <1>5 DEF Typed
  <2>4. Open' /\ Presented'
    BY <1>1, <1>2, <1>3, <1>6, <2>1, <2>3 DEF Open, Presented
  <2>5. QED BY <2>1, <2>2, <2>4 DEF CallsInv, VerdictsAreOfTheRound
<1>12. QED BY <1>9, <1>10, <1>11

\* A fan-out that takes up another answer.
LEMMA FannedOutKeeps ==
    ASSUME CallsInv, NEW c \in Check, NEW a, NEW g, calls[c].at = "waiting",
           run.stage = "verifying", Fitting(c, a, g), CallEnds(c, a, g),
           UNCHANGED <<feePayer, world>>, wire' \subseteq wire
    PROVE  CallsInv'
<1> DEFINE got == [answers EXCEPT ![c] = a]
<1>1. FannedOut(got) /\ answers' = got /\ vouched' = [vouched EXCEPT ![c] = g]
  BY DEF CallEnds
<1>2. RunTyped /\ Typed /\ run.rounds \in Nat /\ run.rounds > 0
  BY DEF CallsInv, Typed, Open, RunTyped, RunRecord
<1>3. \A d \in Check : got[d] \in {Pending, NoAnswer} \union Verdict
  BY DEF Fitting, CallsInv, Typed, Presented
<1>4. /\ run.signed \in 1 .. Len(run.groups)
      /\ \A d \in Check : calls[d].payment = PaymentHeader(d, run.signed)
      /\ \A d \in Check : calls[d].at # "idle" => answers[d] = Pending
      /\ \A d \in Check : calls[d].payment # NoPayment
  <2>1. /\ run.signed \in 1 .. Len(run.groups)
        /\ \A d \in Check : calls[d].payment = PaymentHeader(d, run.signed)
        /\ \A d \in Check : calls[d].at # "idle" => answers[d] = Pending
    BY DEF CallsInv, Open, Presented
  <2>2. run.signed \in Nat
    BY <1>2 DEF RunTyped, RunRecord
  <2>3. QED BY <1>2, <2>1, <2>2, HeaderType
<1>5. Ended(c, a, g)
  BY EndTypes
<1>6. \A d \in Check : calls'[d].at # "idle" => d # c /\ calls[d].at # "idle"
  BY <1>5 DEF Ended
<1>7. \A d \in Check : /\ calls'[d] \in Call /\ calls'[d].payment # NoPayment
                       /\ calls'[d].no <= QUOTE_ATTEMPTS + run.rounds
                       /\ calls'[d].at # "backoff"
  BY <1>4, <1>5, <1>6 DEF Ended, CallsInv, Counted
<1>8. run'.groups = run.groups => OnWire'
  BY <1>2, <1>5, WireKeeps DEF Ended, CallsInv, RunTyped, RunRecord
<1>9. \A d \in Check : got[d] \in Verdict =>
        /\ got[d].tier = run.tiers[d]
        /\ vouched'[d] = run.signed
        /\ run.groups[run.signed].pays[GROUP_SLOT[d]].amount = TierFee[run.tiers[d]]
  BY <1>1, <1>2 DEF Typed, Fitting, Vouches, CallsInv, VerdictsAreOfTheRound
<1>10. CASE \E d \in Check : got[d] = Pending
  <2>1. run' = run
    BY <1>1, <1>10 DEF FannedOut
  <2>2. Typed' /\ OnWire'
    BY <1>2, <1>5, <1>8, <2>1 DEF Ended, RunTyped
  <2>3. Counted'
    BY <1>7, <2>1 DEF Counted
  <2>4. Open'
    BY <1>1, <1>2, <1>4, <1>6, <2>1 DEF Open, Typed
  <2>5. Presented'
    BY ZenonT(60), <1>1, <1>3, <1>4, <1>5, <2>1 DEF Presented, PaymentHeader, PayeeMap, Ended
  <2>6. QED BY <1>1, <1>9, <2>1, <2>2, <2>3, <2>4, <2>5 DEF CallsInv, VerdictsAreOfTheRound
<1>11. CASE \A d \in Check : got[d] # Pending
  <2>1. \A d \in Check : calls'[d].at = "idle"
    BY <1>2, <1>4, <1>6, <1>11 DEF Typed
  <2>2. got \in Verdicts
    BY <1>2, <1>3, <1>11 DEF Verdicts, Typed
  <2>3. \E stage \in {"ready", "aborted"} : run' = [run EXCEPT !.stage = stage]
        \/ /\ run.rounds < MaxRounds
           /\ run' = [run EXCEPT !.stage = "building", !.rounds = run.rounds + 1,
                                 !.tiers = PlannedTiers(got, run.spent, run.tiers),
                                 !.spent = SpentAfterPlan(got, run.spent)]
    BY <1>1, <1>11 DEF FannedOut
  <2>4. CASE \E stage \in {"ready", "aborted"} : run' = [run EXCEPT !.stage = stage]
    <3>1. RunTyped' /\ run'.stage \in {"ready", "aborted"} /\ run'.rounds = run.rounds
          /\ run'.tiers = run.tiers /\ run'.signed = run.signed /\ run'.groups = run.groups
      BY <1>2, <2>4 DEF RunTyped, RunRecord, Stage
    <3>2. Counted'
      BY <1>7, <3>1 DEF Counted
    <3>3. Typed' /\ OnWire'
      BY <1>2, <1>5, <1>8, <3>1 DEF Ended
    <3>4. Open' /\ Presented'
      BY <1>2, <2>1, <3>1 DEF Open, Presented
    <3>5. VerdictsAreOfTheRound'
      BY <1>1, <1>9, <3>1 DEF VerdictsAreOfTheRound
    <3>6. QED BY <3>2, <3>3, <3>4, <3>5 DEF CallsInv
  <2>5. CASE /\ run.rounds < MaxRounds
             /\ run' = [run EXCEPT !.stage = "building", !.rounds = run.rounds + 1,
                                   !.tiers = PlannedTiers(got, run.spent, run.tiers),
                                   !.spent = SpentAfterPlan(got, run.spent)]
    <3>1. run.spent \in Nat /\ run.tiers \in [Check -> Tier] /\ run.rounds + 1 \in 0 .. MaxRounds
      BY <1>2, <2>5, CallsAssumption DEF RunTyped, RunRecord
    <3>2. /\ PlannedTiers(got, run.spent, run.tiers) \in [Check -> Tier]
          /\ SpentAfterPlan(got, run.spent) \in Nat
          /\ SpentAfterPlan(got, run.spent) <= Budget - Reserve
      BY <1>2, <2>2, <3>1, PlanTypes, PlanWithin DEF RunTyped
    <3>3. RunTyped' /\ run'.stage = "building" /\ run'.rounds = run.rounds + 1
          /\ run'.groups = run.groups
      BY <1>2, <2>5, <3>1, <3>2 DEF RunTyped, RunRecord, Stage
    <3>4. Counted'
      BY <1>2, <1>7, <3>3, CallsAssumption DEF Counted, Call
    <3>5. QED BY <1>2, <1>5, <1>8, <2>1, <3>3, <3>4
          DEF Ended, CallsInv, Open, Presented, VerdictsAreOfTheRound
  <2>6. QED BY <2>3, <2>4, <2>5
<1>12. QED BY <1>10, <1>11

\* A call of a collection that has failed ends for itself.
LEMMA StrayKeeps ==
    ASSUME CallsInv, NEW c \in Check, NEW a, NEW g, calls[c].at = "waiting",
           run.stage = "failed", Fitting(c, a, g), CallEnds(c, a, g),
           UNCHANGED <<feePayer, world>>, wire' \subseteq wire
    PROVE  CallsInv'
<1>1. run' = run
  BY DEF CallEnds
<1>2. Ended(c, a, g)
  BY EndTypes
<1>3. Typed' /\ OnWire'
  BY <1>1, <1>2, WireKeeps DEF Ended, CallsInv, Typed, RunTyped, RunRecord
<1>4. Counted'
  BY <1>1, <1>2 DEF Ended, CallsInv, Counted
<1>5. QED BY <1>1, <1>3, <1>4 DEF CallsInv, Open, Presented, VerdictsAreOfTheRound

LEMMA EndKeeps ==
    ASSUME CallsInv, NEW c \in Check, NEW a, NEW g, calls[c].at = "waiting",
           Fitting(c, a, g), CallEnds(c, a, g), UNCHANGED <<feePayer, world>>,
           wire' \subseteq wire
    PROVE  CallsInv'
<1>1. run.stage \in {"quoting", "verifying", "failed"}
  BY DEF CallsInv, Typed, RunTyped, RunRecord, Stage, Open
<1>2. QED BY <1>1, CollectedKeeps, FannedOutKeeps, StrayKeeps

--------------------------------------------------------------------------------
(* The steps. *)

\* Requests that get lost, and a world that changes, leave the orchestrator alone.
LEMMA QuietKeeps ==
    ASSUME CallsInv, UNCHANGED <<run, feePayer, calls, answers, vouched>>, wire' \subseteq wire,
           DOMAIN terms' = Check, \A c \in Check : terms'[c] \in Terms[c], signer' \in Key
    PROVE  CallsInv'
<1>1. Typed'
  BY DEF CallsInv, Typed, RunTyped
<1>2. OnWire'
  BY DEF CallsInv, OnWire, CarriesPayment
<1>3. Open' /\ Presented' /\ Counted' /\ VerdictsAreOfTheRound'
  BY DEF CallsInv, Open, Presented, Counted, VerdictsAreOfTheRound, PaymentHeader, PayeeMap
<1>4. QED BY <1>1, <1>2, <1>3 DEF CallsInv

\* An answer that fits the call it is awaited by.
LEMMA AnswerKeeps ==
    ASSUME CallsInv, NEW q \in wire, NEW a, NEW g, Answer(q, a, g),
           Awaited(q) => Fitting(q.to, a, g)
    PROVE  CallsInv'
<1>1. q.to \in Check /\ wire' \subseteq wire /\ UNCHANGED <<feePayer, world>>
  BY DEF CallsInv, Typed, Requests, Answer
<1>2. CASE Awaited(q)
  BY <1>1, <1>2, EndKeeps DEF Answer, Awaited
<1>3. CASE ~Awaited(q)
  BY <1>1, <1>3, QuietKeeps DEF Answer, world, CallsInv, Typed
<1>4. QED BY <1>2, <1>3

\* What an awaited request shows is what its call presented; only the payments
\* of a fan-out are payments.
LEMMA AwaitedPayment ==
    ASSUME CallsInv, NEW q \in wire, Awaited(q)
    PROVE  /\ q.to \in Check /\ q.payment = calls[q.to].payment
           /\ run.stage = "quoting" => q.payment = NoPayment
           /\ run.stage = "verifying" =>
                q.payment = PaymentHeader(q.to, run.signed) /\ q.payment # NoPayment
<1>1. q.to \in Check /\ q.payment = calls[q.to].payment
  BY DEF CallsInv, Typed, Requests, OnWire, CarriesPayment, Awaited
<1>2. run.stage = "quoting" => q.payment = NoPayment
  BY <1>1 DEF CallsInv, Presented
<1>3. ASSUME run.stage = "verifying"
      PROVE  q.payment = PaymentHeader(q.to, run.signed) /\ q.payment # NoPayment
  <2>1. run.signed \in Nat /\ run.rounds > 0
    BY <1>3 DEF CallsInv, Typed, RunTyped, RunRecord, Open
  <2>2. QED BY <1>1, <1>3, <2>1, HeaderType DEF CallsInv, Presented
<1>4. QED BY <1>1, <1>2, <1>3

\* A service answers: with its offer, with no, or with a verdict.
LEMMA ServiceAnswers ==
    ASSUME CallsInv, NEW q \in wire, Challenge(q) \/ Refuse(q) \/ Conclude(q)
    PROVE  CallsInv'
<1>1. q.to \in Check
  BY DEF CallsInv, Typed, Requests
<1>2. CASE Challenge(q)
  <2>1. ParseChallenge(q.to, Offer(q.to)) \in {NoAnswer} \union Terms[q.to]
    BY <1>1, ChallengeType DEF CallsInv, Typed
  <2>2. Awaited(q) => Fitting(q.to, ParseChallenge(q.to, Offer(q.to)), 0)
    BY <1>2, <2>1, AwaitedPayment DEF Fitting, Challenge
  <2>3. QED BY <1>2, <2>2, AnswerKeeps DEF Challenge
<1>3. CASE Refuse(q)
  <2>1. Fitting(q.to, NoAnswer, 0)
    BY PolicyAssumption DEF Fitting
  <2>2. QED BY <1>3, <2>1, AnswerKeeps DEF Refuse
<1>4. CASE Conclude(q)
  <2>1. PICK tier \in PaymentContext(q) :
          \E v \in RouteAnswers(q.to, tier) : Answer(q, v, q.payment.group)
    BY <1>4 DEF Conclude
  <2>2. PICK v \in RouteAnswers(q.to, tier) : Answer(q, v, q.payment.group)
    BY <2>1
  <2>3. tier \in Tier /\ TierFee[tier] = q.payment.amount
    BY DEF PaymentContext, TierForAmount
  <2>4. v \in Verdict /\ v.tier = tier
    BY <1>1, <2>3, RouteType
  <2>5. q.at = "working" /\ CarriesPayment(q)
    BY <1>4 DEF Conclude, CallsInv, OnWire
  <2>6. ASSUME Awaited(q), run.stage = "verifying"
        PROVE  Vouches(q.to, v, q.payment.group)
    <3>1. q.payment = PaymentHeader(q.to, run.signed)
      BY <2>6, AwaitedPayment
    <3>2. /\ q.payment.amount = TierFee[run.tiers[q.to]]
          /\ q.payment.index = GROUP_SLOT[q.to] /\ q.payment.group = run.signed
      BY <3>1 DEF PaymentHeader
    <3>3. run.tiers[q.to] \in Tier
      BY <1>1 DEF CallsInv, Typed, RunTyped, RunRecord
    <3>4. tier = run.tiers[q.to]
      BY <2>3, <3>2, <3>3, FeeDecidesTier
    <3>5. QED BY <2>4, <2>5, <3>2, <3>4 DEF CarriesPayment, Vouches
  <2>7. Awaited(q) => run.stage # "quoting"
    BY <2>5, AwaitedPayment DEF CarriesPayment
  <2>8. Awaited(q) => Fitting(q.to, v, q.payment.group)
    BY <2>4, <2>6, <2>7 DEF Fitting
  <2>9. QED BY <2>2, <2>8, AnswerKeeps
<1>5. QED BY <1>2, <1>3, <1>4

\* A service takes a payment and starts its work.
LEMMA AdmitKeeps ==
    ASSUME CallsInv, NEW q \in wire, Admit(q)
    PROVE  CallsInv'
<1>1. PICK tier \in Tier : Gate(q.to, q.payment, tier) /\ Verified(q.to, q.payment, tier)
  BY DEF Admit
<1>2. q \in Requests /\ CarriesPayment(q) /\ q.payment # NoPayment
  BY DEF CallsInv, Typed, OnWire, Admit
<1>3. run.groups[q.payment.group].pays[q.payment.index].amount = q.payment.amount
  BY <1>1, <1>2, AdmitsThePaid DEF Requests
<1>4. PICK taken \in Requests :
        /\ taken.at = "working" /\ taken.to = q.to /\ taken.no = q.no
        /\ taken.payment = q.payment /\ wire' \subseteq wire \union {taken}
  <2>1. [q EXCEPT !.at = "working"] \in Requests
    BY <1>2 DEF Requests
  <2>2. QED BY <1>2, <2>1 DEF Admit, Requests
<1>5. CarriesPayment(taken)
  BY <1>2, <1>3, <1>4 DEF CarriesPayment
<1>6. UNCHANGED <<run, feePayer, calls, answers, vouched, world>>
  BY DEF Admit
<1>7. OnWire'
  BY <1>4, <1>5, <1>6 DEF CallsInv, OnWire, CarriesPayment
<1>8. Typed'
  BY <1>4, <1>6 DEF CallsInv, Typed, RunTyped, world
<1>9. Open' /\ Presented' /\ Counted' /\ VerdictsAreOfTheRound'
  BY <1>6 DEF CallsInv, Open, Presented, Counted, VerdictsAreOfTheRound, PaymentHeader, PayeeMap
<1>10. QED BY <1>7, <1>8, <1>9 DEF CallsInv

\* A call fails: it is attempted again, or it is over without an answer.
LEMMA FailKeeps ==
    ASSUME CallsInv, NEW c \in Check, CallFails(c)
    PROVE  CallsInv'
<1>1. CASE MayRetry(c)
  <2>1. /\ calls' = [calls EXCEPT ![c].at = "backoff"]
        /\ UNCHANGED <<run, answers, vouched, feePayer, wire, world>>
    BY <1>1 DEF CallFails
  <2>2. calls' \in [Check -> Call] /\ calls[c].at = "waiting"
    BY <2>1 DEF CallFails, CallsInv, Typed, Call
  <2>3. \A d \in Check : /\ calls'[d].no = calls[d].no
                         /\ calls'[d].attempt = calls[d].attempt
                         /\ calls'[d].payment = calls[d].payment
                         /\ d # c => calls'[d].at = calls[d].at
    BY <2>1 DEF CallsInv, Typed, Call
  <2>4. calls[c].payment = NoPayment /\ calls[c].attempt < QUOTE_ATTEMPTS
    BY <1>1 DEF MayRetry
  <2>5. Typed' /\ OnWire'
    <3>1. Typed'
      BY <2>1, <2>2 DEF CallsInv, Typed, RunTyped, world
    <3>2. OnWire'
      BY <2>1, <2>3 DEF CallsInv, Typed, Requests, OnWire, CarriesPayment
    <3>3. QED BY <3>1, <3>2
  <2>6. Counted'
    BY <2>1, <2>3, <2>4 DEF CallsInv, Counted
  <2>7. Open' /\ Presented'
    BY <2>1, <2>2, <2>3 DEF CallsInv, Open, Presented, PaymentHeader, PayeeMap
  <2>8. QED BY <2>1, <2>5, <2>6, <2>7 DEF CallsInv, VerdictsAreOfTheRound
<1>2. CASE ~MayRetry(c)
  <2>1. Fitting(c, NoAnswer, 0)
    BY PolicyAssumption DEF Fitting
  <2>2. QED BY <1>2, <2>1, EndKeeps DEF CallFails
<1>3. QED BY <1>1, <1>2

\* The one retry of a quote: the call after it has the next number.
LEMMA RetryKeeps ==
    ASSUME CallsInv, NEW c \in Check, Retry(c)
    PROVE  CallsInv'
<1>1. calls[c].at = "backoff" /\ calls[c].payment = NoPayment
      /\ calls[c].attempt < QUOTE_ATTEMPTS /\ calls[c].no = calls[c].attempt
  BY DEF Retry, CallsInv, Counted
<1>2. calls[c] \in Call
  BY DEF CallsInv, Typed
<1>3. /\ calls'[c] = [calls[c] EXCEPT !.at = "waiting", !.no = @ + 1, !.attempt = @ + 1]
      /\ \A d \in Check : d # c => calls'[d] = calls[d]
      /\ DOMAIN calls' = Check
  BY DEF Retry, CallsInv, Typed
<1>4. /\ calls'[c].at = "waiting" /\ calls'[c].no = calls[c].no + 1
      /\ calls'[c].attempt = calls[c].attempt + 1 /\ calls'[c].payment = NoPayment
      /\ calls'[c] \in Call
  <2>1. calls[c].no + 1 \in Nat /\ calls[c].attempt + 1 \in 0 .. QUOTE_ATTEMPTS
    BY <1>1, <1>2, CallsAssumption DEF Call
  <2>2. calls'[c] \in Call
    BY <1>2, <1>3, <2>1 DEF Call
  <2>3. QED BY <1>1, <1>2, <1>3, <2>2 DEF Call
<1>5. calls' \in [Check -> Call]
  BY <1>3, <1>4 DEF CallsInv, Typed, Retry
<1>6. UNCHANGED <<run, feePayer, answers, vouched, world>>
  BY DEF Retry
<1>7. PICK sent \in Requests :
        /\ wire' = wire \union {sent} /\ sent.payment = NoPayment
        /\ sent.no = calls'[c].no /\ sent.to = c /\ sent.at = "sent"
  <2>1. Request(c, calls[c].no + 1, calls[c].payment) \in Requests
    BY <1>1, <1>2 DEF Request, Requests, Call
  <2>2. QED BY <1>1, <1>4, <2>1 DEF Retry, Request
<1>8. Typed'
  BY <1>5, <1>6, <1>7 DEF CallsInv, Typed, RunTyped, world
<1>9. OnWire'
  <2>1. ASSUME NEW q \in wire PROVE CarriesPayment(q)'
    <3>1. CarriesPayment(q) /\ q.to \in Check /\ q.no \in Nat /\ calls[c].no \in Nat
      BY <1>2 DEF CallsInv, OnWire, Typed, Requests, Call
    <3>2. q.to = c => q.no \in 1 .. calls'[c].no /\ q.no # calls'[c].no
      BY <1>4, <3>1 DEF CarriesPayment
    <3>3. QED BY <1>3, <1>6, <3>1, <3>2 DEF CarriesPayment
  <2>2. CarriesPayment(sent)'
    <3>1. calls'[c].no \in 1 .. calls'[c].no
      BY <1>2, <1>4 DEF Call
    <3>2. QED BY <1>4, <1>7, <3>1 DEF CarriesPayment
  <2>3. QED BY <1>7, <2>1, <2>2 DEF OnWire
<1>10. run.stage \in {"quoting", "verifying", "failed"}
  BY <1>1 DEF CallsInv, Typed, RunTyped, RunRecord, Stage, Open
<1>11. Counted'
  <2>1. calls'[c].no <= QUOTE_ATTEMPTS + run.rounds
    BY <1>1, <1>2, <1>4, CallsAssumption DEF Call, CallsInv, Typed, RunTyped, RunRecord
  <2>2. calls'[c].no = calls'[c].attempt
    BY <1>1, <1>4
  <2>3. ASSUME NEW d \in Check
        PROVE  /\ calls'[d].payment = NoPayment => calls'[d].no = calls'[d].attempt
               /\ run.stage \in {"booting", "idle"} => calls'[d].no = 0
               /\ calls'[d].no <= QUOTE_ATTEMPTS + run.rounds
               /\ run.stage \in {"building", "signing"} =>
                        calls'[d].no <= QUOTE_ATTEMPTS + run.rounds - 1
               /\ calls'[d].at = "backoff" =>
                        calls'[d].payment = NoPayment /\ calls'[d].attempt < QUOTE_ATTEMPTS
    <3>1. CASE d = c
      BY <1>4, <1>10, <2>1, <2>2, <3>1
    <3>2. CASE d # c
      BY <1>3, <3>2 DEF CallsInv, Counted
    <3>3. QED BY <3>1, <3>2
  <2>4. QED BY <1>6, <2>3 DEF Counted
<1>12. run.stage # "verifying"
  <2>1. run.stage = "verifying" => run.signed \in Nat /\ run.rounds > 0
    BY DEF CallsInv, Typed, RunTyped, RunRecord, Open
  <2>2. QED BY <1>1, <2>1, HeaderType DEF CallsInv, Presented
<1>13. Open' /\ Presented'
  BY <1>1, <1>3, <1>4, <1>6, <1>10, <1>12 DEF CallsInv, Open, Presented
<1>14. QED BY <1>6, <1>8, <1>9, <1>11, <1>12, <1>13 DEF CallsInv, VerdictsAreOfTheRound

\* All calls at once: each gets its next number, and no older request can be
\* taken for it.
LEMMA CallAllTypes ==
    ASSUME CallsInv, NEW payment, \A c \in Check : payment[c] \in Payment \union {NoPayment},
           CallAll(payment)
    PROVE  /\ calls' \in [Check -> Call] /\ wire' \subseteq Requests
           /\ DOMAIN answers' = Check /\ DOMAIN vouched' = Check
           /\ \A c \in Check :
                /\ calls'[c].at = "waiting" /\ calls'[c].attempt = 1
                /\ calls'[c].no = calls[c].no + 1 /\ calls'[c].payment = payment[c]
                /\ answers'[c] = Pending
           /\ \A q \in wire' :
                \/ q \in wire /\ q.no \in 1 .. calls'[q.to].no /\ q.no # calls'[q.to].no
                \/ /\ q.no = calls'[q.to].no /\ q.no \in 1 .. calls'[q.to].no
                   /\ q.payment = payment[q.to] /\ q.at = "sent"
<1>1. \A c \in Check : calls[c] \in Call
  BY DEF CallsInv, Typed
<1>2. \A c \in Check : [at |-> "waiting", no |-> calls[c].no + 1, attempt |-> 1,
                        payment |-> payment[c]] \in Call
  BY <1>1, CallsAssumption DEF Call
<1>3. /\ calls' \in [Check -> Call]
      /\ \A c \in Check :
            /\ calls'[c].at = "waiting" /\ calls'[c].attempt = 1
            /\ calls'[c].no = calls[c].no + 1 /\ calls'[c].payment = payment[c]
  BY <1>2 DEF CallAll
<1>4. /\ DOMAIN answers' = Check /\ DOMAIN vouched' = Check
      /\ \A c \in Check : answers'[c] = Pending
  BY DEF CallAll
<1>5. ASSUME NEW q \in wire'
      PROVE  /\ q \in Requests
             /\ \/ q \in wire /\ q.no \in 1 .. calls'[q.to].no /\ q.no # calls'[q.to].no
                \/ /\ q.no = calls'[q.to].no /\ q.no \in 1 .. calls'[q.to].no
                   /\ q.payment = payment[q.to] /\ q.at = "sent"
  <2>1. CASE q \in wire
    <3>1. q \in Requests /\ q.no \in 1 .. calls[q.to].no /\ q.to \in Check
      BY <2>1 DEF CallsInv, Typed, OnWire, CarriesPayment, Requests
    <3>2. calls[q.to].no \in Nat /\ calls'[q.to].no = calls[q.to].no + 1
      BY <1>1, <1>3, <3>1 DEF Call
    <3>3. QED BY <2>1, <3>1, <3>2
  <2>2. CASE q \notin wire
    <3>1. PICK c \in Check : q = Request(c, calls[c].no + 1, payment[c])
      BY <2>2 DEF CallAll
    <3>2. calls[c].no \in Nat
      BY <1>1 DEF Call
    <3>3. QED BY <1>3, <3>1, <3>2 DEF Request, Requests
  <2>3. QED BY <2>1, <2>2
<1>6. QED BY <1>3, <1>4, <1>5

\* The collection of the quotes.
LEMMA CollectKeeps == CallsInv /\ CollectQuotes => CallsInv'
<1> SUFFICES ASSUME CallsInv, CollectQuotes PROVE CallsInv'
  OBVIOUS
<1> DEFINE none == [c \in Check |-> NoPayment]
<1>1. run.stage = "idle" /\ run' = [run EXCEPT !.stage = "quoting"] /\ CallAll(none)
      /\ UNCHANGED <<feePayer, world>>
  BY DEF CollectQuotes
<1>2. \A c \in Check : none[c] = NoPayment
  OBVIOUS
<1> HIDE DEF none
<1>3. RunTyped' /\ run'.stage = "quoting" /\ run'.rounds = 0 /\ run.rounds = 0
      /\ run'.groups = run.groups /\ run'.groups = <<>>
  BY <1>1 DEF CallsInv, Typed, Open, RunTyped, RunRecord, Stage
<1>4. \A c \in Check : none[c] \in Payment \union {NoPayment}
  BY <1>2
<1>5. /\ calls' \in [Check -> Call] /\ wire' \subseteq Requests
      /\ DOMAIN answers' = Check /\ DOMAIN vouched' = Check
      /\ \A c \in Check : /\ calls'[c].at = "waiting" /\ calls'[c].attempt = 1
                          /\ calls'[c].no = calls[c].no + 1 /\ calls'[c].payment = NoPayment
                          /\ answers'[c] = Pending
  BY <1>1, <1>2, <1>4, CallAllTypes
<1>6. \A c \in Check : calls[c].no = 0
  BY <1>1 DEF CallsInv, Counted
<1>7. Typed'
  BY <1>1, <1>3, <1>5 DEF CallsInv, Typed, world
<1>8. Counted'
  BY <1>3, <1>5, <1>6, CallsAssumption DEF Counted
<1>9. ASSUME NEW q \in wire' PROVE CarriesPayment(q)'
  <2>1. \/ q \in wire /\ q.no \in 1 .. calls'[q.to].no /\ q.no # calls'[q.to].no
        \/ /\ q.no = calls'[q.to].no /\ q.no \in 1 .. calls'[q.to].no
           /\ q.payment = none[q.to] /\ q.at = "sent"
    BY <1>1, <1>4, <1>9, CallAllTypes
  <2>2. q.to \in Check
    BY <1>5 DEF Requests
  <2>3. q \in wire => CarriesPayment(q)
    BY DEF CallsInv, OnWire
  <2>4. QED BY <1>2, <1>3, <1>5, <2>1, <2>2, <2>3 DEF CarriesPayment
<1>10. QED BY <1>3, <1>5, <1>7, <1>8, <1>9
       DEF CallsInv, Open, Presented, OnWire, VerdictsAreOfTheRound

\* The fan-out of a signed group.
LEMMA VerifyAllKeeps ==
    ASSUME CallsInv, NEW g, VerifyAll(g)
    PROVE  CallsInv'
<1> DEFINE headers == [c \in Check |-> PaymentHeader(c, g)]
<1>1. /\ run.stage = "signing" /\ g \in 1 .. Len(run.groups)
      /\ run' = [run EXCEPT !.stage = "verifying", !.signed = g] /\ CallAll(headers)
      /\ UNCHANGED <<feePayer, world>>
  BY DEF VerifyAll
<1>2. \A c \in Check : headers[c] = PaymentHeader(c, g)
  OBVIOUS
<1> HIDE DEF headers
<1>3. run.rounds > 0 /\ run \in RunRecord /\ Typed /\ g \in Nat
  BY <1>1 DEF CallsInv, Typed, RunTyped, RunRecord, Open
<1>4. RunTyped' /\ run'.stage = "verifying" /\ run'.rounds = run.rounds /\ run'.signed = g
      /\ run'.groups = run.groups /\ run'.tiers = run.tiers /\ run'.quotes = run.quotes
  BY <1>1, <1>3 DEF CallsInv, Typed, RunTyped, RunRecord, Stage
<1>5. \A c \in Check : headers[c] \in Payment /\ headers[c] # NoPayment
  BY <1>2, <1>3, HeaderType
<1>6. /\ calls' \in [Check -> Call] /\ wire' \subseteq Requests
      /\ DOMAIN answers' = Check /\ DOMAIN vouched' = Check
      /\ \A c \in Check : /\ calls'[c].at = "waiting" /\ calls'[c].attempt = 1
                          /\ calls'[c].no = calls[c].no + 1
                          /\ calls'[c].payment = headers[c] /\ answers'[c] = Pending
  BY <1>1, <1>5, CallAllTypes
<1>7. Typed'
  BY <1>1, <1>4, <1>6 DEF CallsInv, Typed, world
<1>8. Counted'
  <2>1. \A c \in Check : calls[c].no <= QUOTE_ATTEMPTS + run.rounds - 1 /\ calls[c].no \in Nat
    BY <1>1 DEF CallsInv, Counted, Typed, Call
  <2>2. run.rounds \in Nat
    BY <1>3 DEF RunRecord
  <2>3. QED BY <1>4, <1>5, <1>6, <2>1, <2>2, CallsAssumption DEF Counted
<1>9. \A c \in Check : PaymentHeader(c, g)' = headers[c]
  BY <1>2, <1>4 DEF PaymentHeader, PayeeMap
<1>10. ASSUME NEW q \in wire' PROVE CarriesPayment(q)'
  <2>1. \/ q \in wire /\ q.no \in 1 .. calls'[q.to].no /\ q.no # calls'[q.to].no
        \/ /\ q.no = calls'[q.to].no /\ q.no \in 1 .. calls'[q.to].no
           /\ q.payment = headers[q.to] /\ q.at = "sent"
    BY <1>1, <1>5, <1>10, CallAllTypes
  <2>2. q.to \in Check
    BY <1>6 DEF Requests
  <2>3. q \in wire => CarriesPayment(q)
    BY DEF CallsInv, OnWire
  <2>4. headers[q.to].index = GROUP_SLOT[q.to] /\ headers[q.to].group = g
    <3>1. headers[q.to] = PaymentHeader(q.to, g)
      BY <1>2, <2>2
    <3>2. QED BY <3>1 DEF PaymentHeader
  <2>5. QED BY <1>1, <1>4, <1>6, <2>1, <2>2, <2>3, <2>4 DEF CarriesPayment
<1>11. Presented'
  BY <1>1, <1>4, <1>6, <1>9 DEF Presented
<1>12. VerdictsAreOfTheRound'
  BY <1>6, CallsAssumption DEF VerdictsAreOfTheRound
<1>13. QED BY <1>3, <1>4, <1>6, <1>7, <1>8, <1>10, <1>11, <1>12 DEF CallsInv, Open, OnWire

\* Start-up, and a group that is built or cannot be.
LEMMA BuildKeeps == CallsInv /\ (Boot \/ GroupBuilt \/ BuildFails) => CallsInv'
<1> SUFFICES ASSUME CallsInv, Boot \/ GroupBuilt \/ BuildFails PROVE CallsInv'
  OBVIOUS
<1>1. UNCHANGED <<calls, answers, vouched, wire, terms, signer>>
  BY DEF Boot, GroupBuilt, BuildFails, world
<1>2. feePayer' \in Key \union {NoKey}
  BY CallsAssumption DEF Boot, GroupBuilt, BuildFails, CallsInv, Typed
<1>3. \A c \in Check : calls[c].at = "idle"
  BY DEF Boot, GroupBuilt, BuildFails, CallsInv, Open
<1>4. run'.groups \in Seq(Group) /\ Len(run.groups) <= Len(run'.groups)
      /\ (\A g \in 1 .. Len(run.groups) : run'.groups[g] = run.groups[g]) => OnWire'
  BY <1>1, WireKeeps DEF CallsInv
<1>5. RunTyped' => Typed'
  BY <1>1, <1>2 DEF CallsInv, Typed
<1>6. CASE Boot \/ BuildFails
  <2>1. \/ /\ run.stage = "booting" /\ run' = [run EXCEPT !.stage = "idle"]
        \/ /\ run.stage = "building" /\ run' = [run EXCEPT !.stage = "failed"]
    BY <1>6 DEF Boot, BuildFails
  <2>2. RunTyped' /\ run'.groups = run.groups /\ run'.rounds = run.rounds
        /\ run'.groups \in Seq(Group)
        /\ \/ run.stage = "booting" /\ run'.stage = "idle"
           \/ run.stage = "building" /\ run'.stage = "failed"
    BY <2>1 DEF CallsInv, Typed, RunTyped, RunRecord, Stage
  <2>3. OnWire'
    BY <1>4, <2>2
  <2>4. Open' /\ Presented' /\ VerdictsAreOfTheRound'
    BY <1>1, <1>3, <2>2 DEF CallsInv, Open, Presented, VerdictsAreOfTheRound
  <2>5. Counted'
    BY <1>1, <2>2 DEF CallsInv, Counted
  <2>6. QED BY <1>5, <2>2, <2>3, <2>4, <2>5 DEF CallsInv
<1>7. CASE GroupBuilt
  <2>1. run.stage = "building" /\ run.rounds > 0 /\ Typed /\ run \in RunRecord
    BY <1>7 DEF GroupBuilt, CallsInv, Open, Typed, RunTyped
  <2>2. PICK group \in Group :
          run' = [run EXCEPT !.stage = "signing", !.groups = Append(run.groups, group),
                             !.signed = 0]
    BY <1>7, <2>1, BuildGroupType DEF GroupBuilt
  <2>3. run.groups \in Seq(Group)
    BY <2>1 DEF RunRecord
  <2>4. /\ Append(run.groups, group) \in Seq(Group)
        /\ Len(Append(run.groups, group)) = Len(run.groups) + 1
        /\ \A g \in 1 .. Len(run.groups) : Append(run.groups, group)[g] = run.groups[g]
    BY <2>3, AppendProperties
  <2>5. run'.groups = Append(run.groups, group) /\ run'.stage = "signing"
        /\ run'.rounds = run.rounds
    BY <2>1, <2>2 DEF RunRecord
  <2>6. RunTyped'
    BY <2>1, <2>2, <2>4 DEF Typed, RunTyped, RunRecord, Stage
  <2>7. OnWire'
    <3>1. Len(run.groups) \in Nat
      BY <2>3
    <3>2. QED BY <1>4, <2>4, <2>5, <3>1
  <2>8. Counted'
    BY <1>1, <2>1, <2>5 DEF CallsInv, Counted
  <2>9. QED BY <1>1, <1>3, <1>5, <2>1, <2>5, <2>6, <2>7, <2>8
        DEF CallsInv, Open, Presented, VerdictsAreOfTheRound
<1>8. QED BY <1>6, <1>7
--------------------------------------------------------------------------------
(* The theorems. *)

LEMMA CallsInit == Init => CallsInv
<1> SUFFICES ASSUME Init PROVE CallsInv
  OBVIOUS
<1>1. RunTyped
  <2>1. 0 \in 0 .. MaxRounds /\ 0 <= Budget - Reserve
    <3>1. FeesOf(OpeningTiers) \in Nat
      BY LadderTypes
    <3>2. QED BY <3>1, ReserveType, PolicyAssumption, CallsAssumption
  <2>2. <<>> \in Seq(Group)
    BY EmptySeq
  <2>3. QED BY <2>1, <2>2, LadderTypes DEF Init, RunTyped, RunRecord, Stage
<1>2. /\ calls = [c \in Check |-> [at |-> "idle", no |-> 0, attempt |-> 0, payment |-> NoPayment]]
      /\ wire = {} /\ terms = Deployed /\ run.stage = "booting" /\ run.rounds = 0
      /\ run.groups = <<>> /\ signer \in Key /\ feePayer = NoKey
      /\ answers = [c \in Check |-> Pending] /\ vouched = [c \in Check |-> 0]
  BY DEF Init
<1>3. calls \in [Check -> Call]
  BY <1>2, CallsAssumption DEF Call
<1>4. Typed
  BY <1>1, <1>2, <1>3, CallsAssumption DEF Typed
<1>5. Counted
  BY <1>2, CallsAssumption DEF Counted
<1>6. QED BY <1>2, <1>4, <1>5 DEF CallsInv, Open, Presented, OnWire, VerdictsAreOfTheRound

LEMMA CallsStep == CallsInv /\ [Next]_vars => CallsInv'
<1> SUFFICES ASSUME CallsInv, [Next]_vars PROVE CallsInv'
  OBVIOUS
<1>1. CASE Orchestrator
  BY <1>1, CollectKeeps, VerifyAllKeeps, BuildKeeps, FailKeeps, RetryKeeps DEF Orchestrator
<1>2. CASE \E q \in wire : Challenge(q) \/ Refuse(q) \/ Admit(q) \/ Conclude(q)
  BY <1>2, ServiceAnswers, AdmitKeeps
<1>3. ASSUME NEW c \in Check, NEW t \in Terms[c], Reconfigure(c, t) PROVE CallsInv'
  <2>1. terms' = [terms EXCEPT ![c] = t] /\ wire' \subseteq wire
        /\ UNCHANGED <<run, feePayer, calls, answers, vouched, signer>>
    BY <1>3 DEF Reconfigure
  <2>2. QED BY <2>1, QuietKeeps DEF CallsInv, Typed
<1>4. ASSUME NEW k \in Key, ChangeKey(k) PROVE CallsInv'
  BY <1>4, QuietKeeps DEF ChangeKey, CallsInv, Typed
<1>5. CASE UNCHANGED vars
  BY <1>5, QuietKeeps DEF vars, CallsInv, Typed
<1>6. QED BY <1>1, <1>2, <1>3, <1>4, <1>5 DEF Next, Services

LEMMA CallsInvariance == Spec => []CallsInv
<1>1. QED BY CallsInit, CallsStep, PTL DEF Spec


\* Type correctness for any configurations and answers; in particular no call is
\* attempted more often than QUOTE_ATTEMPTS allows, and the orchestrator calls a
\* service at most once per round after that.
THEOREM CallTypes == Spec => []TypeOK
<1>1. CallsInv => TypeOK
  <2> SUFFICES ASSUME CallsInv PROVE TypeOK
    OBVIOUS
  <2>1. run.spent \in 0 .. Budget
    BY ReserveType, PolicyAssumption DEF CallsInv, Typed, RunTyped, RunRecord
  <2>2. ASSUME NEW c \in Check PROVE calls[c].no \in 0 .. QUOTE_ATTEMPTS + MaxRounds
    BY <2>2, CallsAssumption DEF CallsInv, Counted, Typed, RunTyped, RunRecord, Call
  <2>3. \A q \in wire : q.no \in 1 .. calls[q.to].no /\ q.at \in {"sent", "working"}
    BY DEF CallsInv, Typed, OnWire, CarriesPayment, Requests
  <2>4. QED BY <2>1, <2>2, <2>3 DEF TypeOK, CallsInv, Typed, RunTyped, RunRecord, Stage, Call
<1>2. QED BY <1>1, CallsInvariance, PTL

\* Neither a late answer, nor an old signature, nor a service that changed its
\* terms can put on file a verdict of another round, tier or group.
THEOREM RoundTheorem == Spec => []VerdictsAreOfTheRound
<1>1. CallsInv => VerdictsAreOfTheRound
  BY DEF CallsInv
<1>2. QED BY <1>1, CallsInvariance, PTL

\* Where a new request comes from: it asks for a quote, or it opens a round, or it
\* is one whose payment a service has just taken.
LEMMA NewRequest ==
    ASSUME CallsInv, [Next]_vars, NEW q \in wire', q \notin wire
    PROVE  \/ q.at = "sent" /\ q.payment = NoPayment
           \/ q.at = "sent" /\ run.stage = "signing" /\ run'.stage = "verifying"
           \/ \E p \in wire : /\ Admit(p)
                              /\ q.at = "working" /\ q.to = p.to /\ q.payment = p.payment
<1>1. ASSUME NEW c \in Check, Retry(c)
      PROVE  q.at = "sent" /\ q.payment = NoPayment
  <2>1. calls[c].payment = NoPayment
    BY <1>1 DEF CallsInv, Counted, Retry
  <2>2. QED BY <1>1, <2>1 DEF Retry, Request
<1>2. ASSUME CollectQuotes PROVE q.at = "sent" /\ q.payment = NoPayment
  BY <1>2 DEF CollectQuotes, CallAll, Request
<1>3. ASSUME NEW g, VerifyAll(g)
      PROVE  q.at = "sent" /\ run.stage = "signing" /\ run'.stage = "verifying"
  BY <1>3 DEF VerifyAll, CallAll, Request, CallsInv, Typed, RunTyped, RunRecord
<1>4. ASSUME NEW p \in wire, Admit(p)
      PROVE  q.at = "working" /\ q.to = p.to /\ q.payment = p.payment
  <2>1. p \in Requests /\ q = [p EXCEPT !.at = "working"]
    BY <1>4 DEF Admit, CallsInv, Typed
  <2>2. QED BY <2>1 DEF Requests
<1>5. ASSUME NEW p \in wire, Challenge(p) \/ Refuse(p) \/ Conclude(p) PROVE FALSE
  BY <1>5 DEF Challenge, Refuse, Conclude, Answer
<1>6. ASSUME \/ Boot \/ GroupBuilt \/ BuildFails \/ \E c \in Check : CallFails(c)
             \/ \E c \in Check : \E t \in Terms[c] : Reconfigure(c, t)
             \/ \E k \in Key : ChangeKey(k)
             \/ UNCHANGED vars
      PROVE  FALSE
  BY <1>6 DEF Boot, GroupBuilt, BuildFails, CallFails, Reconfigure, ChangeKey, vars
<1>7. CASE Orchestrator
  BY <1>1, <1>2, <1>3, <1>6, <1>7 DEF Orchestrator
<1>8. CASE Services
  BY <1>4, <1>5, <1>6, <1>8 DEF Services
<1>9. QED BY <1>6, <1>7, <1>8 DEF Next

\* A service starts to work only for a transaction that pays its present account
\* the fee of the tier it will work at, in a group the facilitator can sign for.
THEOREM PaidTheorem == Spec => WorkIsPaidFor
<1>1. ASSUME CallsInv, [Next]_vars, NEW q \in wire' \ wire, q.at = "working"
      PROVE  LET group == run.groups[q.payment.group]
                 pay == group.pays[GROUP_SLOT[q.to]] IN
             /\ pay.payTo = terms[q.to].payTo /\ pay.asset = terms[q.to].asset
             /\ pay.amount = q.payment.amount
             /\ group.feePayer = signer
  <2>1. PICK p \in wire : Admit(p) /\ q.to = p.to /\ q.payment = p.payment
    BY <1>1, NewRequest
  <2>2. p \in Requests /\ CarriesPayment(p) /\ p.payment # NoPayment
    BY <1>1, <2>1 DEF CallsInv, Typed, OnWire, Admit
  <2>3. p.to \in Check /\ p.payment.index = GROUP_SLOT[p.to]
    BY <2>2 DEF Requests, CarriesPayment
  <2>4. PICK tier \in Tier : Gate(p.to, p.payment, tier) /\ Verified(p.to, p.payment, tier)
    BY <2>1 DEF Admit
  <2>5. LET pay == run.groups[p.payment.group].pays[p.payment.index] IN
        /\ pay.payTo = terms[p.to].payTo /\ pay.asset = terms[p.to].asset
        /\ pay.amount = p.payment.amount
        /\ run.groups[p.payment.group].feePayer = signer
    BY <2>3, <2>4, AdmitsThePaid
  <2>6. QED BY <2>1, <2>3, <2>5
<1>2. CallsInv /\ [Next]_vars =>
        [\A q \in wire' \ wire : q.at = "working" =>
            LET group == run.groups[q.payment.group]
                pay == group.pays[GROUP_SLOT[q.to]] IN
            /\ pay.payTo = terms[q.to].payTo /\ pay.asset = terms[q.to].asset
            /\ pay.amount = q.payment.amount
            /\ group.feePayer = signer]_vars
  BY <1>1
<1>3. QED BY <1>2, CallsInvariance, PTL DEF Spec, WorkIsPaidFor

\* However calls fail, no payment is presented twice in a round.
THEOREM OnceTheorem == Spec => OnePaymentPerRound
<1>1. ASSUME CallsInv, [Next]_vars, NEW q \in wire', q.at = "sent", q.payment # NoPayment,
             q \notin wire
      PROVE  run.stage = "signing" /\ run'.stage = "verifying"
  BY <1>1, NewRequest
<1>2. CallsInv /\ [Next]_vars =>
        [\A q \in wire' : q.at = "sent" /\ q.payment # NoPayment /\ q \notin wire =>
            run.stage = "signing" /\ run'.stage = "verifying"]_vars
  BY <1>1
<1>3. QED BY <1>2, CallsInvariance, PTL DEF Spec, OnePaymentPerRound
================================================================================
