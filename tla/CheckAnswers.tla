------------------------------ MODULE CheckAnswers ------------------------------
(***************************************************************************)
(* What the three check services can conclude at each tier.  The business  *)
(* data behind an answer (catalogue, stock ledger, registry) is abstracted *)
(* to the outcomes it can lead to: each operator lists the branches of the *)
(* domain function that a payment for that tier can reach.                 *)
(***************************************************************************)
EXTENDS Integers

Answer(tier, confidence, certainty) ==
    [tier |-> tier, confidence |-> confidence, certainty |-> certainty]

\* Unknown goods, an exceeded ceiling, missing stock, an inactive supplier:
\* every tier of every check can refuse, and the certainty of a refusal is
\* never read.
Refusal(tier) == Answer(tier, "refuted", 100)

PriceAnswers(tier) ==
    {Refusal(tier)} \union
    CASE tier = "shallow" -> {Answer(tier, "ambiguous", 62), Answer(tier, "confirmed", 68)}
      [] tier = "standard" -> {Answer(tier, "confirmed", 90)}
      [] tier = "deep" -> {Answer(tier, "confirmed", 99)}

AvailabilityAnswers(tier) ==
    {Refusal(tier)} \union
    CASE tier = "shallow" -> {Answer(tier, "ambiguous", 60), Answer(tier, "confirmed", 68)}
      [] tier = "standard" -> {Answer(tier, "ambiguous", 72), Answer(tier, "confirmed", 90)}
      [] tier = "deep" -> {Answer(tier, "confirmed", 99)}

\* Only a deep check can confirm a seller: a shallow one sees the number's
\* structure, a standard one the registry but no trading history.
VerificationAnswers(tier) ==
    {Refusal(tier)} \union
    CASE tier = "shallow" -> {Answer(tier, "ambiguous", 62)}
      [] tier = "standard" -> {Answer(tier, "ambiguous", 60), Answer(tier, "ambiguous", 82)}
      [] tier = "deep" -> {Answer(tier, "ambiguous", 65), Answer(tier, "confirmed", 88),
                           Answer(tier, "confirmed", 99)}

AnswersOf(check) ==
    [tier \in {"shallow", "standard", "deep"} |->
        CASE check = "price" -> PriceAnswers(tier)
          [] check = "availability" -> AvailabilityAnswers(tier)
          [] check = "verification" -> VerificationAnswers(tier)]

ServiceAnswers == [check \in {"price", "availability", "verification"} |-> AnswersOf(check)]
================================================================================
