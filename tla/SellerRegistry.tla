------------------------------ MODULE SellerRegistry ------------------------------
(***************************************************************************)
(* The verification service's domain: the suppliers on file, the lookup of *)
(* a tax number in the government registry, and what a seller check        *)
(* answers.  A date is its number of days since 1970-01-01.                *)
(***************************************************************************)
EXTENDS Integers, Gstin

SupplierHistory(supplier, gstin, orders, disputes, licence) ==
    [supplier |-> supplier, gstin |-> gstin, orders |-> orders, disputes |-> disputes,
     licence |-> licence]

SUPPLIER_HISTORY ==
    {SupplierHistory("BLR", <<2, 9, 10, 10, 11, 12, 25, 1, 2, 3, 4, 22, 1, 35, 11>>, 1847, 0, 20908),
     SupplierHistory("CHN", <<3, 3, 10, 10, 17, 12, 12, 3, 4, 5, 6, 26, 1, 35, 9>>, 612, 1, 21061),
     SupplierHistory("PUN", <<2, 7, 10, 10, 15, 12, 12, 5, 6, 7, 8, 23, 1, 35, 34>>, 923, 5, 20833),
     SupplierHistory("DEL", <<0, 7, 10, 10, 16, 12, 23, 9, 0, 1, 2, 25, 1, 35, 0>>, 214, 2, 20999),
     SupplierHistory("HYD", <<3, 6, 10, 10, 19, 12, 13, 7, 8, 9, 0, 27, 1, 35, 16>>, 388, 7, 21091)}

MAX_ACCEPTABLE_DISPUTES == 3

HistoryOf(supplier) == {h \in SUPPLIER_HISTORY : h.supplier = supplier}

\* What the government registry does with a lookup: it reports a status, or it
\* cannot be had (no credentials, timeout, an error, an answer without status).
RegistryReply == {"Active", "Cancelled", "unreachable"}

\* lookupLive and lookupStructural: what an answer rests on.  A malformed number
\* is not looked up, and a shallow check looks nothing up.
Source(history, tier, reply) ==
    CASE tier = "shallow" \/ ~ValidStructure(history.gstin) -> "structural"
      [] tier # "shallow" /\ ValidStructure(history.gstin) /\ reply = "unreachable" -> "live-failed"
      [] OTHER -> "live"

LicenceValid(history, today) == history.licence >= today

\* Slip: the licence is never looked at.
ConclusiveWithoutLicence(history, today, tier, reply) ==
    \/ ~ValidStructure(history.gstin)
    \/ Source(history, tier, reply) = "live" /\ reply # "Active"
    \/ tier = "deep" /\ history.disputes > MAX_ACCEPTABLE_DISPUTES

\* What rules a supplier out: a malformed number at every tier, an inactive
\* registration once it is looked up, and the trading history at the deep tier.
Conclusive(history, today, tier, reply) ==
    \/ ~ValidStructure(history.gstin)
    \/ Source(history, tier, reply) = "live" /\ reply # "Active"
    \/ tier = "deep" /\ history.disputes > MAX_ACCEPTABLE_DISPUTES
    \/ tier = "deep" /\ ~LicenceValid(history, today)

\* Enough trade without dispute to stand in for the registry.
Trusted(history) == history.orders >= 100 /\ history.disputes = 0

\* How sure a deep check is of a supplier nothing rules out.
DeepFinding(history, reply) ==
    CASE reply # "unreachable" -> [confidence |-> "confirmed", certainty |-> 99]
      [] reply = "unreachable" /\ Trusted(history) -> [confidence |-> "confirmed", certainty |-> 88]
      [] reply = "unreachable" /\ ~Trusted(history) -> [confidence |-> "ambiguous", certainty |-> 65]

\* Slip: a standard check is judged like a deep one.
FindingStandardAsDeep(history, tier, reply) ==
    IF tier = "shallow" THEN [confidence |-> "ambiguous", certainty |-> 62]
    ELSE DeepFinding(history, reply)

Finding(history, tier, reply) ==
    CASE tier = "shallow" -> [confidence |-> "ambiguous", certainty |-> 62]
      [] tier = "standard" ->
            [confidence |-> "ambiguous", certainty |-> IF reply = "unreachable" THEN 60 ELSE 82]
      [] tier = "deep" -> DeepFinding(history, reply)

\* The certainty of a refusal, 90 or 99, is never read.
SellerVerdict(history, today, tier, reply) ==
    LET finding == IF Conclusive(history, today, tier, reply)
                   THEN [confidence |-> "refuted", certainty |-> 99]
                   ELSE Finding(history, tier, reply)
    IN  [tier |-> tier, confidence |-> finding.confidence, certainty |-> finding.certainty]

\* runVerificationCheck
RunVerificationCheck(order, today, tier, reply) ==
    IF HistoryOf(order.supplier) = {}
    THEN [tier |-> tier, confidence |-> "refuted", certainty |-> 100]
    ELSE SellerVerdict(CHOOSE h \in HistoryOf(order.supplier) : TRUE, today, tier, reply)
================================================================================
