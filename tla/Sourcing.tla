--------------------------------- MODULE Sourcing ---------------------------------
(***************************************************************************)
(* One run seen from its order: the three domain functions answer with     *)
(* their real data at the tiers bought, and the spend policy decides what  *)
(* the next round buys.  RunLifecycle has the same rounds with all the     *)
(* concurrency and with any answer a service could give; here the answers  *)
(* are the ones an order really gets.  Between two rounds days may pass    *)
(* and the government registry may change its answer, or have none.        *)
(***************************************************************************)
EXTENDS SpendPolicy, CheckAnswers, PriceEngine, StockLedger, SellerRegistry, FiniteSets

CONSTANTS
    Order,       \* the orders considered
    Today,       \* Today[o]: the days on which a run for order o can start
    MaxNights,   \* bound: the nights a run can last
    MaxRounds    \* MAX_ROUNDS

SourcingRequest ==
    [sku : STRING, supplier : STRING, quantity : Nat, ceiling : Nat, requiredBy : Nat]

ASSUME SourcingAssumption ==
    /\ Order \subseteq SourcingRequest /\ Today \in [Order -> SUBSET Nat]
    /\ MaxNights \in Nat /\ MaxRounds \in Nat \ {0}

VARIABLES
    order,       \* the sourcing request
    today,       \* the current day
    tiers,       \* the tiers of the group being verified
    spent,       \* the ledger
    rounds,      \* rounds paid for
    verdicts,    \* the verdicts on file
    answeredOn,  \* the day the verdicts were given
    refused,     \* history: the checks that refused in some round
    silent,      \* history: the checks that did not answer in some round
    outcome      \* whether the run is verifying, ready to settle or aborted

vars == <<order, today, tiers, spent, rounds, verdicts, answeredOn, refused, silent,
          outcome>>

\* Both sides of the API accept an order only within these limits.
SourcingRequestSchema(o) == o \in SourcingRequest /\ o.quantity \in 1 .. 1000000

\* What the form offers at one click, and what it says comes of it; 15 September
\* 2026 is day 20711.
PRESETS ==
    LET preset(result, sku, supplier, quantity) ==
            [outcome |-> result,
             request |-> [sku |-> sku, supplier |-> supplier, quantity |-> quantity,
                          ceiling |-> 8333, requiredBy |-> 20711]]
    IN  {preset("settles", "4471", "BLR", 500), preset("aborts", "4472", "BLR", 500),
         preset("aborts", "9002", "PUN", 10)}

Init ==
    /\ order \in {o \in Order : SourcingRequestSchema(o)} /\ today \in Today[order]
    /\ tiers = OpeningTiers /\ spent = FeesOf(OpeningTiers) /\ rounds = 1
    /\ verdicts = NoVerdicts /\ answeredOn = today
    /\ refused = {} /\ silent = {} /\ outcome = "verifying"

\* The part of the order each service is sent.
BuildCheckBody(c) ==
    CASE c = "price" -> [sku |-> order.sku, quantity |-> order.quantity,
                         ceiling |-> order.ceiling, supplier |-> order.supplier]
      [] c = "availability" -> [sku |-> order.sku, quantity |-> order.quantity,
                                requiredBy |-> order.requiredBy, supplier |-> order.supplier]
      [] c = "verification" -> [supplier |-> order.supplier]

\* What each service takes for a body, with limits of its own.
PriceBody == [sku : STRING, quantity : 1 .. 1000000, ceiling : Nat, supplier : STRING]
AvailabilityBody == [sku : STRING, quantity : 1 .. 1000000, requiredBy : Nat, supplier : STRING]
VerificationBody == [supplier : STRING]

\* A body the service does not take is a 400, which is no verdict.
PriceAnswer(body) ==
    IF body \in PriceBody THEN RunPriceCheck(body, tiers["price"]) ELSE NoAnswer

AvailabilityAnswer(body) ==
    IF body \in AvailabilityBody
    THEN RunAvailabilityCheck(body, today, tiers["availability"]) ELSE NoAnswer

VerificationAnswer(body, reply) ==
    IF body \in VerificationBody
    THEN RunVerificationCheck(body, today, tiers["verification"], reply) ELSE NoAnswer

\* What check c answers to the order today, given the registry's reply.
AnswerOf(c, reply) ==
    CASE c = "price" -> PriceAnswer(BuildCheckBody(c))
      [] c = "availability" -> AvailabilityAnswer(BuildCheckBody(c))
      [] c = "verification" -> VerificationAnswer(BuildCheckBody(c), reply)

\* The verdicts of a round in which the checks in unreached do not answer.
RoundVerdicts(reply, unreached) ==
    [c \in Check |-> IF c \in unreached THEN NoAnswer ELSE AnswerOf(c, reply)]

\* The fan-out of the verify route: all three checks again, at the current tiers.
Asked(v) ==
    /\ outcome = "verifying"
    /\ verdicts' = v /\ answeredOn' = today
    /\ refused' = refused \union
            {c \in Check : v[c] # NoAnswer /\ v[c].confidence = "refuted"}
    /\ silent' = silent \union {c \in Check : v[c] = NoAnswer}
    /\ UNCHANGED <<order, today>>

\* Slip: one round too many.
MayEscalateOnceMore(v) == rounds <= MaxRounds /\ PlanExists(v, spent)

MayEscalate(v) == rounds < MaxRounds /\ PlanExists(v, spent)

AllConfirm(v) ==
    /\ Asked(v) /\ AllConfirmed(v)
    /\ outcome' = "ready"
    /\ UNCHANGED <<tiers, spent, rounds>>

Escalate(v) ==
    /\ Asked(v) /\ ~AllConfirmed(v) /\ MayEscalate(v)
    /\ tiers' = PlannedTiers(v, spent, tiers)
    /\ spent' = SpentAfterPlan(v, spent)
    /\ rounds' = rounds + 1
    /\ UNCHANGED outcome

GiveUp(v) ==
    /\ Asked(v) /\ ~AllConfirmed(v) /\ ~MayEscalate(v)
    /\ outcome' = "aborted"
    /\ UNCHANGED <<tiers, spent, rounds>>

\* Midnight passes.
NextDay ==
    /\ outcome = "verifying"
    /\ \E d \in Today[order] : today \in d .. d + MaxNights - 1
    /\ today' = today + 1
    /\ UNCHANGED <<order, tiers, spent, rounds, verdicts, answeredOn, refused, silent, outcome>>

Next ==
    \/ \E reply \in RegistryReply, unreached \in SUBSET Check :
        LET v == RoundVerdicts(reply, unreached)
        IN  AllConfirm(v) \/ Escalate(v) \/ GiveUp(v)
    \/ NextDay

Spec == Init /\ [][Next]_vars
--------------------------------------------------------------------------------
(* Properties. *)

\* Every variable has its type.
TypeOK ==
    /\ order \in Order /\ today \in Nat /\ answeredOn \in Nat
    /\ tiers \in [Check -> Tier] /\ spent \in Nat /\ rounds \in 1 .. MaxRounds
    /\ verdicts \in Verdicts /\ refused \subseteq Check /\ silent \subseteq Check
    /\ outcome \in {"verifying", "ready", "aborted"}

\* What must be true of the world for an order to be a good one.
Affordable == \A e \in PricesOf(order.sku, order.supplier) : e.live <= order.ceiling

\* Monday to Friday, day 0 being a Thursday.
Weekdays(days) == {d \in days : (d + 4) % 7 \in 1 .. 5}

Suppliable ==
    \A r \in StockOf(order.sku, order.supplier) :
        /\ order.quantity <= r.live - r.reserved - r.pending
        /\ r.slotFree
        /\ Cardinality(Weekdays((answeredOn + 1) .. order.requiredBy)) >= r.lead

Reliable ==
    \A h \in HistoryOf(order.supplier) :
        /\ ValidStructure(h.gstin) /\ h.licence >= answeredOn
        /\ h.disputes <= MAX_ACCEPTABLE_DISPUTES

\* Although the loop stops at the cheapest tiers it gets away with, an order
\* becomes ready to settle only from a supplier a deep look finds reliable; and
\* when every check answered in every round, only at a live price within the
\* ceiling and with units that are neither reserved nor pending and leave in
\* time.  A check that was silent for a round is not escalated with the others:
\* its cheap answer is then taken at face value.  What the form presents as an
\* order that aborts does not become ready either way.
ReadyOrdersAreGood ==
    outcome = "ready" =>
        /\ [outcome |-> "aborts", request |-> order] \notin PRESETS
        /\ HistoryOf(order.supplier) # {} /\ Reliable
        /\ silent = {} =>
            /\ PricesOf(order.sku, order.supplier) # {} /\ Affordable
            /\ StockOf(order.sku, order.supplier) # {} /\ Suppliable

\* A refusal is the end of an order, whatever the other checks go on to buy and
\* whatever the registry says in a later round (tiers.ts: "a refuted answer is
\* final").
RefusedNeverReady == refused # {} => outcome # "ready"

\* The answers RunLifecycle lets the services give are all an order can get: each
\* verdict on file is one CheckAnswers lists for its check and tier, apart from
\* the certainty of a refusal, which nothing reads.
AnswersAreCovered ==
    \A c \in Check : verdicts[c] # NoAnswer =>
        LET v == verdicts[c] IN
        \E a \in ServiceAnswers[c][v.tier] :
            /\ a.confidence = v.confidence
            /\ v.confidence = "refuted" \/ a.certainty = v.certainty

\* One of the first fourteen characters replaced, and two neighbours exchanged.
Replaced(s, i, x) == [s EXCEPT ![i] = x]
Exchanged(s, i) == [s EXCEPT ![i] = s[i + 1], ![i + 1] = s[i]]

\* The suppliers whose number on file is well formed, and is no more after one
\* such slip; 0 and Z for Z and 0 is the one slip the check digit cannot see.
SlipsAreCaught ==
    {h \in SUPPLIER_HISTORY :
        /\ ValidStructure(h.gstin)
        /\ \A i \in 1 .. 14, x \in Char :
            x # h.gstin[i] => ~ValidStructure(Replaced(h.gstin, i, x))
        /\ \A i \in 1 .. 13 :
            h.gstin[i] # h.gstin[i + 1] /\ {h.gstin[i], h.gstin[i + 1]} # {0, Z}
                => ~ValidStructure(Exchanged(h.gstin, i))}

\* A mistyped number is ruled out by the cheapest tier: no single substitution
\* and no exchange of neighbours of a number on file is well formed.  The one of
\* HYD has a wrong check digit on purpose, and is ruled out too.
MistypedNumbersAreRejected ==
    /\ order.supplier # "HYD" => HistoryOf(order.supplier) \subseteq SlipsAreCaught
    /\ order.supplier = "HYD" => \A h \in HistoryOf("HYD") : ~ValidStructure(h.gstin)
================================================================================
