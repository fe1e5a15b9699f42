------------------------------- MODULE CheckCalls -------------------------------
(***************************************************************************)
(* The calls between the orchestrator and the three check services: quotes *)
(* with a timeout and one retry, the atomic group built from them, the     *)
(* paid fan-out that never retries, and the gate each service puts before  *)
(* its work.                                                               *)
(*                                                                         *)
(* A call the orchestrator gave up on is not cancelled at the service: the *)
(* request goes on, and its answer finds nobody waiting.  Services restart *)
(* with other terms, the facilitator changes its key, and both may fall    *)
(* silent.  One run is followed from start-up to its last round.  The run  *)
(* store and settlement are RunLifecycle's; services registered at run     *)
(* time are ServiceRegistry's.                                             *)
(***************************************************************************)
EXTENDS SpendPolicy, Sequences

CONSTANTS
    Terms,             \* Terms[c]: the accounts, assets and slots service c can be
                       \* configured with
    Deployed,          \* Deployed[c]: how it is configured at first
    Answers,           \* Answers[c][t]: the verdicts check c can give for tier t
    Asset,             \* env.asset.id of the orchestrator
    Key,               \* the facilitator's addresses
    FALLBACK_FEE_PAYER,
    QUOTE_ATTEMPTS, MaxRounds,
    MaxChanges,        \* bound: reconfigurations of services and changes of key
    Pending, NoPayment, NoKey

GROUP_SLOT == [price |-> 1, availability |-> 2, verification |-> 3]

\* What a service's environment decides: who is paid, in what, at which slot.
Configuration == [payTo : STRING, asset : STRING, slot : Nat]

\* The payment a service is shown: the terms it is said to meet, and the
\* transaction of a group that is said to meet them.
Payment == [payTo : STRING, asset : STRING, amount : Nat, index : Nat, group : Nat]

ASSUME CallsAssumption ==
    /\ Deployed \in [Check -> Configuration]
    /\ \A c \in Check : Deployed[c] \in Terms[c] /\ Terms[c] \subseteq Configuration
    /\ \A c \in Check, t \in Tier : \A v \in Answers[c][t] : v \in Verdict /\ v.tier = t
    /\ FALLBACK_FEE_PAYER \in Key /\ NoKey \notin Key
    /\ Asset \in STRING
    /\ QUOTE_ATTEMPTS \in Nat \ {0} /\ MaxRounds \in Nat \ {0} /\ MaxChanges \in Nat
    /\ Pending \notin Verdict \union {NoAnswer} /\ NoPayment \notin Payment

VARIABLES
    run,         \* the orchestrator's run
    feePayer,    \* `cached`: the fee payer found at start-up
    calls,       \* calls[c]: the orchestrator's call to c, and how often it called c
    answers,     \* answers[c]: what the collection or the fan-out has from c
    vouched,     \* history: the group that answer is about, 0 for none
    wire,        \* requests no service has answered yet
    terms,       \* terms[c]: the configuration of service c
    signer,      \* the facilitator's key
    changes

vars == <<run, feePayer, calls, answers, vouched, wire, terms, signer, changes>>
world == <<terms, signer, changes>>
--------------------------------------------------------------------------------
(* Start-up.  The facilitator has changed its key since the fallback was noted. *)

Init ==
    /\ run = [stage |-> "booting", rounds |-> 0, tiers |-> OpeningTiers, spent |-> 0,
              quotes |-> [c \in Check |-> Pending], groups |-> <<>>, signed |-> 0]
    /\ feePayer = NoKey
    /\ calls = [c \in Check |-> [at |-> "idle", no |-> 0, attempt |-> 0, payment |-> NoPayment]]
    /\ answers = [c \in Check |-> Pending] /\ vouched = [c \in Check |-> 0]
    /\ wire = {}
    /\ terms = Deployed
    /\ signer \in Key \ {FALLBACK_FEE_PAYER}
    /\ changes = 0

\* loadFacilitatorCapabilities: whatever goes wrong with the probe, the fallback
\* is cached, and nothing replaces it.
Boot ==
    /\ run.stage = "booting"
    /\ feePayer' \in {signer, FALLBACK_FEE_PAYER}
    /\ run' = [run EXCEPT !.stage = "idle"]
    /\ UNCHANGED <<calls, answers, vouched, wire, world>>
--------------------------------------------------------------------------------
(* The orchestrator's calls. *)

\* The request a call sends: its number tells it from earlier ones to c.
Request(c, no, payment) == [to |-> c, no |-> no, payment |-> payment, at |-> "sent"]

\* callService for every check at once, with nothing on file yet.  Requests for
\* a quote that nobody waits for any more are forgotten here: their answers would
\* change nothing.
CallAll(payment) ==
    /\ calls' = [c \in Check |-> [at |-> "waiting", no |-> calls[c].no + 1, attempt |-> 1,
                                  payment |-> payment[c]]]
    /\ answers' = [c \in Check |-> Pending]
    /\ vouched' = [c \in Check |-> 0]
    /\ wire' = {q \in wire : q.payment # NoPayment}
                \union {Request(c, calls[c].no + 1, payment[c]) : c \in Check}

\* collectQuotes
CollectQuotes ==
    /\ run.stage = "idle"
    /\ run' = [run EXCEPT !.stage = "quoting"]
    /\ CallAll([c \in Check |-> NoPayment])
    /\ UNCHANGED <<feePayer, world>>

\* The quotes go on file in one piece, when all are there and name one asset;
\* the first failure ends the collection while other calls go on.
Collected(got) ==
    CASE \E c \in Check : got[c] = NoAnswer -> run' = [run EXCEPT !.stage = "failed"]
      [] \A c \in Check : got[c] \notin {Pending, NoAnswer} ->
            run' = [run EXCEPT !.stage = IF \A c, d \in Check : got[c].asset = got[d].asset
                                         THEN "building" ELSE "failed",
                               !.quotes = got, !.rounds = 1, !.spent = FeesOf(OpeningTiers)]
      [] OTHER -> UNCHANGED run

\* The fan-out decides when all three are back: ready, a deeper round, or abort.
FannedOut(got) ==
    IF \E c \in Check : got[c] = Pending THEN UNCHANGED run
    ELSE run' = IF AllConfirmed(got) THEN [run EXCEPT !.stage = "ready"]
                ELSE IF run.rounds < MaxRounds /\ PlanExists(got, run.spent)
                THEN [run EXCEPT !.stage = "building", !.rounds = @ + 1,
                                 !.tiers = PlannedTiers(got, run.spent, @),
                                 !.spent = SpentAfterPlan(got, @)]
                ELSE [run EXCEPT !.stage = "aborted"]

\* The call to c ends with answer a, about group g.
CallEnds(c, a, g) ==
    LET got == [answers EXCEPT ![c] = a] IN
    /\ answers' = got /\ vouched' = [vouched EXCEPT ![c] = g]
    /\ calls' = [calls EXCEPT ![c].at = "idle"]
    /\ CASE run.stage = "quoting" -> Collected(got)
         [] run.stage = "verifying" -> FannedOut(got)
         [] OTHER -> UNCHANGED run

\* Slip: one attempt too many.
RetriesOnceMore(c) == calls[c].payment = NoPayment /\ calls[c].attempt <= QUOTE_ATTEMPTS

\* Slip: a payment is presented again like a request for a quote.
RetriesAnything(c) == calls[c].attempt < QUOTE_ATTEMPTS

\* Only a quote is attempted again; a collection that failed does not stop the
\* retries of its other calls.
MayRetry(c) == calls[c].payment = NoPayment /\ calls[c].attempt < QUOTE_ATTEMPTS

\* Slip: no timeout, only the end of the connection is noticed.
CallFailsClosed(c) ==
    /\ calls[c].at = "waiting"
    /\ \A q \in wire : ~(q.to = c /\ q.no = calls[c].no)
    /\ IF MayRetry(c)
       THEN calls' = [calls EXCEPT ![c].at = "backoff"] /\ UNCHANGED <<run, answers, vouched>>
       ELSE CallEnds(c, NoAnswer, 0)
    /\ UNCHANGED <<feePayer, wire, world>>

\* Timed out, unreachable, or not JSON.  The request itself goes on.
CallFails(c) ==
    /\ calls[c].at = "waiting"
    /\ IF MayRetry(c)
       THEN calls' = [calls EXCEPT ![c].at = "backoff"] /\ UNCHANGED <<run, answers, vouched>>
       ELSE CallEnds(c, NoAnswer, 0)
    /\ UNCHANGED <<feePayer, wire, world>>

\* QUOTE_BACKOFF_MS is over.
Retry(c) ==
    /\ calls[c].at = "backoff"
    /\ calls' = [calls EXCEPT ![c].at = "waiting", ![c].no = @ + 1, ![c].attempt = @ + 1]
    /\ wire' = wire \union {Request(c, calls[c].no + 1, calls[c].payment)}
    /\ UNCHANGED <<run, feePayer, answers, vouched, world>>
--------------------------------------------------------------------------------
(* The group, its signature and the fan-out. *)

\* requireQuote, of the check that is paid at a slot.
RequireQuote(slot) == run.quotes[CHOOSE c \in Check : GROUP_SLOT[c] = slot]

\* The fees of a round: exactly the current tier's for each check.
RoundFee(slot) == TierFee[run.tiers[CHOOSE c \in Check : GROUP_SLOT[c] = slot]]

\* buildAtomicGroup: slots 1 to 3 pay what was quoted, at the current tiers, and
\* slot 0 is the cached fee payer's.
BuildGroup ==
    [pays |-> [slot \in 1 .. 3 |->
                  [payTo |-> RequireQuote(slot).payTo, asset |-> RequireQuote(slot).asset,
                   amount |-> RoundFee(slot)]],
     feePayer |-> feePayer]

GroupBuilt ==
    /\ run.stage = "building"
    /\ run' = [run EXCEPT !.stage = "signing", !.groups = Append(@, BuildGroup), !.signed = 0]
    /\ UNCHANGED <<feePayer, calls, answers, vouched, wire, world>>

\* The Algorand node could not be reached: the handler throws.
BuildFails ==
    /\ run.stage = "building"
    /\ run' = [run EXCEPT !.stage = "failed"]
    /\ UNCHANGED <<feePayer, calls, answers, vouched, wire, world>>

\* payeeMap: the accounts the quotes named.
PayeeMap == [c \in Check |-> run.quotes[c].payTo]

\* buildPaymentHeader: the one group for everybody, and c's own slot and terms.
PaymentHeader(c, g) ==
    [payTo |-> PayeeMap[c], asset |-> Asset, amount |-> TierFee[run.tiers[c]],
     index |-> GROUP_SLOT[c], group |-> g]

\* The buyer signed the group on offer, or one of an earlier round: the g-th that
\* was built.  That number stands for the group in signatures and payments.
VerifyAll(g) ==
    /\ run.stage = "signing" /\ g \in 1 .. Len(run.groups)
    /\ run' = [run EXCEPT !.stage = "verifying", !.signed = g]
    /\ CallAll([c \in Check |-> PaymentHeader(c, g)])
    /\ UNCHANGED <<feePayer, world>>
--------------------------------------------------------------------------------
(* The services. *)

\* tierForAmount: the amount decides, no label does.
TierForAmount(amount) == {t \in Tier : TierFee[t] = amount}

\* What a service asks for one tier: its own account and asset, as configured.
PriceRequirements(tier) ==
    [payTo |-> terms["price"].payTo, asset |-> terms["price"].asset, amount |-> TierFee[tier]]

AvailabilityRequirements(tier) ==
    [payTo |-> terms["availability"].payTo, asset |-> terms["availability"].asset,
     amount |-> TierFee[tier]]

VerificationRequirements(tier) ==
    [payTo |-> terms["verification"].payTo, asset |-> terms["verification"].asset,
     amount |-> TierFee[tier]]

\* The 402 body: every tier, and the slot the service is paid from.
PriceOffer ==
    [accepts |-> [tier \in Tier |-> PriceRequirements(tier)], paymentIndex |-> terms["price"].slot]

AvailabilityOffer ==
    [accepts |-> [tier \in Tier |-> AvailabilityRequirements(tier)],
     paymentIndex |-> terms["availability"].slot]

VerificationOffer ==
    [accepts |-> [tier \in Tier |-> VerificationRequirements(tier)],
     paymentIndex |-> terms["verification"].slot]

Offer(c) ==
    CASE c = "price" -> PriceOffer
      [] c = "availability" -> AvailabilityOffer
      [] c = "verification" -> VerificationOffer

MeetsRequirements(pay, requirement) ==
    /\ pay.payTo = requirement.payTo /\ pay.asset = requirement.asset
    /\ pay.amount = requirement.amount

\* Each service's gate: its own slot, a tier it sells, its own terms.
PriceGate(p, tier) ==
    /\ p.index = PriceOffer.paymentIndex
    /\ tier \in TierForAmount(p.amount)
    /\ MeetsRequirements(p, PriceRequirements(tier))

AvailabilityGate(p, tier) ==
    /\ p.index = AvailabilityOffer.paymentIndex
    /\ tier \in TierForAmount(p.amount)
    /\ MeetsRequirements(p, AvailabilityRequirements(tier))

VerificationGate(p, tier) ==
    /\ p.index = VerificationOffer.paymentIndex
    /\ tier \in TierForAmount(p.amount)
    /\ MeetsRequirements(p, VerificationRequirements(tier))

Gate(c, p, tier) ==
    CASE c = "price" -> PriceGate(p, tier)
      [] c = "availability" -> AvailabilityGate(p, tier)
      [] c = "verification" -> VerificationGate(p, tier)

\* facilitator.verify: the transaction at the declared index pays what the
\* service requires, and the facilitator can sign slot 0.
Verifies(p, requirement) ==
    /\ MeetsRequirements(run.groups[p.group].pays[p.index], requirement)
    /\ run.groups[p.group].feePayer = signer

\* Behind its gate each service has the facilitator verify; neither being out of
\* reach nor an invalid payment gets further.
PriceVerified(p, tier) == Verifies(p, PriceRequirements(tier))
AvailabilityVerified(p, tier) == Verifies(p, AvailabilityRequirements(tier))
VerificationVerified(p, tier) == Verifies(p, VerificationRequirements(tier))

Verified(c, p, tier) ==
    CASE c = "price" -> PriceVerified(p, tier)
      [] c = "availability" -> AvailabilityVerified(p, tier)
      [] c = "verification" -> VerificationVerified(p, tier)

\* Slip: the answer goes to whatever call to c is open.
AwaitedByCheck(q) == calls[q.to].at = "waiting"

\* Somebody still waits for the answer to q.
Awaited(q) == calls[q.to].at = "waiting" /\ calls[q.to].no = q.no

\* Request q is answered with a, about group g.
Answer(q, a, g) ==
    /\ q \in wire /\ wire' = wire \ {q}
    /\ IF Awaited(q) THEN CallEnds(q.to, a, g) ELSE UNCHANGED <<run, calls, answers, vouched>>
    /\ UNCHANGED <<feePayer, world>>

\* parseChallenge: the first entry's terms, unless the slot is not the one the
\* orchestrator assigns.
ParseChallenge(c, offer) ==
    IF offer.paymentIndex = GROUP_SLOT[c]
    THEN [payTo |-> offer.accepts["shallow"].payTo, asset |-> offer.accepts["shallow"].asset,
          slot |-> offer.paymentIndex]
    ELSE NoAnswer

\* No header: 402 with the offer.
Challenge(q) == q.payment = NoPayment /\ Answer(q, ParseChallenge(q.to, Offer(q.to)), 0)

\* The limiter, the gate, the facilitator's outage, the body or the process says
\* no: some status that is neither a challenge nor a verdict.
Refuse(q) == Answer(q, NoAnswer, 0)

\* Slip: the facilitator was reached, and what it said is not looked at.
AdmitUnverified(q) ==
    /\ q.payment # NoPayment /\ q.at = "sent" /\ q \in wire
    /\ \E tier \in Tier : Gate(q.to, q.payment, tier)
    /\ wire' = (wire \ {q}) \union {[q EXCEPT !.at = "working"]}
    /\ UNCHANGED <<run, feePayer, calls, answers, vouched, world>>

\* The gate lets the payment through, the facilitator finds it valid, and the
\* route starts its work.  One step: between the gate and the facilitator's answer
\* the service's terms cannot change, for a restart ends the request.
Admit(q) ==
    /\ q.payment # NoPayment /\ q.at = "sent" /\ q \in wire
    /\ \E tier \in Tier : Gate(q.to, q.payment, tier) /\ Verified(q.to, q.payment, tier)
    /\ wire' = (wire \ {q}) \union {[q EXCEPT !.at = "working"]}
    /\ UNCHANGED <<run, feePayer, calls, answers, vouched, world>>

\* The routes behind the gates: the check is run at the tier paid for, whatever
\* the body says, and its latency is waited out first.
PriceRoute(tier) == Answers["price"][tier]
AvailabilityRoute(tier) == Answers["availability"][tier]
VerificationRoute(tier) == Answers["verification"][tier]

RouteAnswers(c, tier) ==
    CASE c = "price" -> PriceRoute(tier)
      [] c = "availability" -> AvailabilityRoute(tier)
      [] c = "verification" -> VerificationRoute(tier)

\* requirePaymentContext: the tier the gate found paid for, and left for the route.
PaymentContext(q) == TierForAmount(q.payment.amount)

Conclude(q) ==
    /\ q.at = "working"
    /\ \E tier \in PaymentContext(q) :
        \E v \in RouteAnswers(q.to, tier) : Answer(q, v, q.payment.group)

\* Bound: the world changes MaxChanges times, and no more once the run is over.
WorldChanges ==
    /\ run.stage \notin {"ready", "aborted", "failed"}
    /\ changes < MaxChanges /\ changes' = changes + 1

\* A service comes back with another configuration; its open requests are gone.
\* (One that comes back as it was only refuses its open requests.)
Reconfigure(c, t) ==
    /\ WorldChanges
    /\ t # terms[c] /\ terms' = [terms EXCEPT ![c] = t]
    /\ wire' = {q \in wire : q.to # c}
    /\ UNCHANGED <<run, feePayer, calls, answers, vouched, signer>>

ChangeKey(k) ==
    /\ WorldChanges
    /\ k # signer /\ signer' = k
    /\ UNCHANGED <<run, feePayer, calls, answers, vouched, wire, terms>>
--------------------------------------------------------------------------------
Orchestrator ==
    \/ Boot \/ CollectQuotes \/ GroupBuilt \/ BuildFails
    \/ \E g \in 1 .. Len(run.groups) : VerifyAll(g)
    \/ \E c \in Check : CallFails(c) \/ Retry(c)

Services ==
    \/ \E q \in wire : Challenge(q) \/ Refuse(q) \/ Admit(q) \/ Conclude(q)
    \/ \E c \in Check : \E t \in Terms[c] : Reconfigure(c, t)
    \/ \E k \in Key : ChangeKey(k)

Next == Orchestrator \/ Services

\* The orchestrator's timers run; no service is assumed to answer.
Spec == Init /\ [][Next]_vars /\ \A c \in Check : WF_vars(CallFails(c)) /\ WF_vars(Retry(c))
--------------------------------------------------------------------------------
\* Every variable has its type; a call is attempted at most QUOTE_ATTEMPTS times,
\* and a request's number was given out by the orchestrator.
TypeOK ==
    /\ run.stage \in {"booting", "idle", "quoting", "building", "signing", "verifying",
                      "ready", "aborted", "failed"}
    /\ run.rounds \in 0 .. MaxRounds /\ run.tiers \in [Check -> Tier] /\ run.spent \in 0 .. Budget
    /\ feePayer \in Key \union {NoKey} /\ signer \in Key
    /\ \A c \in Check :
        /\ calls[c].at \in {"idle", "waiting", "backoff"}
        /\ calls[c].no \in 0 .. QUOTE_ATTEMPTS + MaxRounds
        /\ calls[c].attempt \in 0 .. QUOTE_ATTEMPTS
        /\ answers[c] \in {Pending, NoAnswer} \union Terms[c] \union Verdict
        /\ terms[c] \in Terms[c]
    /\ \A q \in wire : q.no \in 1 .. calls[q.to].no /\ q.at \in {"sent", "working"}

\* A verdict is about the group this round signed and the tier this round asked
\* for, and that group pays the tier: neither the late answer of an earlier round
\* nor an old signature can stand in for it.  This is what RunLifecycle's Reply
\* takes for granted of a fan-out.
VerdictsAreOfTheRound ==
    run.stage \in {"verifying", "ready"} =>
        \A c \in Check : answers[c] \in Verdict =>
            /\ answers[c].tier = run.tiers[c]
            /\ vouched[c] = run.signed
            /\ run.groups[run.signed].pays[GROUP_SLOT[c]].amount = TierFee[run.tiers[c]]

\* A service works only for a group that pays it: its own account, as it is
\* configured now and not as it was quoted, its own asset, the fee of the tier it
\* works at, with a fee payer the facilitator can sign for.  Stale quotes, a
\* fallback fee payer and a rotated key never get that far.
WorkIsPaidFor ==
    [][\A q \in wire' \ wire : q.at = "working" =>
        LET group == run.groups[q.payment.group]
            pay == group.pays[GROUP_SLOT[q.to]] IN
        /\ pay.payTo = terms[q.to].payTo /\ pay.asset = terms[q.to].asset
        /\ pay.amount = q.payment.amount
        /\ group.feePayer = signer]_vars

\* A service is sent a payment only when a round opens with a fresh signature:
\* whatever times out, no payment is presented twice in a round (serviceClient.ts:
\* "Verification and settlement never retry").
OnePaymentPerRound ==
    [][\A q \in wire' : q.at = "sent" /\ q.payment # NoPayment /\ q \notin wire =>
        run.stage = "signing" /\ run'.stage = "verifying"]_vars

\* "Every call has a hard ceiling" (pricing.ts): however silent the services are,
\* a collection or fan-out that was begun comes to an end in all its calls.
NothingHangs == (\E c \in Check : calls[c].at # "idle") ~> (\A c \in Check : calls[c].at = "idle")
================================================================================
