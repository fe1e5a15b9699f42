------------------------------ MODULE RunLifecycle ------------------------------
(***************************************************************************)
(* The orchestrator's sourcing runs: the in-memory run store, the three    *)
(* request handlers that move a run (quote, verify, settle), the services  *)
(* and the facilitator they wait for, and the chain.                       *)
(*                                                                         *)
(* A handler is a single-threaded piece of JavaScript that gives way only  *)
(* at an await.  Each action below is one such piece, from one await to    *)
(* the next; between them any other request may run, the facilitator may   *)
(* act, and the process may be restarted.  calls[h] is the await at which  *)
(* request h is suspended, with the values it captured before it.          *)
(*                                                                         *)
(* Left out: request validation that changes no state, the wording of      *)
(* reasons and logs, and amounts other than the check fees.                *)
(***************************************************************************)
EXTENDS SpendPolicy, FiniteSets

CONSTANTS
    Run,         \* the ids createRun can hand out, each used once
    Handler,     \* the requests that can be open at the same time
    External,    \* the services that can be registered at run time
    Answers,     \* Answers[c][t]: the verdicts check c can give for tier t
    MaxRuns,     \* MAX_RUNS
    MaxRounds,   \* MAX_ROUNDS
    ClientGroups, \* the signed groups a client may have put together itself
    NoGroup, NoRun

\* What matters of an atomic group: the run whose handler built it (NoRun for one
\* a client put together, its order slot what the client likes), what it pays each
\* check, and which external services it pays.
Group ==
    [builtFor : Run \union {NoRun}, tiers : [Check -> Tier], externals : SUBSET External]

\* A submission to the facilitator: the run that makes it, its first or a later
\* one, and the group.
Submission == [run : Run, group : Group, no : {1, 2}]

ASSUME LifecycleAssumption ==
    /\ MaxRuns \in Nat /\ MaxRounds \in Nat
    /\ Answers \in [Check -> [Tier -> SUBSET Verdict]]
    /\ \A c \in Check, t \in Tier, v \in Verdict : v \in Answers[c][t] => v.tier = t
    /\ ClientGroups \subseteq Group
    /\ NoGroup \notin Group /\ NoRun \notin Run
    /\ Check \cap External = {}

VARIABLES
    runs,        \* the Run objects
    store,       \* the ids in the store's Map
    newer,       \* newer[r]: the stored runs updated after r (their updatedAt order)
    calls,       \* where each open request is suspended
    registry,    \* the external services registered now
    offered,     \* groups returned to a buyer for signing
    sent,        \* every submission made to the facilitator
    inFlight,    \* submissions the facilitator has not decided
    paid,        \* the submissions whose group is on chain
    agreed       \* history: <<r, g, p>> when party p, asked by run r, has accepted
                 \* its payment in g

storeVars == <<runs, store, newer>>
chainVars == <<sent, inFlight, paid>>
vars == <<runs, store, newer, calls, registry, offered, sent, inFlight, paid, agreed>>
--------------------------------------------------------------------------------
(* Run objects and the phase machine. *)

Phase == {"idle", "quoting", "awaiting_signature", "verifying", "settling",
          "settled", "aborted", "error"}
Terminal == {"settled", "aborted", "error"}

ALLOWED_TRANSITIONS ==
    [idle |-> {"quoting", "error"},
     quoting |-> {"awaiting_signature", "aborted", "error"},
     awaiting_signature |-> {"verifying", "aborted", "error"},
     verifying |-> {"settling", "awaiting_signature", "aborted", "error"},
     settling |-> {"settled", "aborted", "error"},
     settled |-> {}, aborted |-> {}, error |-> {}]

\* createRun's literal.  "idle" stands for an id not handed out yet.
NewRun(phase, externals) ==
    [phase |-> phase, tiers |-> OpeningTiers, spent |-> 0, rounds |-> 0,
     verdicts |-> NoVerdicts, externals |-> externals, built |-> NoGroup,
     signed |-> NoGroup, locked |-> FALSE, hasTxId |-> FALSE]

\* transition() throws on a move the table does not list: the step is not taken.
CanMove(r, next) == next \in ALLOWED_TRANSITIONS[runs[r].phase]

AbortedRun(rec) == [rec EXCEPT !.phase = "aborted", !.signed = NoGroup]

\* Sets updatedAt: a run still in the store becomes its most recent one.
Touch(r) ==
    newer' = IF r \in store
             THEN [x \in Run |-> IF x \in store \ {r} THEN newer[x] \union {r} ELSE {}]
             ELSE newer

\* The new contents of a run object together with its new updatedAt.
Update(r, rec) == runs' = [runs EXCEPT ![r] = rec] /\ Touch(r) /\ UNCHANGED store

\* Slip: the number of verdicts is not compared with 3.
GateOpenUncounted(r) ==
    /\ \A c \in Check : runs[r].verdicts[c] # NoAnswer => Confirmed(runs[r].verdicts[c])
    /\ runs[r].signed # NoGroup /\ runs[r].built # NoGroup

\* The gate of the settle route, on the verdicts on file.
GateOpen(r) ==
    /\ AllConfirmed(runs[r].verdicts)
    /\ runs[r].signed # NoGroup /\ runs[r].built # NoGroup

\* The unsigned group for the current tiers, and where it will be paid.
GroupFor(r, tiers) == [builtFor |-> r, tiers |-> tiers, externals |-> runs[r].externals]

\* Everyone whose agreement a run needs.
Party(r) == Check \union runs[r].externals
--------------------------------------------------------------------------------
(* Requests. *)

IdleCall == [at |-> "idle", run |-> NoRun, tiers |-> OpeningTiers, signed |-> NoGroup]

Await == {"quoting", "building", "verifying", "escalating", "settling"}

Suspend(h, at, r, tiers, signed) ==
    calls' = [calls EXCEPT ![h] = [at |-> at, run |-> r, tiers |-> tiers, signed |-> signed]]

\* Slip: the handler answers but does not return.
FinishNoReturn(h) == calls' = [calls EXCEPT ![h].run = NoRun]

Finish(h) == calls' = [calls EXCEPT ![h] = IdleCall]

BusyRuns == {calls[h].run : h \in {x \in Handler : calls[x].at # "idle"}}

Init ==
    /\ runs = [r \in Run |-> NewRun("idle", {})]
    /\ store = {} /\ newer = [r \in Run |-> {}]
    /\ calls = [h \in Handler |-> IdleCall]
    /\ registry = {} /\ offered = {}
    /\ sent = {} /\ inFlight = {} /\ paid = {} /\ agreed = {}
--------------------------------------------------------------------------------
(* POST /quote *)

\* Runs untouched for RUN_TTL_MS, oldest first.  A request is over long before
\* the TTL, so a run some request is working on has not expired.
Expirable ==
    {S \in SUBSET (store \ BusyRuns) :
        \A x \in S, y \in store : x \in newer[y] => y \in S}

\* Slip: the excess over MAX_RUNS is not removed.
KeptUncapped(expired) == store \ expired

\* evictStale: what is left of the store when the runs in expired are dropped
\* and then the oldest ones beyond MAX_RUNS.
Kept(expired) ==
    LET live == store \ expired
    IN  {x \in live : Cardinality(newer[x] \cap live) < MaxRuns}

\* createRun evicts, inserts the new run, and the route snapshots the registry
\* before it waits for the three quotes.
QuoteStart(h, r) ==
    /\ calls[h].at = "idle" /\ runs[r].phase = "idle"
    /\ \E expired \in Expirable :
        LET kept == Kept(expired)
        IN  /\ store' = kept \union {r}
            /\ newer' = [x \in Run |-> IF x \in kept THEN (newer[x] \cap kept) \union {r}
                                       ELSE {}]
    /\ runs' = [runs EXCEPT ![r] = NewRun("quoting", registry)]
    /\ Suspend(h, "quoting", r, OpeningTiers, NoGroup)
    /\ UNCHANGED <<registry, offered, agreed, chainVars>>

\* A service did not quote: the handler throws and the run stays as it is.
QuotesFail(h) ==
    /\ calls[h].at = "quoting"
    /\ Finish(h)
    /\ UNCHANGED <<storeVars, registry, offered, agreed, chainVars>>

\* The quotes are in: the opening round is charged to the ledger and the group
\* is being built at the opening tiers.
QuotesArrive(h) ==
    LET r == calls[h].run IN
    /\ calls[h].at = "quoting"
    /\ runs' = [runs EXCEPT ![r].tiers = OpeningTiers,
                            ![r].spent = @ + FeesOf(OpeningTiers),
                            ![r].rounds = @ + 1]
    /\ Suspend(h, "building", r, OpeningTiers, NoGroup)
    /\ UNCHANGED <<store, newer, registry, offered, agreed, chainVars>>

\* The buyer's balance, the opt-in or the node's parameters could not be had:
\* rebuildGroup throws out of the handler, whether it was called by quote or by
\* an escalating verify.  Nothing is undone.
BuildFails(h) ==
    /\ calls[h].at \in {"building", "escalating"}
    /\ Finish(h)
    /\ UNCHANGED <<storeVars, registry, offered, agreed, chainVars>>

\* The group is built, by either route: it is stored unsigned, any signature on
\* file is dropped, and the buyer is asked to sign it.
GroupBuilt(h) ==
    LET r == calls[h].run
        g == GroupFor(r, calls[h].tiers)
    IN
    /\ calls[h].at \in {"building", "escalating"}
    /\ CanMove(r, "awaiting_signature")
    /\ Update(r, [runs[r] EXCEPT !.built = g, !.signed = NoGroup,
                                 !.phase = "awaiting_signature"])
    /\ offered' = offered \union {g}
    /\ Finish(h)
    /\ UNCHANGED <<registry, agreed, chainVars>>
--------------------------------------------------------------------------------
(* POST /:runId/verify *)

GroupSize(g) == 4 + Cardinality(g.externals) + 1

\* validateSignedGroup: as many transactions as the run's group has.  Whose group it
\* is and what it pays is not looked at.
ValidateSignedGroup(r, g) == GroupSize(g) = GroupSize(runs[r].built)

\* Slip: the run becomes verifying only when the fan-out is back.
VerifyStartLate(h, r, g) ==
    /\ calls[h].at = "idle" /\ r \in store
    /\ runs[r].phase = "awaiting_signature" /\ ValidateSignedGroup(r, g)
    /\ Update(r, [runs[r] EXCEPT !.signed = g])
    /\ Suspend(h, "verifying", r, runs[r].tiers, g)
    /\ UNCHANGED <<registry, offered, agreed, chainVars>>

\* The body carries any signed group of the right size: the one on offer, one of
\* an earlier round or of another run, or one the client put together.
VerifyStart(h, r, g) ==
    /\ calls[h].at = "idle" /\ r \in store
    /\ runs[r].phase = "awaiting_signature" /\ CanMove(r, "verifying")
    /\ ValidateSignedGroup(r, g)
    /\ Update(r, [runs[r] EXCEPT !.signed = g, !.phase = "verifying"])
    /\ Suspend(h, "verifying", r, runs[r].tiers, g)
    /\ UNCHANGED <<registry, offered, agreed, chainVars>>

\* Slip: the deep answer is given for any payment.
ReplyDeepUnpaid(c, g, tiers) ==
    {NoAnswer} \union
        IF tiers[c] = "deep" \/ g.tiers[c] = tiers[c] THEN Answers[c][tiers[c]] ELSE {}

\* What the fan-out can bring back for a signed group presented at these tiers.
\* A service answers only when the facilitator finds its tier's fee in the
\* group; it may always fail to answer.
Reply(c, g, tiers) ==
    {NoAnswer} \union IF g.tiers[c] = tiers[c] THEN Answers[c][tiers[c]] ELSE {}

VerdictsFor(g, tiers) ==
    {v \in [Check -> UNION {Reply(c, g, tiers) : c \in Check}] :
        \A c \in Check : v[c] \in Reply(c, g, tiers)}

\* The fan-out of request h has returned the verdicts v, and the external
\* services in accepted answered 200.
VerifyReturns(h, v, accepted) ==
    LET r == calls[h].run
        g == calls[h].signed
    IN
    /\ calls[h].at = "verifying"
    /\ v \in VerdictsFor(g, calls[h].tiers)
    /\ agreed' = agreed \union {<<r, g, c>> : c \in {x \in Check : Confirmed(v[x])}}
                        \union {<<r, g, e>> : e \in accepted}
    /\ UNCHANGED <<registry, offered, chainVars>>

\* Some registered service refused: the run is aborted.
ExternalRefuses(h, v, accepted) ==
    LET r == calls[h].run IN
    /\ VerifyReturns(h, v, accepted)
    /\ accepted # runs[r].externals
    /\ CanMove(r, "aborted")
    /\ Update(r, AbortedRun([runs[r] EXCEPT !.verdicts = v]))
    /\ Finish(h)

\* Every check confirmed: the client is told it may settle.
AllConfirm(h, v) ==
    LET r == calls[h].run IN
    /\ VerifyReturns(h, v, runs[r].externals)
    /\ AllConfirmed(v)
    /\ runs' = [runs EXCEPT ![r].verdicts = v]
    /\ Finish(h)
    /\ UNCHANGED <<store, newer>>

MayEscalate(r, v) == runs[r].rounds < MaxRounds /\ PlanExists(v, runs[r].spent)

\* Some answer is worth deepening: tiers and ledger advance at once, and the
\* group for the new tiers is being built.
Escalate(h, v) ==
    LET r == calls[h].run
        tiers == PlannedTiers(v, runs[r].spent, runs[r].tiers)
    IN
    /\ VerifyReturns(h, v, runs[r].externals)
    /\ ~AllConfirmed(v) /\ MayEscalate(r, v)
    /\ runs' = [runs EXCEPT ![r].verdicts = v, ![r].tiers = tiers,
                            ![r].spent = SpentAfterPlan(v, @),
                            ![r].rounds = @ + 1]
    /\ Suspend(h, "escalating", r, tiers, NoGroup)
    /\ UNCHANGED <<store, newer>>

\* Nothing left to buy: the run is aborted.
GiveUp(h, v) ==
    LET r == calls[h].run IN
    /\ VerifyReturns(h, v, runs[r].externals)
    /\ ~AllConfirmed(v) /\ ~MayEscalate(r, v)
    /\ CanMove(r, "aborted")
    /\ Update(r, AbortedRun([runs[r] EXCEPT !.verdicts = v]))
    /\ Finish(h)

VerifyStep(h) ==
    /\ calls[h].at = "verifying"
    /\ \E v \in VerdictsFor(calls[h].signed, calls[h].tiers) :
        \/ \E accepted \in SUBSET runs[calls[h].run].externals : ExternalRefuses(h, v, accepted)
        \/ AllConfirm(h, v)
        \/ Escalate(h, v)
        \/ GiveUp(h, v)
--------------------------------------------------------------------------------
(* POST /:runId/settle *)

\* Whether the run has been submitted before.
NextNo(r) == IF \E m \in sent : m.run = r THEN 2 ELSE 1

\* What settleGroup submits for the run.
SubmissionOf(r) == [run |-> r, group |-> runs[r].signed, no |-> NextNo(r)]

\* Slip: lock and transition only after the facilitator's answer.
SettleStartUnlocked(h, r) ==
    LET m == SubmissionOf(r) IN
    /\ calls[h].at = "idle" /\ r \in store
    /\ runs[r].phase = "verifying" /\ GateOpen(r) /\ ~runs[r].locked
    /\ sent' = sent \union {m} /\ inFlight' = inFlight \union {m}
    /\ Suspend(h, "settling", r, runs[r].tiers, runs[r].signed)
    /\ UNCHANGED <<storeVars, registry, offered, agreed, paid>>

\* Slip: a run the client still names is settled although it was evicted.
SettleStartForgotten(h, r) ==
    LET m == SubmissionOf(r) IN
    /\ calls[h].at = "idle"
    /\ runs[r].phase = "verifying" /\ GateOpen(r)
    /\ ~runs[r].locked /\ CanMove(r, "settling")
    /\ Update(r, [runs[r] EXCEPT !.locked = TRUE, !.phase = "settling"])
    /\ sent' = sent \union {m} /\ inFlight' = inFlight \union {m}
    /\ Suspend(h, "settling", r, runs[r].tiers, runs[r].signed)
    /\ UNCHANGED <<registry, offered, agreed, paid>>

\* The gate, the lock and the transition, then the only call that spends money.
SettleStart(h, r) ==
    LET m == SubmissionOf(r) IN
    /\ calls[h].at = "idle" /\ r \in store
    /\ runs[r].phase = "verifying" /\ GateOpen(r)
    /\ ~runs[r].locked /\ CanMove(r, "settling")
    /\ Update(r, [runs[r] EXCEPT !.locked = TRUE, !.phase = "settling"])
    /\ sent' = sent \union {m} /\ inFlight' = inFlight \union {m}
    /\ Suspend(h, "settling", r, runs[r].tiers, runs[r].signed)
    /\ UNCHANGED <<registry, offered, agreed, paid>>

\* The facilitator's answer arrives in time and carries a transaction id.
SettleSucceeds(h) ==
    LET r == calls[h].run IN
    /\ calls[h].at = "settling" /\ \E m \in paid : m.run = r
    /\ CanMove(r, "settled")
    /\ Update(r, [runs[r] EXCEPT !.hasTxId = TRUE, !.phase = "settled"])
    /\ Finish(h)
    /\ UNCHANGED <<registry, offered, agreed, chainVars>>

\* Slip: the facilitator call has no timeout.
SettleFailsDecided(h) ==
    LET r == calls[h].run IN
    /\ calls[h].at = "settling"
    /\ \A m \in inFlight : m.run # r
    /\ CanMove(r, "aborted")
    /\ Update(r, AbortedRun(runs[r]))
    /\ Finish(h)
    /\ UNCHANGED <<registry, offered, agreed, chainVars>>

\* Timed out, unreachable, rejected, or a success without a transaction id.  The
\* losing call is not cancelled, so what becomes of the group stays open.
SettleFails(h) ==
    LET r == calls[h].run IN
    /\ calls[h].at = "settling"
    /\ CanMove(r, "aborted")
    /\ Update(r, AbortedRun(runs[r]))
    /\ Finish(h)
    /\ UNCHANGED <<registry, offered, agreed, chainVars>>
--------------------------------------------------------------------------------
(* GET /:runId *)

\* What a client can read of a run: never its signed group, and whether it was
\* aborted is said as "nothing settled".
GetRun(r) ==
    [phase |-> runs[r].phase, tiers |-> runs[r].tiers, spent |-> runs[r].spent,
     verdicts |-> runs[r].verdicts, hasTxId |-> runs[r].hasTxId,
     nothingSettled |-> runs[r].phase = "aborted"]
--------------------------------------------------------------------------------
(* The environment. *)

\* The facilitator broadcasts the group and the chain commits all of it.  Algorand
\* rejects a group it has; two that clients put together need not be the same one,
\* though they look alike here.
FacilitatorSettles(m) ==
    /\ m \in inFlight
    /\ \A n \in paid : n.group = m.group => m.group.builtFor = NoRun
    /\ inFlight' = inFlight \ {m} /\ paid' = paid \union {m}
    /\ UNCHANGED <<storeVars, calls, registry, offered, sent, agreed>>

\* The submission is lost, rejected, or outlives the validity window.
FacilitatorDrops(m) ==
    /\ m \in inFlight
    /\ inFlight' = inFlight \ {m}
    /\ UNCHANGED <<storeVars, calls, registry, offered, sent, paid, agreed>>

Register(e) ==
    /\ e \notin registry
    /\ registry' = registry \union {e}
    /\ UNCHANGED <<storeVars, calls, offered, agreed, chainVars>>

Deregister(e) ==
    /\ e \in registry
    /\ registry' = registry \ {e}
    /\ UNCHANGED <<storeVars, calls, offered, agreed, chainVars>>

\* The process is restarted: everything it held in memory is gone.
Restart ==
    /\ store' = {} /\ newer' = [r \in Run |-> {}]
    /\ calls' = [h \in Handler |-> IdleCall]
    /\ registry' = {}
    /\ UNCHANGED <<runs, offered, agreed, chainVars>>
--------------------------------------------------------------------------------
\* A suspended request goes on, one way or another.
Resume(h) ==
    \/ QuotesFail(h) \/ QuotesArrive(h) \/ BuildFails(h) \/ GroupBuilt(h)
    \/ VerifyStep(h) \/ SettleSucceeds(h) \/ SettleFails(h)

\* The signed groups a client can send.
Presentable == offered \union ClientGroups

Request(h) ==
    \E r \in Run : \/ QuoteStart(h, r)
                   \/ \E g \in Presentable : VerifyStart(h, r, g)
                   \/ SettleStart(h, r)

Environment ==
    \/ \E m \in inFlight : FacilitatorSettles(m) \/ FacilitatorDrops(m)
    \/ \E e \in External : Register(e) \/ Deregister(e)
    \/ Restart

Next == (\E h \in Handler : Resume(h) \/ Request(h)) \/ Environment

Spec == Init /\ [][Next]_vars

\* Every await ends, by an answer, a failure or a timeout (QUOTE, VERIFY, SETTLE
\* and the probes' AbortControllers): a suspended request is resumed.
FairSpec == Spec /\ \A h \in Handler : WF_vars(Resume(h))

\* A client that plays along, as the web hook's loop does: it signs what is on
\* offer and settles when told it may.
CooperativeSpec ==
    /\ FairSpec
    /\ \A r \in Run :
        /\ WF_vars(\E h \in Handler : VerifyStart(h, r, runs[r].built))
        /\ WF_vars(\E h \in Handler : SettleStart(h, r))
--------------------------------------------------------------------------------
(* Safety. *)

RunRecord ==
    [phase : Phase, tiers : [Check -> Tier], spent : Nat, rounds : Nat, verdicts : Verdicts,
     externals : SUBSET External, built : Group \union {NoGroup},
     signed : Group \union {NoGroup}, locked : BOOLEAN, hasTxId : BOOLEAN]

Call ==
    [at : Await \union {"idle"}, run : Run \union {NoRun}, tiers : [Check -> Tier],
     signed : Group \union {NoGroup}]

\* Every variable of the orchestrator and its environment has its type, and a
\* request suspended at an await is one on behalf of some run.
TypeOK ==
    /\ runs \in [Run -> RunRecord]
    /\ store \subseteq Run /\ newer \in [Run -> SUBSET Run]
    /\ calls \in [Handler -> Call]
    /\ \A h \in Handler :
        /\ calls[h].at # "idle" => calls[h].run \in Run
        /\ calls[h].at = "verifying" => calls[h].signed \in Group
    /\ registry \subseteq External /\ offered \subseteq Group
    /\ sent \subseteq Submission /\ inFlight \subseteq sent /\ paid \subseteq sent
    /\ agreed \subseteq Run \X Group \X (Check \union External)

\* Money moves only by consent: a run hands a group to the facilitator only when
\* all three checks confirmed, and every external service it snapshotted accepted,
\* that very group at the run's request (settler.ts: "reachable only when every
\* check returned an explicit pass"), whoever the group was built for.
UnanimousBeforeSubmission ==
    \A m \in sent : \A p \in Party(m.run) : <<m.run, m.group, p>> \in agreed

\* However settle requests race, a run makes at most one submission (runStore.ts,
\* claimSettleLock).
SubmittedOnce ==
    \A m, n \in sent : m.run = n.run => m = n

\* Whatever group the client brought to the verify route, the one submitted pays
\* each check for the tier the run ended on, and so does the one built last, with
\* as many transactions: a signature made for an earlier, cheaper round never
\* passes the gate.  It need not be the group built for the run.
SubmittedPaysTheRound ==
    \A m \in sent : LET rec == runs[m.run] IN
        /\ m.group.tiers = rec.tiers /\ rec.built.tiers = rec.tiers
        /\ GroupSize(m.group) = GroupSize(rec.built)

\* The phase a request left its run in when it was suspended.
PhaseAt == [quoting |-> "quoting", building |-> "quoting", verifying |-> "verifying",
            escalating |-> "verifying", settling |-> "settling"]

\* Nothing moves a run under a suspended request: when it resumes, the phase is
\* the one it left, so no transition() it makes is refused half-way through its
\* writes, and no two requests work on the same run.
RequestOwnsItsRun ==
    \A h \in Handler : calls[h].at # "idle" =>
        /\ runs[calls[h].run].phase = PhaseAt[calls[h].at]
        /\ \A i \in Handler \ {h} : calls[i].run # calls[h].run

\* The ledger pays for the group and the reserve is never touched: what a run's
\* current group owes the checks is at most what the ledger recorded, and that
\* leaves the reserve, however the rounds went.
LedgerWithinBudget ==
    \A r \in Run :
        /\ runs[r].spent <= Budget - Reserve
        /\ runs[r].rounds > 0 => FeesOf(runs[r].tiers) <= runs[r].spent

\* With this ladder, budget and round limit a run reaches settlement in one
\* way: it used every round, bought the deep verification and no other deep
\* answer.  A deep purchase for another check starves verification.  openingPlan
\* says otherwise: "for most runs the shallow answers are sufficient".
OnlyVerificationGoesDeep ==
    \A m \in sent :
        /\ runs[m.run].rounds = MaxRounds
        /\ m.group.tiers["verification"] = "deep"
        /\ \A c \in Check \ {"verification"} : m.group.tiers[c] # "deep"

\* A run that was settled or aborted is never written again: no late answer
\* changes its verdicts, tiers, ledger or transaction id.
FinishedRunsAreFinal ==
    [][\A r \in Run : runs[r].phase \in Terminal => runs'[r] = runs[r]]_vars

\* The store keeps within one run of MAX_RUNS (createRun evicts before it inserts)
\* by forgetting runs, and what it has forgotten stays forgotten, although a request
\* may still hold the object and write to it: the run is not stored again, it submits
\* nothing any more, and no request takes it up.  (A group signed for it is no part of
\* the record: a client may bring it to another run.)
ForgottenStaysForgotten ==
    [][/\ Cardinality(store') <= MaxRuns + 1
       /\ \A r \in Run : runs[r].phase # "idle" /\ r \notin store =>
            /\ r \notin store'
            /\ \A m \in sent' \ sent : m.run # r
            /\ \A h \in Handler : calls'[h].run = r => calls[h].run = r]_vars
--------------------------------------------------------------------------------
(* Liveness. *)

\* The rebuild of an escalating verify failed: the run has the tiers of a round
\* whose group was never built, and nobody is working on it.
Stranded(r) ==
    /\ runs[r].phase = "verifying" /\ r \notin BusyRuns
    /\ runs[r].tiers # runs[r].built.tiers

\* With a client that plays along, a run that asks for a signature is settled or
\* aborted: the escalation loop ends.  It is not when its record is forgotten or
\* the rebuild of an escalation fails.
RunEnds ==
    \A r \in Run : runs[r].phase = "awaiting_signature" ~>
        (runs[r].phase \in Terminal \/ r \notin store \/ Stranded(r))
--------------------------------------------------------------------------------
(* What a run promises, seen as an atomic purchase. *)

Settlement ==
    INSTANCE AtomicSettlement WITH
        Purchase <- Run, Everyone <- Check \union External,
        parties <- [r \in Run |-> Party(r)]

\* The orchestrator implements the abstract settlement: unanimity before the one
\* submission of a purchase, and nothing paid that was not submitted.
SettlementSpec == Settlement!Spec
================================================================================
