--------------------------------- MODULE WebRun ---------------------------------
(***************************************************************************)
(* The web client: the loop that drives a run (useSourcingRun), the store  *)
(* the page reads (useRunStore), and the page, which changes its screen    *)
(* only when the old one has faded out.                                    *)
(*                                                                         *)
(* Nothing cancels a loop once it is started and nothing in the store      *)
(* refuses a transition, so a second press on the button of a form that is *)
(* fading out starts a second loop on the same store.  The orchestrator is *)
(* seen from outside: what a request can do to the run and what it can     *)
(* answer.  Its answer may be late, lost, or never come.                   *)
(***************************************************************************)
EXTENDS Integers

CONSTANTS
    Loop,           \* calls of start(), each used once; each has at most one run
    OrchestratorRounds,  \* the orchestrator's MAX_ROUNDS
    VerdictCounts,  \* how many of the three checks may answer where a round follows
    None

\* The hook's own ceiling.
MAX_ROUNDS == 4

ASSUME WebAssumption ==
    OrchestratorRounds \in 1 .. MAX_ROUNDS /\ VerdictCounts \subseteq 1 .. 3 /\ None \notin Loop

VARIABLES
    ui,        \* the store
    screen,    \* what the page still shows
    loop,      \* where each loop is, its round, and the group it holds (`pending`)
    request,   \* its last request, and the answer if there is one
    run,       \* the orchestrator's run of each loop; groups are numbered by round, and
               \* `decisions` is how many its ledger holds when it has n rounds
    paid,      \* runs whose group is on chain
    doubled    \* history: a loop was started beside another one

vars == <<ui, screen, loop, request, run, paid, doubled>>
--------------------------------------------------------------------------------
(* The store. *)

\* Verdicts, tiers and ledgers stand for the run and the round they are of.
Nothing == [of |-> None, round |-> 0]
From(l, round) == IF round = 0 THEN Nothing ELSE [of |-> l, round |-> round]

initial == [phase |-> "idle", run |-> None, round |-> 0, tx |-> None, error |-> "none",
            verdicts |-> Nothing, tiers |-> Nothing, ledger |-> Nothing]

Phase == {"idle", "quoting", "awaiting_signature", "signing", "verifying", "escalating",
          "settling", "settled", "aborted", "error"}

beginQuote == ui' = [initial EXCEPT !.phase = "quoting"]

\* The tiers are those of the new round already, the verdicts those that led to it.
applySignatureRequest(l, group) ==
    [ui EXCEPT !.phase = "awaiting_signature", !.run = l, !.round = group,
               !.tiers = From(l, group), !.ledger = From(l, group),
               !.verdicts = From(l, group - 1)]

begin(phase) == ui' = [ui EXCEPT !.phase = phase]

\* The verdicts of a last round, and the settlement that follows.
applyVerdicts(l, round) ==
    ui' = [ui EXCEPT !.phase = "settling", !.verdicts = From(l, round), !.ledger = From(l, round)]

applyAbort(l, round) ==
    ui' = [ui EXCEPT !.phase = "aborted", !.verdicts = From(l, round), !.ledger = From(l, round)]

\* Slip: the transaction of an earlier run is kept.
applySettlementKeepingTx(l, round) == ui' = [ui EXCEPT !.phase = "settled"]

applySettlement(l, round) ==
    ui' = [ui EXCEPT !.phase = "settled", !.tx = l, !.verdicts = From(l, round),
                     !.tiers = From(l, round), !.ledger = From(l, round)]

fail(store, what) == ui' = [store EXCEPT !.phase = "error", !.error = what]

isTerminal(phase) == phase \in {"settled", "aborted", "error"}

isBusy(phase) == phase \in {"quoting", "signing", "verifying", "escalating", "settling"}
--------------------------------------------------------------------------------
(* The loop. *)

Answer == {"none", "error", "group", "abort", "ready", "settled"}

\* post(): one request, no retry.
Post(l, kind, group) ==
    request' = [request EXCEPT ![l] = [kind |-> kind, group |-> group, answer |-> "none"]]

GoTo(l, at) == loop' = [loop EXCEPT ![l].at = at]

newLedger == [n \in 0 .. OrchestratorRounds |-> 0]

Running(l) == loop[l].at \notin {"unused", "done"}

Init ==
    /\ ui = initial /\ screen = "form"
    /\ loop = [l \in Loop |-> [at |-> "unused", round |-> 0, group |-> 0]]
    /\ request = [l \in Loop |-> [kind |-> "none", group |-> 0, answer |-> "none"]]
    /\ run = [l \in Loop |-> [phase |-> "none", round |-> 0, ready |-> FALSE, decisions |-> newLedger]]
    /\ paid = {} /\ doubled = FALSE

\* The form's button, on whatever the page still shows.
Start(l) ==
    /\ screen = "form" /\ loop[l].at = "unused"
    /\ beginQuote
    /\ Post(l, "quote", 0) /\ GoTo(l, "quoting")
    /\ doubled' = (doubled \/ \E m \in Loop : Running(m))
    /\ UNCHANGED <<screen, run, paid>>

\* The loop takes up the group it was sent.
TakeUp(l, round) ==
    loop' = [loop EXCEPT ![l] = [at |-> "pausing", round |-> round, group |-> request[l].group]]

QuoteArrives(l) ==
    /\ loop[l].at = "quoting" /\ request[l].answer = "group"
    /\ ui' = applySignatureRequest(l, request[l].group)
    /\ TakeUp(l, 1)
    /\ UNCHANGED <<screen, request, run, paid, doubled>>

\* The user has had time to read the totals.
PauseEnds(l) ==
    /\ loop[l].at = "pausing"
    /\ begin("signing") /\ GoTo(l, "signing")
    /\ UNCHANGED <<screen, request, run, paid, doubled>>

WalletSigns(l) ==
    /\ loop[l].at = "signing"
    /\ begin("verifying")
    /\ Post(l, "verify", loop[l].group) /\ GoTo(l, "verifying")
    /\ UNCHANGED <<screen, run, paid, doubled>>

\* Rejected, closed, or not as many transactions as were sent.
WalletDeclines(l) ==
    /\ loop[l].at = "signing"
    /\ fail(ui, "declined") /\ GoTo(l, "done")
    /\ UNCHANGED <<screen, request, run, paid, doubled>>

\* isAbort: a pause, then the aborted screen.
AbortArrives(l) ==
    /\ loop[l].at = "verifying" /\ request[l].answer = "abort"
    /\ GoTo(l, "aborting")
    /\ UNCHANGED <<ui, screen, request, run, paid, doubled>>

ShowAbort(l) ==
    /\ loop[l].at = "aborting"
    /\ applyAbort(l, request[l].group) /\ GoTo(l, "done")
    /\ UNCHANGED <<screen, request, run, paid, doubled>>

\* needsSignature: a pause, then the next round with the group that came.
EscalationArrives(l) ==
    /\ loop[l].at = "verifying" /\ request[l].answer = "group"
    /\ begin("escalating") /\ GoTo(l, "escalating")
    /\ UNCHANGED <<screen, request, run, paid, doubled>>

\* Slip: `pending` still names the group of the round before.
NextRoundOldGroup(l) ==
    /\ loop[l].at = "escalating"
    /\ ui' = applySignatureRequest(l, request[l].group)
    /\ loop' = [loop EXCEPT ![l].at = "pausing", ![l].round = @ + 1]
    /\ UNCHANGED <<screen, request, run, paid, doubled>>

NextRound(l) ==
    /\ loop[l].at = "escalating"
    /\ IF loop[l].round < MAX_ROUNDS
       THEN ui' = applySignatureRequest(l, request[l].group) /\ TakeUp(l, loop[l].round + 1)
       ELSE fail(applySignatureRequest(l, request[l].group), "exhausted") /\ GoTo(l, "done")
    /\ UNCHANGED <<screen, request, run, paid, doubled>>

\* Slip: whatever does not ask for a signature is ready to settle.
ReadyUnlessSigning(answer) == answer \in {"ready", "abort"}

readyToSettle(answer) == answer = "ready"

ReadyArrives(l) ==
    /\ loop[l].at = "verifying" /\ readyToSettle(request[l].answer)
    /\ applyVerdicts(l, request[l].group)
    /\ Post(l, "settle", loop[l].group) /\ GoTo(l, "settling")
    /\ UNCHANGED <<screen, run, paid, doubled>>

\* The binding animation is given MINIMUM_SETTLE_MS.
SettleArrives(l) ==
    /\ loop[l].at = "settling" /\ request[l].answer = "settled"
    /\ GoTo(l, "holding")
    /\ UNCHANGED <<ui, screen, request, run, paid, doubled>>

ShowSettled(l) ==
    /\ loop[l].at = "holding"
    /\ applySettlement(l, request[l].group) /\ GoTo(l, "done")
    /\ UNCHANGED <<screen, request, run, paid, doubled>>

\* Slip: no timer, only an answer ends the wait.
CallFailsOnError(l) ==
    /\ loop[l].at \in {"quoting", "verifying", "settling"}
    /\ request[l].answer = "error"
    /\ fail(ui, "call") /\ GoTo(l, "done")
    /\ UNCHANGED <<screen, request, run, paid, doubled>>

\* An error, no connection, or the hard ceiling: whatever became of the request,
\* the loop ends.
CallFails(l) ==
    /\ loop[l].at \in {"quoting", "verifying", "settling"}
    /\ fail(ui, "call") /\ GoTo(l, "done")
    /\ UNCHANGED <<screen, request, run, paid, doubled>>
--------------------------------------------------------------------------------
(* The page. *)

screenOf(phase) ==
    CASE phase = "idle" -> "form"
      [] isTerminal(phase) -> phase
      [] isBusy(phase) \/ phase = "awaiting_signature" -> "running"

\* A verdict stays on its card through the rounds that follow.
checkStatus(phase, verdict) ==
    CASE verdict # Nothing -> "answered"
      [] verdict = Nothing /\ phase = "verifying" -> "verifying"
      [] verdict = Nothing /\ phase \in {"idle", "quoting"} -> "idle"
      [] OTHER -> "quoted"

\* The card of a check that answers: its tier is the last one ordered, its certainty
\* that of the last answer.
CheckCard == [status |-> checkStatus(ui.phase, ui.verdicts), tier |-> ui.tiers, answer |-> ui.verdicts]

\* What the page says of money: over the cards, under the animation, and in the end.
PhaseHeading(phase) ==
    CASE phase = "verifying" -> "no money moved yet"
      [] phase = "settling" -> "one submission, all or nothing"
      [] OTHER -> "in preparation"

\* The animation gets 'verifying' for 'escalating'.  A lane belongs to a check.
TheBinding(phase, verdict) ==
    CASE phase \in {"settling", "settled"} -> [lane |-> "binding", caption |-> "binding"]
      [] phase = "aborted" -> [lane |-> "halt", caption |-> "never submitted"]
      [] OTHER -> [lane |-> IF verdict # Nothing THEN "answered"
                            ELSE IF phase = "idle" THEN "idle" ELSE "pending",
                   caption |-> IF phase \in {"verifying", "escalating"} THEN "no money moved"
                               ELSE IF phase = "idle" THEN "awaiting request" ELSE "unbound"]

\* How many decisions the ledger on display holds, and how many of them are older
\* than the round it is of.
Listed == IF ui.ledger = Nothing THEN 0 ELSE run[ui.ledger.of].decisions[ui.ledger.round]
Older == IF ui.ledger = Nothing THEN 0 ELSE run[ui.ledger.of].decisions[ui.ledger.round - 1]

\* The panel beside a run: all its decisions, from 0.  Which round one is of is told
\* from its index, "in rounds of three"; those of the present round are highlighted.

\* Slip: the decisions are counted from 1.
RoundOfFromOne(index) == (index + 1) \div 3 + 1

RoundOf(index) == index \div 3 + 1

SpendLedger ==
    [ledger |-> ui.ledger, highlighted |-> {index \in 0 .. Listed - 1 : RoundOf(index) = ui.round}]

Settled == [says |-> "settled", tx |-> ui.tx, answer |-> ui.verdicts, spend |-> ui.ledger]

Aborted == [says |-> "nothing was paid", tx |-> None, answer |-> ui.verdicts, spend |-> ui.ledger]

Failed == [says |-> ui.error, tx |-> None, answer |-> Nothing, spend |-> Nothing]

Outcome == CASE screen = "settled" -> Settled [] screen = "aborted" -> Aborted [] OTHER -> Failed

\* The old screen has faded out and the one for the present phase comes in.
ScreenFollows ==
    /\ screen # screenOf(ui.phase)
    /\ screen' = screenOf(ui.phase)
    /\ UNCHANGED <<ui, loop, request, run, paid, doubled>>

\* "New run" or "Try again", on whatever the page still shows.
Reset ==
    /\ isTerminal(screen) /\ ui # initial
    /\ ui' = initial
    /\ UNCHANGED <<screen, loop, request, run, paid, doubled>>

\* The page is loaded again: loops end where they are, requests go on.
Reload ==
    /\ \E l \in Loop : Running(l)
    /\ ui' = initial /\ screen' = "form"
    /\ loop' = [l \in Loop |-> IF Running(l) THEN [loop[l] EXCEPT !.at = "done"] ELSE loop[l]]
    /\ UNCHANGED <<request, run, paid, doubled>>
--------------------------------------------------------------------------------
(* The orchestrator, seen from the client. *)

\* The handler of l's request leaves the run as rec and answers.
Serve(l, kind, rec, answer) ==
    /\ request[l].kind = kind /\ request[l].answer = "none"
    /\ run' = [run EXCEPT ![l] = rec]
    /\ request' = [request EXCEPT ![l].answer = answer, ![l].group = rec.round]
    /\ UNCHANGED <<ui, screen, loop, doubled>>

\* openingPlan decides on each of the three checks.
ServeQuote(l) ==
    /\ \/ Serve(l, "quote", [phase |-> "awaiting_signature", round |-> 1, ready |-> FALSE,
                             decisions |-> [newLedger EXCEPT ![1] = 3]], "group")
       \/ Serve(l, "quote", [phase |-> "quoting", round |-> 0, ready |-> FALSE,
                             decisions |-> newLedger], "error")
    /\ UNCHANGED paid

\* Slip: one round too many.
MayEscalateOnceMore(l) == run[l].round <= OrchestratorRounds

MayEscalate(l) == run[l].round < OrchestratorRounds

\* The ledger of a run enters the next round with so many more decisions.
recordRound(l, new) ==
    [run[l] EXCEPT !.round = @ + 1,
                   !.decisions[run[l].round + 1] = run[l].decisions[run[l].round] + new]

\* Abort, a group for the next round or no group at all, or ready: this last only
\* for the group of the present round.  planEscalation decides on the checks that
\* answered, and on one at least.
ServeVerify(l) ==
    /\ run[l].phase = "awaiting_signature"
    /\ \/ Serve(l, "verify", [run[l] EXCEPT !.phase = "aborted"], "abort")
       \/ /\ request[l].group = run[l].round
          /\ Serve(l, "verify", [run[l] EXCEPT !.phase = "verifying", !.ready = TRUE], "ready")
       \/ /\ MayEscalate(l)
          /\ \E answers \in VerdictCounts : Serve(l, "verify", recordRound(l, answers), "group")
       \/ MayEscalate(l) /\ Serve(l, "verify", [run[l] EXCEPT !.phase = "verifying"], "error")
    /\ UNCHANGED paid

\* Settled, or aborted with the group on chain or not (the facilitator was late).  A
\* run that is not ready is refused; no loop asks for that (RequestsFollowTheRun).
ServeSettle(l) ==
    /\ run[l].phase = "verifying" /\ run[l].ready
    /\ \/ /\ Serve(l, "settle", [run[l] EXCEPT !.phase = "settled"], "settled")
          /\ paid' = paid \union {l}
       \/ /\ Serve(l, "settle", [run[l] EXCEPT !.phase = "aborted"], "error")
          /\ paid' \in {paid, paid \union {l}}
--------------------------------------------------------------------------------
Timers(l) ==
    PauseEnds(l) \/ ShowAbort(l) \/ NextRound(l) \/ ShowSettled(l) \/ CallFails(l)

Arrivals(l) ==
    \/ QuoteArrives(l) \/ AbortArrives(l) \/ EscalationArrives(l) \/ ReadyArrives(l)
    \/ SettleArrives(l)

Wallet(l) == WalletSigns(l) \/ WalletDeclines(l)

Next ==
    \/ \E l \in Loop : \/ Start(l) \/ Timers(l) \/ Arrivals(l) \/ Wallet(l)
                       \/ ServeQuote(l) \/ ServeVerify(l) \/ ServeSettle(l)
    \/ ScreenFollows \/ Reset \/ Reload

\* Timers run, and a buyer answers every prompt of the wallet.  Nothing is assumed
\* of the orchestrator.
Spec == Init /\ [][Next]_vars /\ \A l \in Loop : WF_vars(Timers(l)) /\ WF_vars(Wallet(l))
--------------------------------------------------------------------------------
\* Every variable has its type, and a loop at a prompt or a call is on a run the
\* orchestrator knows.
TypeOK ==
    /\ ui.phase \in Phase /\ ui.run \in Loop \union {None} /\ ui.tx \in Loop \union {None}
    /\ screen \in {"form", "running", "settled", "aborted", "error"}
    /\ \A l \in Loop :
        /\ loop[l].round \in 0 .. MAX_ROUNDS /\ loop[l].group \in 0 .. OrchestratorRounds
        /\ request[l].kind \in {"none", "quote", "verify", "settle"}
        /\ request[l].answer \in Answer
        /\ loop[l].at \in {"pausing", "signing", "verifying", "settling"} => run[l].round > 0
    /\ paid \subseteq Loop /\ doubled \in BOOLEAN

\* What the page says while one loop runs is true of its run: no money has moved as
\* long as it says so, an answer on a card was given in this round or led to it, the
\* panel's ledger is of the round on display and no decision of an earlier round is
\* highlighted in it (all of this round are, if no check was silent before; after a
\* silent one some are not), and the last screen is all of one round.
TruthOfOneRun ==
    LET binding == TheBinding(ui.phase, ui.verdicts) IN
    /\ screen = "running" =>
        /\ \/ PhaseHeading(ui.phase) = "no money moved yet"
           \/ binding.caption \in {"no money moved", "unbound"}
           => ui.run \notin paid
        /\ binding.lane = "answered" => CheckCard.status = "answered"
        /\ CheckCard.status = "answered" => CheckCard.answer =
              From(ui.run, IF ui.phase = "settling" THEN ui.round ELSE ui.round - 1)
        /\ SpendLedger.ledger # Nothing => SpendLedger.ledger = From(ui.run, ui.round)
        /\ SpendLedger.highlighted \subseteq Older .. Listed - 1
        /\ Listed = 3 * ui.round => SpendLedger.highlighted = Older .. Listed - 1
    /\ Outcome.says = "nothing was paid" => ui.run \notin paid
    /\ Outcome.says \in {"settled", "nothing was paid"} =>
          Outcome.answer = From(ui.run, ui.round) /\ Outcome.spend = Outcome.answer

\* The screens say what happened, however loops, resets and reloads overlap: the
\* transaction on the settled screen is of a run the orchestrator settled and the
\* chain has; the run of a loop that went on to the aborted screen was never paid
\* (Outcome.tsx: "No transaction exists on Algorand for this run"); and nobody is
\* told of an escalation limit, for the orchestrator's comes first.
ScreensTellTheTruth ==
    /\ ui.phase = "settled" => ui.tx \in paid /\ run[ui.tx].phase = "settled"
    /\ \A l \in Loop : loop[l].at = "aborting" => l \notin paid /\ run[l].phase = "aborted"
    /\ ui.error # "exhausted"
    /\ ~doubled /\ screen = screenOf(ui.phase) => TruthOfOneRun

\* As long as no second loop runs, the wallet is opened for the very group whose
\* totals are on display, in the round on display.
ShownIsSigned ==
    \A l \in Loop : loop[l].at = "signing" /\ ~doubled =>
        ui.phase = "signing" /\ ui.run = l /\ ui.round = loop[l].group

\* Responses move the loop in step with the run: a signed group is presented only
\* while the orchestrator waits for exactly that group, and settlement is asked
\* for only when it is ready, once.
RequestsFollowTheRun ==
    [][\A l \in Loop : request'[l].answer = "none" /\ request'[l] # request[l] =>
        CASE request'[l].kind = "quote" -> run[l].phase = "none"
          [] request'[l].kind = "verify" -> /\ run[l].phase = "awaiting_signature"
                                            /\ request'[l].group = run[l].round
          [] request'[l].kind = "settle" -> run[l].phase = "verifying" /\ run[l].ready]_vars

\* A loop that was started ends: by a screen, an error or the wallet's refusal,
\* whatever the orchestrator does.
LoopEnds == \A l \in Loop : Running(l) ~> loop[l].at = "done"
================================================================================
