------------------------------ MODULE WebRunProofs ------------------------------
(***************************************************************************)
(* What holds of the page for any number of loops: each loop is in step    *)
(* with its run, what a loop that runs alone shows is what it signs, and   *)
(* the screens tell what happened to the run and its money.                *)
(***************************************************************************)
EXTENDS WebRun, TLAPS

LoopAt == {"unused", "quoting", "pausing", "signing", "verifying", "aborting", "escalating",
           "settling", "holding", "done"}

Kind == {"none", "quote", "verify", "settle"}

RunPhase == {"none", "quoting", "awaiting_signature", "verifying", "aborted", "settled"}

\* A ledger has at most three decisions a round, and none of a round to come.
Decisions ==
    {held \in [0 .. OrchestratorRounds -> Nat] :
        /\ held[0] = 0
        /\ \A n \in 1 .. OrchestratorRounds : held[n] <= 3 * n /\ held[n] <= held[n - 1] + 3}

Run ==
    {rec \in [phase : RunPhase, round : 0 .. OrchestratorRounds, ready : BOOLEAN, decisions : Decisions] :
        \A n \in 0 .. OrchestratorRounds : n > rec.round => rec.decisions[n] = 0}

Part == [of : Loop \union {None}, round : Nat]

Store ==
    [phase : Phase, run : Loop \union {None}, round : Nat, tx : Loop \union {None},
     error : {"none", "declined", "call", "exhausted"},
     verdicts : Part, tiers : Part, ledger : Part]

\* The types, in full.
Types ==
    /\ ui \in Store
    /\ screen \in {"form", "running", "settled", "aborted", "error"}
    /\ loop \in [Loop -> [at : LoopAt, round : 0 .. MAX_ROUNDS, group : 0 .. OrchestratorRounds]]
    /\ request \in [Loop -> [kind : Kind, group : 0 .. OrchestratorRounds, answer : Answer]]
    /\ run \in [Loop -> Run]
    /\ paid \in SUBSET Loop /\ doubled \in BOOLEAN

\* The run waits for the signature of the group that was sent.
Offered(l) ==
    /\ run[l].phase = "awaiting_signature" /\ run[l].round > 0
    /\ request[l].group = run[l].round

\* Where a loop is tells what its run is waiting for.
InStep(l) ==
    /\ loop[l].at = "unused" => request[l].kind = "none" /\ run[l].phase = "none"
    /\ loop[l].at = "quoting" =>
        /\ request[l].kind = "quote"
        /\ request[l].answer = "none" => run[l].phase = "none"
        /\ request[l].answer = "group" => Offered(l)
    /\ loop[l].at \in {"pausing", "signing"} =>
        /\ request[l].answer # "none"
        /\ run[l].phase = "awaiting_signature" /\ run[l].round > 0
        /\ loop[l].group = run[l].round
    /\ loop[l].at = "verifying" =>
        /\ request[l].kind = "verify" /\ run[l].round > 0
        /\ request[l].answer \in {"none", "group"} => Offered(l)
        /\ request[l].answer = "ready" => run[l].phase = "verifying" /\ run[l].ready
    /\ loop[l].at = "escalating" => request[l].answer = "group" /\ Offered(l)
    /\ loop[l].at = "settling" => request[l].kind = "settle" /\ run[l].round > 0

StepInv == Types /\ \A l \in Loop : InStep(l)
--------------------------------------------------------------------------------
LEMMA StepInvInit == Init => StepInv
<1> SUFFICES ASSUME Init PROVE StepInv
  OBVIOUS
<1>1. ui \in Store
  BY DEF Init, initial, Nothing, Store, Part, Phase
<1>2. 0 \in 0 .. MAX_ROUNDS /\ 0 \in 0 .. OrchestratorRounds
  BY WebAssumption DEF MAX_ROUNDS
<1>3. loop \in [Loop -> [at : LoopAt, round : 0 .. MAX_ROUNDS, group : 0 .. OrchestratorRounds]]
  BY <1>2 DEF Init, LoopAt
<1>4. request \in [Loop -> [kind : Kind, group : 0 .. OrchestratorRounds, answer : Answer]]
  BY <1>2 DEF Init, Kind, Answer
<1>5. run \in [Loop -> Run]
  <2>1. newLedger \in Decisions /\ \A n \in 0 .. OrchestratorRounds : newLedger[n] = 0
    BY WebAssumption DEF Decisions, newLedger
  <2>2. [phase |-> "none", round |-> 0, ready |-> FALSE, decisions |-> newLedger] \in Run
    BY <1>2, <2>1 DEF Run, RunPhase
  <2>3. QED BY <2>2 DEF Init
<1>6. Types
  BY <1>1, <1>3, <1>4, <1>5 DEF Init, Types
<1>7. QED BY <1>6 DEF Init, StepInv, InStep

\* What is put into the store has its type.
LEMMA StoreType ==
    ASSUME Types, NEW l \in Loop
    PROVE  /\ initial \in Store /\ [initial EXCEPT !.phase = "quoting"] \in Store
           /\ \A p \in Phase : [ui EXCEPT !.phase = p] \in Store
           /\ \A g \in 1 .. OrchestratorRounds : applySignatureRequest(l, g) \in Store
           /\ \A g \in 0 .. OrchestratorRounds, p \in Phase :
                /\ From(l, g) \in Part
                /\ [ui EXCEPT !.phase = p, !.verdicts = From(l, g), !.ledger = From(l, g)] \in Store
                /\ [ui EXCEPT !.phase = p, !.tx = l, !.verdicts = From(l, g), !.tiers = From(l, g),
                              !.ledger = From(l, g)] \in Store
<1>1. Nothing \in Part
  BY DEF Nothing, Part
<1>2. \A g \in 0 .. OrchestratorRounds : From(l, g) \in Part
  BY <1>1, WebAssumption DEF From, Part
<1>3. initial \in Store /\ [initial EXCEPT !.phase = "quoting"] \in Store
  BY <1>1 DEF initial, Store, Phase
<1>4. \A p \in Phase : [ui EXCEPT !.phase = p] \in Store
  BY DEF Types, Store
<1>5. \A g \in 1 .. OrchestratorRounds : applySignatureRequest(l, g) \in Store
  <2> TAKE g \in 1 .. OrchestratorRounds
  <2>1. From(l, g) \in Part /\ From(l, g - 1) \in Part /\ g \in Nat
    BY <1>2, WebAssumption
  <2>2. QED BY <2>1 DEF Types, Store, applySignatureRequest, Phase
<1>6. QED BY ZenonT(60), <1>2, <1>3, <1>4, <1>5 DEF Types, Store

\* A step of loop l leaves the others alone.
OnlyOf(l) ==
    \A m \in Loop : m # l => /\ loop'[m] = loop[m] /\ request'[m] = request[m]
                             /\ run'[m] = run[m]

LEMMA OthersKeepInStep ==
    ASSUME StepInv, NEW l \in Loop, Types', OnlyOf(l), InStep(l)'
    PROVE  StepInv'
<1>1. ASSUME NEW m \in Loop PROVE InStep(m)'
  <2>1. CASE m = l
    BY <2>1
  <2>2. CASE m # l
    BY <2>2 DEF StepInv, InStep, Offered, OnlyOf
  <2>3. QED BY <2>1, <2>2
<1>2. QED BY <1>1 DEF StepInv

LEMMA StartStep ==
    ASSUME StepInv, NEW l \in Loop, Start(l)
    PROVE  StepInv'
<1>1. ui' \in Store
  BY StoreType DEF Start, beginQuote, StepInv
<1>2. /\ loop' \in [Loop -> [at : LoopAt, round : 0 .. MAX_ROUNDS, group : 0 .. OrchestratorRounds]]
      /\ request' \in [Loop -> [kind : Kind, group : 0 .. OrchestratorRounds, answer : Answer]]
  <2>1. /\ "quoting" \in LoopAt /\ "quote" \in Kind /\ "none" \in Answer
        /\ 0 \in 0 .. OrchestratorRounds
    BY WebAssumption DEF LoopAt, Kind, Answer
  <2>2. request' = [request EXCEPT ![l] = [kind |-> "quote", group |-> 0, answer |-> "none"]]
        /\ loop' = [loop EXCEPT ![l].at = "quoting"]
    BY DEF Start, Post, GoTo
  <2>3. Types
    BY DEF StepInv
  <2>4. loop' \in [Loop -> [at : LoopAt, round : 0 .. MAX_ROUNDS, group : 0 .. OrchestratorRounds]]
    BY <2>1, <2>2, <2>3 DEF Types
  <2>5. request' \in [Loop -> [kind : Kind, group : 0 .. OrchestratorRounds, answer : Answer]]
    BY <2>1, <2>2, <2>3 DEF Types
  <2>6. QED BY <2>4, <2>5
<1>3. doubled' \in BOOLEAN
  BY DEF Start, StepInv, Types
<1>4. Types'
  BY <1>1, <1>2, <1>3 DEF Start, StepInv, Types
<1>5. OnlyOf(l)
  BY DEF Start, Post, GoTo, OnlyOf, StepInv, Types
<1>6. loop'[l].at = "quoting" /\ request'[l].kind = "quote" /\ request'[l].answer = "none"
  BY DEF Start, Post, GoTo, StepInv, Types
<1>7. run'[l].phase = "none"
  BY DEF Start, StepInv, InStep
<1>8. InStep(l)'
  BY <1>6, <1>7 DEF InStep
<1>9. QED BY <1>4, <1>5, <1>8, OthersKeepInStep

\* The types after a step of loop l that sends nothing, and after one that does.
LEMMA QuietTypes ==
    ASSUME Types, NEW l \in Loop, NEW at \in LoopAt, GoTo(l, at), ui' \in Store,
           UNCHANGED <<screen, request, run, paid, doubled>>
    PROVE  Types' /\ OnlyOf(l) /\ loop'[l] = [loop[l] EXCEPT !.at = at] /\ loop'[l].at = at
<1>1. loop' \in [Loop -> [at : LoopAt, round : 0 .. MAX_ROUNDS, group : 0 .. OrchestratorRounds]]
  BY DEF GoTo, Types
<1>2. QED BY <1>1 DEF GoTo, Types, OnlyOf

LEMMA PostTypes ==
    ASSUME Types, NEW l \in Loop, NEW at \in LoopAt, NEW kind \in Kind, ui' \in Store,
           GoTo(l, at), Post(l, kind, loop[l].group), UNCHANGED <<screen, run, paid, doubled>>
    PROVE  /\ Types' /\ OnlyOf(l) /\ loop'[l].at = at /\ loop'[l].group = loop[l].group
           /\ request'[l] = [kind |-> kind, group |-> loop[l].group, answer |-> "none"]
<1>1. loop' \in [Loop -> [at : LoopAt, round : 0 .. MAX_ROUNDS, group : 0 .. OrchestratorRounds]]
  BY DEF GoTo, Types
<1>2. request' \in [Loop -> [kind : Kind, group : 0 .. OrchestratorRounds, answer : Answer]]
  BY DEF Post, Types, Answer
<1>3. QED BY <1>1, <1>2 DEF GoTo, Post, Types, OnlyOf

\* A loop that takes up the group it was sent holds the one its run waits for.
LEMMA TakeUpStep ==
    ASSUME StepInv, NEW l \in Loop, NEW round \in 1 .. MAX_ROUNDS, TakeUp(l, round),
           Offered(l), request[l].answer = "group", ui' \in Store,
           UNCHANGED <<screen, request, run, paid, doubled>>
    PROVE  StepInv'
<1>1. /\ loop' \in [Loop -> [at : LoopAt, round : 0 .. MAX_ROUNDS, group : 0 .. OrchestratorRounds]]
      /\ loop'[l].at = "pausing" /\ loop'[l].group = request[l].group
  BY DEF TakeUp, StepInv, Types, LoopAt, MAX_ROUNDS
<1>2. Types' /\ OnlyOf(l)
  BY <1>1 DEF TakeUp, StepInv, Types, OnlyOf
<1>3. InStep(l)'
  BY <1>1 DEF InStep, Offered
<1>4. QED BY <1>2, <1>3, OthersKeepInStep

\* The loop's own steps keep it in step.
LEMMA LoopStep ==
    ASSUME StepInv, NEW l \in Loop, Timers(l) \/ Arrivals(l) \/ Wallet(l)
    PROVE  StepInv'
<1>0. Types /\ InStep(l)
  BY DEF StepInv
<1>1. CASE QuoteArrives(l)
  <2>1. Offered(l) /\ request[l].answer = "group"
    BY <1>0, <1>1 DEF QuoteArrives, InStep
  <2>2. request[l].group \in 1 .. OrchestratorRounds
    BY <1>0, <2>1, WebAssumption DEF Offered, Types
  <2>3. ui' \in Store
    BY <1>0, <1>1, <2>2, StoreType DEF QuoteArrives
  <2>4. 1 \in 1 .. MAX_ROUNDS
    BY DEF MAX_ROUNDS
  <2>5. QED BY <1>1, <2>1, <2>3, <2>4, TakeUpStep DEF QuoteArrives
<1>2. CASE PauseEnds(l)
  <2>1. ui' \in Store
    BY <1>0, <1>2, StoreType DEF PauseEnds, begin, Phase
  <2>2. Types' /\ OnlyOf(l) /\ loop'[l] = [loop[l] EXCEPT !.at = "signing"] /\ loop'[l].at = "signing"
    BY <1>0, <1>2, <2>1, QuietTypes DEF PauseEnds, LoopAt
  <2>3. loop'[l].group = loop[l].group
    BY <1>0, <2>2 DEF Types
  <2>4. InStep(l)'
    BY <1>0, <1>2, <2>2, <2>3 DEF PauseEnds, InStep
  <2>5. QED BY <2>2, <2>4, OthersKeepInStep
<1>3. CASE WalletSigns(l)
  <2>1. ui' \in Store
    BY <1>0, <1>3, StoreType DEF WalletSigns, begin, Phase
  <2>2. /\ Types' /\ OnlyOf(l) /\ loop'[l].at = "verifying"
        /\ request'[l] = [kind |-> "verify", group |-> loop[l].group, answer |-> "none"]
    BY <1>0, <1>3, <2>1, PostTypes DEF WalletSigns, LoopAt, Kind
  <2>3. Offered(l)' /\ run'[l].round > 0
    BY <1>0, <1>3, <2>2 DEF WalletSigns, InStep, Offered
  <2>4. InStep(l)'
    BY <2>2, <2>3 DEF InStep
  <2>5. QED BY <2>2, <2>4, OthersKeepInStep
<1>4. CASE EscalationArrives(l)
  <2>1. ui' \in Store
    BY <1>0, <1>4, StoreType DEF EscalationArrives, begin, Phase
  <2>2. Types' /\ OnlyOf(l) /\ loop'[l].at = "escalating"
    BY <1>0, <1>4, <2>1, QuietTypes DEF EscalationArrives, LoopAt
  <2>3. InStep(l)'
    BY <1>0, <1>4, <2>2 DEF EscalationArrives, InStep, Offered
  <2>4. QED BY <2>2, <2>3, OthersKeepInStep
<1>5. CASE NextRound(l)
  <2>1. Offered(l) /\ request[l].answer = "group"
    BY <1>0, <1>5 DEF NextRound, InStep
  <2>2. request[l].group \in 1 .. OrchestratorRounds
    BY <1>0, <2>1, WebAssumption DEF Offered, Types
  <2>3. applySignatureRequest(l, request[l].group) \in Store
    BY <1>0, <2>2, StoreType
  <2>4. CASE loop[l].round < MAX_ROUNDS
    <3>1. loop[l].round + 1 \in 1 .. MAX_ROUNDS
      BY <1>0, <2>4 DEF Types, MAX_ROUNDS
    <3>2. ui' \in Store /\ TakeUp(l, loop[l].round + 1)
      BY <1>5, <2>3, <2>4 DEF NextRound
    <3>3. QED BY <1>5, <2>1, <3>1, <3>2, TakeUpStep DEF NextRound
  <2>5. CASE ~(loop[l].round < MAX_ROUNDS)
    <3>1. ui' \in Store
      BY ZenonT(60), <1>5, <2>3, <2>5 DEF NextRound, fail, Store, Phase
    <3>2. Types' /\ OnlyOf(l) /\ loop'[l].at = "done"
      BY <1>0, <1>5, <2>5, <3>1, QuietTypes DEF NextRound, LoopAt
    <3>3. QED BY <3>2, OthersKeepInStep DEF InStep
  <2>6. QED BY <2>4, <2>5
<1>6. CASE ReadyArrives(l)
  <2>1. ui' \in Store
    <3>1. request[l].group \in 0 .. OrchestratorRounds
      BY <1>0 DEF Types
    <3>2. QED BY <1>0, <1>6, <3>1, StoreType DEF ReadyArrives, applyVerdicts, Phase
  <2>2. /\ Types' /\ OnlyOf(l) /\ loop'[l].at = "settling"
        /\ request'[l] = [kind |-> "settle", group |-> loop[l].group, answer |-> "none"]
    BY <1>0, <1>6, <2>1, PostTypes DEF ReadyArrives, LoopAt, Kind
  <2>3. run'[l].round > 0 /\ request'[l].kind = "settle"
    BY <1>0, <1>6, <2>2 DEF ReadyArrives, InStep
  <2>4. QED BY <2>2, <2>3, OthersKeepInStep DEF InStep
<1>7. ASSUME ui' \in Store, UNCHANGED <<screen, request, run, paid, doubled>>,
             NEW at \in {"aborting", "holding", "done"}, GoTo(l, at)
      PROVE  StepInv'
  <2>1. Types' /\ OnlyOf(l) /\ loop'[l].at = at
    BY <1>0, <1>7, QuietTypes DEF LoopAt
  <2>2. QED BY <2>1, OthersKeepInStep DEF InStep
<1>8. CASE AbortArrives(l) \/ SettleArrives(l)
  <2>1. ui' \in Store
    BY <1>0, <1>8 DEF AbortArrives, SettleArrives, Types
  <2>2. UNCHANGED <<screen, request, run, paid, doubled>>
    BY <1>8 DEF AbortArrives, SettleArrives
  <2>3. GoTo(l, "aborting") \/ GoTo(l, "holding")
    BY <1>8 DEF AbortArrives, SettleArrives
  <2>4. QED BY <1>7, <2>1, <2>2, <2>3
<1>9. CASE ShowAbort(l) \/ ShowSettled(l)
  <2>1. request[l].group \in 0 .. OrchestratorRounds
    BY <1>0 DEF Types
  <2>2. "aborted" \in Phase /\ "settled" \in Phase
    BY DEF Phase
  <2>3. \A g \in 0 .. OrchestratorRounds, p \in Phase :
            /\ [ui EXCEPT !.phase = p, !.verdicts = From(l, g), !.ledger = From(l, g)] \in Store
            /\ [ui EXCEPT !.phase = p, !.tx = l, !.verdicts = From(l, g), !.tiers = From(l, g),
                          !.ledger = From(l, g)] \in Store
    BY <1>0, StoreType
  <2>4. ui' \in Store
    BY <1>9, <2>1, <2>2, <2>3 DEF ShowAbort, ShowSettled, applyAbort, applySettlement
  <2>5. QED BY <1>7, <1>9, <2>4 DEF ShowAbort, ShowSettled
<1>10. CASE WalletDeclines(l) \/ CallFails(l)
  <2>1. ui' \in Store
    <3>1. CASE WalletDeclines(l)
      BY <1>0, <3>1 DEF WalletDeclines, fail, Types, Store, Phase
    <3>2. CASE CallFails(l)
      BY <1>0, <3>2 DEF CallFails, fail, Types, Store, Phase
    <3>3. QED BY <1>10, <3>1, <3>2
  <2>2. QED BY <1>7, <1>10, <2>1 DEF WalletDeclines, CallFails
<1>11. QED
  BY <1>1, <1>2, <1>3, <1>4, <1>5, <1>6, <1>8, <1>9, <1>10 DEF Timers, Arrivals, Wallet
--------------------------------------------------------------------------------
(* The orchestrator's steps. *)

\* A request that was answered is not served again, and only a loop that waits for
\* an answer has one that was not: what Serve writes is all that matters.
LEMMA ServeTypes ==
    ASSUME Types, NEW l \in Loop, NEW kind \in Kind, NEW answer \in Answer,
           NEW rec \in Run,
           Serve(l, kind, rec, answer), paid' \in SUBSET Loop
    PROVE  /\ Types' /\ OnlyOf(l) /\ loop' = loop /\ run'[l] = rec
           /\ request[l].kind = kind /\ request[l].answer = "none"
           /\ request'[l].kind = kind /\ request'[l].answer = answer
           /\ request'[l].group = rec.round
<1>1. run' \in [Loop -> Run]
  BY DEF Serve, Types
<1>2. rec.round \in 0 .. OrchestratorRounds
  BY DEF Run
<1>3. /\ request' \in [Loop -> [kind : Kind, group : 0 .. OrchestratorRounds, answer : Answer]]
      /\ request'[l] = [request[l] EXCEPT !.answer = answer, !.group = rec.round]
  <2> DEFINE Requests == [Loop -> [kind : Kind, group : 0 .. OrchestratorRounds, answer : Answer]]
             answered == [request EXCEPT ![l].answer = answer]
  <2>1. answered \in Requests /\ answered[l] = [request[l] EXCEPT !.answer = answer]
    BY DEF Types
  <2>2. request' = [answered EXCEPT ![l].group = rec.round]
    BY DEF Serve
  <2> HIDE DEF answered
  <2>3. request' \in Requests /\ request'[l] = [answered[l] EXCEPT !.group = rec.round]
    BY <1>2, <2>1, <2>2
  <2>4. QED BY <2>1, <2>3
<1>4. request[l] \in [kind : Kind, group : 0 .. OrchestratorRounds, answer : Answer]
  BY DEF Types
<1>5. request'[l].answer = answer /\ request'[l].group = rec.round /\ request'[l].kind = request[l].kind
  BY <1>3, <1>4
<1>6. QED BY <1>1, <1>3, <1>5 DEF Serve, Types, OnlyOf

\* The record of a run stays one when its phase changes, and when a round is added.
LEMMA RunPhases ==
    ASSUME NEW rec \in Run, NEW phase \in RunPhase, NEW ready \in BOOLEAN
    PROVE  LET new == [rec EXCEPT !.phase = phase, !.ready = ready] IN
           /\ new \in Run /\ new.phase = phase /\ new.ready = ready /\ new.round = rec.round
           /\ [rec EXCEPT !.phase = phase] \in Run
           /\ [rec EXCEPT !.phase = phase].phase = phase
           /\ [rec EXCEPT !.phase = phase].round = rec.round
BY DEF Run

LEMMA RunOpens ==
    LET opened == [phase |-> "awaiting_signature", round |-> 1, ready |-> FALSE,
                   decisions |-> [newLedger EXCEPT ![1] = 3]]
        failed == [phase |-> "quoting", round |-> 0, ready |-> FALSE, decisions |-> newLedger]
    IN  opened \in Run /\ failed \in Run
<1> DEFINE opening == [newLedger EXCEPT ![1] = 3]
<1>1. newLedger \in Decisions /\ \A n \in 0 .. OrchestratorRounds : newLedger[n] = 0
  BY WebAssumption DEF Decisions, newLedger
<1>2. /\ opening \in [0 .. OrchestratorRounds -> Nat]
      /\ \A n \in 0 .. OrchestratorRounds : opening[n] = IF n = 1 THEN 3 ELSE 0
  BY WebAssumption DEF newLedger
<1> HIDE DEF opening
<1>3. opening \in Decisions
  BY <1>2, WebAssumption DEF Decisions
<1>4. 0 \in 0 .. OrchestratorRounds /\ 1 \in 0 .. OrchestratorRounds
  BY WebAssumption
<1>5. [phase |-> "quoting", round |-> 0, ready |-> FALSE, decisions |-> newLedger] \in Run
  BY <1>1, <1>4 DEF Run, RunPhase
<1>6. \A n \in 0 .. OrchestratorRounds : n > 1 => opening[n] = 0
  BY <1>2, WebAssumption
<1>7. [phase |-> "awaiting_signature", round |-> 1, ready |-> FALSE, decisions |-> opening] \in Run
  BY <1>3, <1>4, <1>6 DEF Run, RunPhase
<1>8. QED BY <1>5, <1>7 DEF opening

LEMMA RunGrows ==
    ASSUME NEW l \in Loop, run[l] \in Run, run[l].round < OrchestratorRounds, NEW new \in VerdictCounts
    PROVE  /\ recordRound(l, new) \in Run /\ recordRound(l, new).phase = run[l].phase
           /\ recordRound(l, new).round = run[l].round + 1
<1> DEFINE r == run[l].round
           old == run[l].decisions
           grown == [old EXCEPT ![r + 1] = old[r] + new]
<1>1. /\ r \in 0 .. OrchestratorRounds /\ r + 1 \in 1 .. OrchestratorRounds /\ new \in 1 .. 3
      /\ old \in Decisions /\ \A n \in 0 .. OrchestratorRounds : n > r => old[n] = 0
  BY WebAssumption DEF Run
<1>2. /\ old \in [0 .. OrchestratorRounds -> Nat] /\ old[0] = 0
      /\ \A n \in 1 .. OrchestratorRounds : old[n] <= 3 * n /\ old[n] <= old[n - 1] + 3
  BY <1>1 DEF Decisions
<1>3. recordRound(l, new) = [run[l] EXCEPT !.round = r + 1, !.decisions = grown]
  BY DEF recordRound, Run
<1> HIDE DEF old, r
<1>4. old[r] \in Nat /\ old[r] <= 3 * r
  BY <1>1, <1>2, WebAssumption
<1>5. /\ grown \in [0 .. OrchestratorRounds -> Nat]
      /\ \A n \in 0 .. OrchestratorRounds : grown[n] = IF n = r + 1 THEN old[r] + new ELSE old[n]
  <2>1. old[r] + new \in Nat
    BY <1>1, <1>4
  <2>2. r + 1 \in 0 .. OrchestratorRounds
    BY <1>1, WebAssumption
  <2>3. old \in [0 .. OrchestratorRounds -> Nat]
    BY <1>2
  <2>4. QED BY <2>1, <2>2, <2>3
<1> HIDE DEF grown
<1>6. ASSUME NEW n \in 1 .. OrchestratorRounds
      PROVE  grown[n] <= 3 * n /\ grown[n] <= grown[n - 1] + 3
  <2>0. n \in Int /\ r \in Int /\ new \in 1 .. 3 /\ n - 1 \in 0 .. OrchestratorRounds
        /\ n \in 0 .. OrchestratorRounds
    BY <1>1, WebAssumption
  <2>1. CASE n = r + 1
    <3>1. grown[n] = old[r] + new /\ grown[n - 1] = old[r]
      BY <1>5, <2>0, <2>1
    <3>2. QED BY <1>4, <2>0, <2>1, <3>1
  <2>2. CASE n > r + 1
    <3>1. grown[n] = 0 /\ grown[n - 1] \in Nat
      BY <1>1, <1>5, <2>0, <2>2
    <3>2. QED BY <2>0, <3>1
  <2>3. CASE n < r + 1
    <3>1. grown[n] = old[n] /\ grown[n - 1] = old[n - 1]
      BY <1>5, <2>0, <2>3
    <3>2. QED BY <1>2, <3>1
  <2>4. QED BY <2>0, <2>1, <2>2, <2>3
<1>7. grown \in Decisions
  <2>1. grown[0] = 0
    BY <1>1, <1>2, <1>5, WebAssumption
  <2>2. QED BY <1>5, <1>6, <2>1 DEF Decisions
<1>8. \A n \in 0 .. OrchestratorRounds : n > r + 1 => grown[n] = 0
  BY <1>1, <1>5, WebAssumption
<1>9. /\ recordRound(l, new) \in [phase : RunPhase, round : 0 .. OrchestratorRounds,
                                 ready : BOOLEAN, decisions : Decisions]
      /\ recordRound(l, new).phase = run[l].phase /\ recordRound(l, new).round = r + 1
      /\ recordRound(l, new).decisions = grown
  <2>1. run[l] \in [phase : RunPhase, round : 0 .. OrchestratorRounds, ready : BOOLEAN,
                    decisions : Decisions]
    BY DEF Run
  <2>2. r + 1 \in 0 .. OrchestratorRounds
    BY <1>1, WebAssumption
  <2>3. QED BY <1>3, <1>7, <2>1, <2>2
<1>10. recordRound(l, new) \in Run
  BY <1>8, <1>9 DEF Run
<1>11. QED BY <1>9, <1>10 DEF r

\* What serving a request leaves alone, and what it says of the request served.
Served(l, kind) ==
    /\ Types' /\ OnlyOf(l) /\ UNCHANGED <<ui, screen, loop, doubled>>
    /\ request[l].kind = kind /\ request[l].answer = "none" /\ request'[l].kind = kind
    /\ request'[l].group = run'[l].round

LEMMA QuoteServed ==
    ASSUME Types, NEW l \in Loop, ServeQuote(l)
    PROVE  /\ Served(l, "quote") /\ paid' = paid
           /\ request'[l].answer \in {"group", "error"}
           /\ request'[l].answer = "group" =>
                run'[l].phase = "awaiting_signature" /\ run'[l].round = 1
<1>1. PICK rec \in Run, answer \in {"group", "error"} :
          /\ Serve(l, "quote", rec, answer)
          /\ answer = "group" => rec.phase = "awaiting_signature" /\ rec.round = 1
  <2> DEFINE opened == [phase |-> "awaiting_signature", round |-> 1, ready |-> FALSE,
                        decisions |-> [newLedger EXCEPT ![1] = 3]]
             failed == [phase |-> "quoting", round |-> 0, ready |-> FALSE, decisions |-> newLedger]
  <2>1. Serve(l, "quote", opened, "group") \/ Serve(l, "quote", failed, "error")
    BY DEF ServeQuote
  <2>2. opened \in Run /\ failed \in Run
    BY RunOpens
  <2>3. opened.phase = "awaiting_signature" /\ opened.round = 1
    OBVIOUS
  <2> HIDE DEF opened, failed
  <2>4. QED BY <2>1, <2>2, <2>3
<1>2. paid' = paid /\ paid' \in SUBSET Loop
  BY DEF ServeQuote, Types
<1>3. /\ Types' /\ OnlyOf(l) /\ loop' = loop /\ run'[l] = rec
      /\ request[l].kind = "quote" /\ request[l].answer = "none"
      /\ request'[l].kind = "quote" /\ request'[l].answer = answer
      /\ request'[l].group = rec.round
  BY <1>1, <1>2, ServeTypes DEF Kind, Answer
<1>4. QED BY <1>1, <1>2, <1>3 DEF Served, Serve

LEMMA VerifyServed ==
    ASSUME Types, NEW l \in Loop, ServeVerify(l)
    PROVE  /\ Served(l, "verify") /\ paid' = paid /\ run[l].phase = "awaiting_signature"
           /\ request'[l].answer \in {"abort", "ready", "group", "error"}
           /\ run'[l].round =
                IF request'[l].answer = "group" THEN run[l].round + 1 ELSE run[l].round
           /\ request'[l].answer = "group" => run'[l].phase = "awaiting_signature"
           /\ request'[l].answer = "ready" => run'[l].phase = "verifying" /\ run'[l].ready
           /\ request'[l].answer = "abort" => run'[l].phase = "aborted"
<1>1. run[l] \in Run /\ run[l].round \in Nat /\ run[l].phase = "awaiting_signature"
      /\ paid' = paid /\ paid' \in SUBSET Loop
  BY WebAssumption DEF Types, ServeVerify, Run
<1>2. PICK rec \in Run, answer \in {"abort", "ready", "group", "error"} :
          /\ Serve(l, "verify", rec, answer)
          /\ rec.round = IF answer = "group" THEN run[l].round + 1 ELSE run[l].round
          /\ answer = "group" => rec.phase = "awaiting_signature"
          /\ answer = "ready" => rec.phase = "verifying" /\ rec.ready
          /\ answer = "abort" => rec.phase = "aborted"
  <2>1. CASE Serve(l, "verify", [run[l] EXCEPT !.phase = "aborted"], "abort")
    <3> DEFINE rec == [run[l] EXCEPT !.phase = "aborted"]
    <3>1. rec \in Run /\ rec.phase = "aborted" /\ rec.round = run[l].round
      BY <1>1, RunPhases DEF RunPhase
    <3> HIDE DEF rec
    <3>2. QED BY <2>1, <3>1 DEF rec
  <2>2. CASE Serve(l, "verify", [run[l] EXCEPT !.phase = "verifying", !.ready = TRUE], "ready")
    <3> DEFINE rec == [run[l] EXCEPT !.phase = "verifying", !.ready = TRUE]
    <3>1. rec \in Run /\ rec.phase = "verifying" /\ rec.ready /\ rec.round = run[l].round
      BY <1>1, RunPhases DEF RunPhase
    <3> HIDE DEF rec
    <3>2. QED BY <2>2, <3>1 DEF rec
  <2>3. ASSUME MayEscalate(l), NEW new \in VerdictCounts, Serve(l, "verify", recordRound(l, new), "group")
        PROVE  \E rec \in Run, answer \in {"group"} :
                  /\ Serve(l, "verify", rec, answer)
                  /\ rec.round = run[l].round + 1 /\ rec.phase = "awaiting_signature"
    <3>1. /\ recordRound(l, new) \in Run /\ recordRound(l, new).phase = "awaiting_signature"
          /\ recordRound(l, new).round = run[l].round + 1
      BY <1>1, <2>3, RunGrows DEF MayEscalate
    <3>2. QED BY <2>3, <3>1
  <2>4. CASE Serve(l, "verify", [run[l] EXCEPT !.phase = "verifying"], "error")
    <3> DEFINE rec == [run[l] EXCEPT !.phase = "verifying"]
    <3>1. rec \in Run /\ rec.round = run[l].round
      BY <1>1, RunPhases DEF RunPhase
    <3> HIDE DEF rec
    <3>2. QED BY <2>4, <3>1 DEF rec
  <2>5. QED BY <2>1, <2>2, <2>3, <2>4 DEF ServeVerify
<1>3. /\ Types' /\ OnlyOf(l) /\ loop' = loop /\ run'[l] = rec
      /\ request[l].kind = "verify" /\ request[l].answer = "none"
      /\ request'[l].kind = "verify" /\ request'[l].answer = answer
      /\ request'[l].group = rec.round
  BY <1>1, <1>2, ServeTypes DEF Kind, Answer
<1>4. QED BY <1>1, <1>2, <1>3 DEF Served, Serve

LEMMA SettleServed ==
    ASSUME Types, NEW l \in Loop, ServeSettle(l)
    PROVE  /\ Served(l, "settle") /\ run[l].phase = "verifying"
           /\ run'[l].round = run[l].round /\ run'[l].phase \in {"settled", "aborted"}
           /\ request'[l].answer \in {"settled", "error"}
           /\ request'[l].answer = "settled" => l \in paid' /\ run'[l].phase = "settled"
           /\ paid \subseteq paid' /\ paid' \subseteq paid \union {l}
<1>1. /\ run[l] \in Run /\ run[l].phase = "verifying"
      /\ paid \subseteq paid' /\ paid' \subseteq paid \union {l} /\ paid' \in SUBSET Loop
  BY DEF Types, ServeSettle
<1>2. PICK rec \in Run, answer \in {"settled", "error"} :
          /\ Serve(l, "settle", rec, answer)
          /\ rec.round = run[l].round /\ rec.phase \in {"settled", "aborted"}
          /\ answer = "settled" => rec.phase = "settled" /\ l \in paid'
  <2> DEFINE rec(phase) == [run[l] EXCEPT !.phase = phase]
  <2>1. \A phase \in RunPhase : /\ rec(phase) \in Run /\ rec(phase).round = run[l].round
                                /\ rec(phase).phase = phase
    BY <1>1, RunPhases
  <2>2. \/ Serve(l, "settle", rec("settled"), "settled") /\ l \in paid'
        \/ Serve(l, "settle", rec("aborted"), "error")
    BY DEF ServeSettle
  <2> HIDE DEF rec
  <2>3. QED BY <2>1, <2>2 DEF RunPhase
<1>3. /\ Types' /\ OnlyOf(l) /\ loop' = loop /\ run'[l] = rec
      /\ request[l].kind = "settle" /\ request[l].answer = "none"
      /\ request'[l].kind = "settle" /\ request'[l].answer = answer
      /\ request'[l].group = rec.round
  BY <1>1, <1>2, ServeTypes DEF Kind, Answer
<1>4. QED BY <1>1, <1>2, <1>3 DEF Served, Serve

LEMMA ServeStep ==
    ASSUME StepInv, NEW l \in Loop, ServeQuote(l) \/ ServeVerify(l) \/ ServeSettle(l)
    PROVE  StepInv'
<1>0. Types /\ InStep(l)
  BY DEF StepInv
<1>1. CASE ServeQuote(l)
  <2>1. /\ Served(l, "quote") /\ request'[l].answer \in {"group", "error"}
        /\ request'[l].answer = "group" =>
                run'[l].phase = "awaiting_signature" /\ run'[l].round = 1
    BY <1>0, <1>1, QuoteServed
  <2>2. loop'[l].at \notin {"unused", "pausing", "signing", "verifying", "escalating", "settling"}
    BY <1>0, <2>1 DEF InStep, Served
  <2>3. InStep(l)'
    BY <2>1, <2>2 DEF InStep, Offered, Served
  <2>4. QED BY <2>1, <2>3, OthersKeepInStep DEF Served
<1>2. CASE ServeVerify(l)
  <2>1. /\ Served(l, "verify") /\ request'[l].answer \in {"abort", "ready", "group", "error"}
        /\ run'[l].round = IF request'[l].answer = "group" THEN run[l].round + 1 ELSE run[l].round
        /\ request'[l].answer = "group" => run'[l].phase = "awaiting_signature"
        /\ request'[l].answer = "ready" => run'[l].phase = "verifying" /\ run'[l].ready
    BY <1>0, <1>2, VerifyServed
  <2>2. run[l].round \in Nat
    BY <1>0, WebAssumption DEF Types, Run
  <2>3. loop[l].at = "verifying" => run'[l].round > 0
    BY <1>0, <2>1, <2>2 DEF InStep
  <2>4. loop'[l].at \notin {"unused", "quoting", "pausing", "signing", "escalating", "settling"}
    BY <1>0, <2>1 DEF InStep, Served
  <2>5. InStep(l)'
    BY <2>1, <2>3, <2>4 DEF InStep, Offered, Served
  <2>6. QED BY <2>1, <2>5, OthersKeepInStep DEF Served
<1>3. CASE ServeSettle(l)
  <2>1. Served(l, "settle") /\ run'[l].round = run[l].round
    BY <1>0, <1>3, SettleServed
  <2>2. /\ loop'[l].at \notin {"unused", "quoting", "pausing", "signing", "verifying", "escalating"}
        /\ loop'[l].at = "settling" => run'[l].round > 0
    BY <1>0, <2>1 DEF InStep, Served
  <2>3. InStep(l)'
    BY <2>1, <2>2 DEF InStep, Served
  <2>4. QED BY <2>1, <2>3, OthersKeepInStep DEF Served
<1>4. QED BY <1>1, <1>2, <1>3

LEMMA StepInvStep == StepInv /\ [Next]_vars => StepInv'
<1> SUFFICES ASSUME StepInv, [Next]_vars PROVE StepInv'
  OBVIOUS
<1>1. ASSUME NEW l \in Loop, Start(l) PROVE StepInv'
  BY <1>1, StartStep
<1>2. ASSUME NEW l \in Loop, Timers(l) \/ Arrivals(l) \/ Wallet(l) PROVE StepInv'
  BY <1>2, LoopStep
<1>3. ASSUME NEW l \in Loop, ServeQuote(l) \/ ServeVerify(l) \/ ServeSettle(l) PROVE StepInv'
  BY <1>3, ServeStep
<1>4. ASSUME Types', UNCHANGED <<loop, request, run>> PROVE StepInv'
  BY <1>4 DEF StepInv, InStep, Offered
<1>5. CASE ScreenFollows
  <2>1. ui.phase \in Phase
    BY DEF StepInv, Types, Store
  <2>2. screenOf(ui.phase) \in {"form", "running", "settled", "aborted", "error"}
    BY <2>1 DEF screenOf, isTerminal, isBusy, Phase
  <2>3. Types'
    BY <1>5, <2>2 DEF ScreenFollows, StepInv, Types
  <2>4. QED BY <1>4, <1>5, <2>3 DEF ScreenFollows
<1>6. CASE Reset
  <2>1. initial \in Store
    BY DEF initial, Nothing, Store, Part, Phase
  <2>2. Types'
    BY <1>6, <2>1 DEF Reset, StepInv, Types
  <2>3. QED BY <1>4, <1>6, <2>2 DEF Reset
<1>7. CASE Reload
  <2>1. initial \in Store
    BY DEF initial, Nothing, Store, Part, Phase
  <2>2. loop' \in [Loop -> [at : LoopAt, round : 0 .. MAX_ROUNDS, group : 0 .. OrchestratorRounds]]
    BY <1>7 DEF Reload, StepInv, Types, LoopAt
  <2>3. Types'
    BY <1>7, <2>1, <2>2 DEF Reload, StepInv, Types
  <2>4. ASSUME NEW l \in Loop PROVE InStep(l)'
    <3>1. CASE Running(l)
      <4>1. loop'[l].at = "done"
        BY <1>7, <3>1 DEF Reload, StepInv, Types
      <4>2. QED BY <4>1 DEF InStep
    <3>2. CASE ~Running(l)
      <4>1. loop'[l] = loop[l]
        BY <1>7, <3>2 DEF Reload
      <4>2. QED BY <1>7, <4>1 DEF Reload, StepInv, InStep, Offered
    <3>3. QED BY <3>1, <3>2
  <2>5. QED BY <2>3, <2>4 DEF StepInv
<1>8. CASE UNCHANGED vars
  <2>1. Types'
    BY <1>8 DEF vars, StepInv, Types
  <2>2. QED BY <1>4, <1>8, <2>1 DEF vars
<1>9. QED BY <1>1, <1>2, <1>3, <1>5, <1>6, <1>7, <1>8 DEF Next

LEMMA StepInvariance == Spec => []StepInv
<1>1. QED BY StepInvInit, StepInvStep, PTL DEF Spec

\* The types of the page's model, for any number of loops.
THEOREM PageTypes == Spec => []TypeOK
<1>1. StepInv => TypeOK
  <2> SUFFICES ASSUME StepInv PROVE TypeOK
    OBVIOUS
  <2>1. /\ ui.phase \in Phase /\ ui.run \in Loop \union {None}
        /\ ui.tx \in Loop \union {None}
    BY DEF StepInv, Types, Store
  <2>2. ASSUME NEW l \in Loop
        PROVE  /\ loop[l].round \in 0 .. MAX_ROUNDS /\ loop[l].group \in 0 .. OrchestratorRounds
               /\ request[l].kind \in Kind /\ request[l].answer \in Answer
               /\ loop[l].at \in {"pausing", "signing", "verifying", "settling"} => run[l].round > 0
    BY DEF StepInv, Types, InStep
  <2>3. QED BY <2>1, <2>2 DEF TypeOK, StepInv, Types, Kind
<1>2. QED BY <1>1, StepInvariance, PTL

\* However loops, resets, reloads and lost answers overlap, a loop presents a
\* group only while its run waits for exactly that group, and asks for settlement
\* only of a run that is ready.
THEOREM InStepTheorem == Spec => RequestsFollowTheRun
<1> DEFINE Follows(l) ==
        request'[l].answer = "none" /\ request'[l] # request[l] =>
            CASE request'[l].kind = "quote" -> run[l].phase = "none"
              [] request'[l].kind = "verify" -> /\ run[l].phase = "awaiting_signature"
                                                /\ request'[l].group = run[l].round
              [] request'[l].kind = "settle" -> run[l].phase = "verifying" /\ run[l].ready
<1>1. StepInv /\ [Next]_vars => \A l \in Loop : Follows(l)
  <2> SUFFICES ASSUME StepInv, [Next]_vars, NEW l \in Loop PROVE Follows(l)
    OBVIOUS
  <2>0. Types /\ InStep(l)
    BY DEF StepInv
  <2>1. ASSUME NEW m \in Loop, Start(m) PROVE Follows(l)
    <3>1. CASE m = l
      <4>1. request'[l].kind = "quote" /\ run[l].phase = "none"
        BY <2>0, <2>1, <3>1 DEF Start, Post, Types, InStep
      <4>2. QED BY <4>1
    <3>2. CASE m # l
      BY <2>0, <2>1, <3>2 DEF Start, Post, Types
    <3>3. QED BY <3>1, <3>2
  <2>2. ASSUME NEW m \in Loop, WalletSigns(m) PROVE Follows(l)
    <3>1. CASE m = l
      <4>1. /\ request'[l].kind = "verify" /\ request'[l].group = loop[l].group
            /\ run[l].phase = "awaiting_signature" /\ loop[l].group = run[l].round
        BY <2>0, <2>2, <3>1 DEF WalletSigns, Post, Types, InStep
      <4>2. QED BY <4>1
    <3>2. CASE m # l
      BY <2>0, <2>2, <3>2 DEF WalletSigns, Post, Types
    <3>3. QED BY <3>1, <3>2
  <2>3. ASSUME NEW m \in Loop, ReadyArrives(m) PROVE Follows(l)
    <3>1. CASE m = l
      <4>1. request'[l].kind = "settle" /\ run[l].phase = "verifying" /\ run[l].ready
        BY <2>0, <2>3, <3>1 DEF ReadyArrives, readyToSettle, Post, Types, InStep
      <4>2. QED BY <4>1
    <3>2. CASE m # l
      BY <2>0, <2>3, <3>2 DEF ReadyArrives, Post, Types
    <3>3. QED BY <3>1, <3>2
  <2>4. ASSUME NEW m \in Loop, NEW kind, NEW rec, NEW answer,
               answer # "none", Serve(m, kind, rec, answer)
        PROVE  Follows(l)
    <3>1. CASE m = l
      <4>1. request'[l].answer = answer
        <5> DEFINE answered == [request EXCEPT ![l].answer = answer]
        <5>1. request' = [answered EXCEPT ![l].group = rec.round]
          BY <2>4, <3>1 DEF Serve
        <5>2. answered[l] = [request[l] EXCEPT !.answer = answer] /\ l \in DOMAIN answered
          BY <2>0 DEF Types
        <5>3. answered[l].answer = answer /\ DOMAIN answered[l] = {"kind", "group", "answer"}
          BY <2>0, <5>2 DEF Types
        <5> HIDE DEF answered
        <5>4. request'[l] = [answered[l] EXCEPT !.group = rec.round]
          BY <5>1, <5>2
        <5>5. QED BY <5>3, <5>4
      <4>2. QED BY <2>4, <4>1
    <3>2. CASE m # l
      BY <2>0, <2>4, <3>2 DEF Serve, Types
    <3>3. QED BY <3>1, <3>2
  <2>5. ASSUME NEW m \in Loop, ServeQuote(m) \/ ServeVerify(m) \/ ServeSettle(m)
        PROVE  Follows(l)
    BY <2>4, <2>5 DEF ServeQuote, ServeVerify, ServeSettle
  <2>6. ASSUME UNCHANGED request PROVE Follows(l)
    BY <2>6
  <2>7. ASSUME NEW m \in Loop, Timers(m) \/ Arrivals(m) \/ Wallet(m), ~WalletSigns(m), ~ReadyArrives(m)
        PROVE  UNCHANGED request
    BY <2>7
    DEF Timers, Arrivals, Wallet, PauseEnds, ShowAbort, NextRound, ShowSettled, CallFails,
        QuoteArrives, AbortArrives, EscalationArrives, SettleArrives, WalletDeclines
  <2>8. CASE ScreenFollows \/ Reset \/ Reload \/ UNCHANGED vars
    BY <2>6, <2>8 DEF ScreenFollows, Reset, Reload, vars
  <2>9. QED BY <2>1, <2>2, <2>3, <2>5, <2>6, <2>7, <2>8 DEF Next
<1>2. QED BY <1>1, StepInvariance, PTL DEF Spec, RequestsFollowTheRun
--------------------------------------------------------------------------------
(* What a loop that runs alone shows. *)

\* The store shows where loop l is, and the page does not offer a reset.
Shows(l) ==
    /\ screen \in {"form", "running"}
    /\ loop[l].at = "quoting" => ui.phase = "quoting"
    /\ loop[l].at = "pausing" =>
        ui.phase = "awaiting_signature" /\ ui.run = l /\ ui.round = loop[l].group
    /\ loop[l].at = "signing" => ui.phase = "signing" /\ ui.run = l /\ ui.round = loop[l].group
    /\ loop[l].at \in {"verifying", "aborting"} => ui.phase = "verifying"
    /\ loop[l].at = "escalating" => ui.phase = "escalating"
    /\ loop[l].at \in {"settling", "holding"} => ui.phase = "settling"

Single ==
    ~doubled => \A l \in Loop : Running(l) =>
        Shows(l) /\ \A m \in Loop : Running(m) => m = l

\* The step of a loop that ran alone: no other loop has come up.
LEMMA SingleStep ==
    ASSUME Single, NEW l \in Loop, Running(l), doubled' = doubled,
           \A m \in Loop : m # l => loop'[m] = loop[m],
           ~doubled /\ Running(l)' => Shows(l)'
    PROVE  Single'
<1> SUFFICES ASSUME ~doubled, NEW k \in Loop, Running(k)'
             PROVE  Shows(k)' /\ \A m \in Loop : Running(m)' => m = k
  BY DEF Single
<1>1. ASSUME NEW m \in Loop, Running(m)' PROVE m = l
  <2>1. CASE m # l
    BY <2>1, <1>1 DEF Single, Running
  <2>2. QED BY <2>1
<1>2. QED BY <1>1

\* Where a loop's step takes the loop and the store.
LEMMA LoopShows ==
    ASSUME Types, NEW l \in Loop, Shows(l), Timers(l) \/ Arrivals(l) \/ Wallet(l)
    PROVE  /\ Running(l) /\ doubled' = doubled /\ \A m \in Loop : m # l => loop'[m] = loop[m]
           /\ Running(l)' => Shows(l)'
<1> DEFINE Moved == Running(l) /\ doubled' = doubled /\ \A m \in Loop : m # l => loop'[m] = loop[m]
<1>0. /\ ui \in Store /\ loop[l] \in [at : LoopAt, round : 0 .. MAX_ROUNDS, group : 0 .. OrchestratorRounds]
      /\ loop \in [Loop -> [at : LoopAt, round : 0 .. MAX_ROUNDS, group : 0 .. OrchestratorRounds]]
  BY DEF Types
<1>1. ASSUME NEW round, TakeUp(l, round), ui' = applySignatureRequest(l, request[l].group),
             UNCHANGED screen
      PROVE  Shows(l)'
  <2>1. loop'[l].at = "pausing" /\ loop'[l].group = request[l].group
    BY <1>0, <1>1 DEF TakeUp
  <2>2. /\ ui'.phase = "awaiting_signature" /\ ui'.run = l
        /\ ui'.round = request[l].group
    BY <1>0, <1>1 DEF applySignatureRequest, Store
  <2>3. QED BY <1>1, <2>1, <2>2 DEF Shows
<1>2. ASSUME NEW at \in LoopAt, GoTo(l, at)
      PROVE  /\ loop'[l].at = at /\ loop'[l].group = loop[l].group
             /\ \A m \in Loop : m # l => loop'[m] = loop[m]
  BY <1>0, <1>2 DEF GoTo
<1>3. ASSUME NEW phase \in Phase, begin(phase)
      PROVE  ui'.phase = phase /\ ui'.run = ui.run /\ ui'.round = ui.round
  BY <1>0, <1>3 DEF begin, Store
<1>4. CASE QuoteArrives(l)
  <2>1. Moved
    BY <1>0, <1>4 DEF QuoteArrives, TakeUp, Running
  <2>2. QED BY <1>1, <1>4, <2>1 DEF QuoteArrives
<1>5. CASE PauseEnds(l)
  <2>1. Moved /\ loop'[l].at = "signing" /\ loop'[l].group = loop[l].group
    BY <1>2, <1>5 DEF PauseEnds, Running, LoopAt
  <2>2. ui'.phase = "signing" /\ ui'.run = ui.run /\ ui'.round = ui.round
    BY <1>3, <1>5 DEF PauseEnds, Phase
  <2>3. QED BY <1>5, <2>1, <2>2 DEF PauseEnds, Shows
<1>6. CASE WalletSigns(l)
  <2>1. Moved /\ loop'[l].at = "verifying"
    BY <1>2, <1>6 DEF WalletSigns, Running, LoopAt
  <2>2. ui'.phase = "verifying"
    BY <1>3, <1>6 DEF WalletSigns, Phase
  <2>3. QED BY <1>6, <2>1, <2>2 DEF WalletSigns, Shows
<1>7. CASE EscalationArrives(l)
  <2>1. Moved /\ loop'[l].at = "escalating"
    BY <1>2, <1>7 DEF EscalationArrives, Running, LoopAt
  <2>2. ui'.phase = "escalating"
    BY <1>3, <1>7 DEF EscalationArrives, Phase
  <2>3. QED BY <1>7, <2>1, <2>2 DEF EscalationArrives, Shows
<1>8. CASE NextRound(l) /\ loop[l].round < MAX_ROUNDS
  <2>1. Moved
    BY <1>0, <1>8 DEF NextRound, TakeUp, Running
  <2>2. QED BY <1>1, <1>8, <2>1 DEF NextRound
<1>9. CASE ReadyArrives(l)
  <2>1. Moved /\ loop'[l].at = "settling"
    BY <1>2, <1>9 DEF ReadyArrives, Running, LoopAt
  <2>2. ui'.phase = "settling"
    BY <1>0, <1>9 DEF ReadyArrives, applyVerdicts, Store
  <2>3. QED BY <1>9, <2>1, <2>2 DEF ReadyArrives, Shows
<1>10. CASE AbortArrives(l)
  <2>1. Moved /\ loop'[l].at = "aborting"
    BY <1>2, <1>10 DEF AbortArrives, Running, LoopAt
  <2>2. QED BY <1>10, <2>1 DEF AbortArrives, Shows
<1>11. CASE SettleArrives(l)
  <2>1. Moved /\ loop'[l].at = "holding"
    BY <1>2, <1>11 DEF SettleArrives, Running, LoopAt
  <2>2. QED BY <1>11, <2>1 DEF SettleArrives, Shows
<1>12. ASSUME Running(l), GoTo(l, "done"), UNCHANGED doubled
       PROVE  Moved /\ ~Running(l)'
  <2>1. loop'[l].at = "done" /\ \A m \in Loop : m # l => loop'[m] = loop[m]
    BY <1>2, <1>12 DEF LoopAt
  <2>2. QED BY <1>12, <2>1 DEF Running
<1> DEFINE Ends ==
        \/ ShowAbort(l) \/ ShowSettled(l) \/ WalletDeclines(l) \/ CallFails(l)
        \/ NextRound(l) /\ ~(loop[l].round < MAX_ROUNDS)
<1>13. CASE Ends
  <2>1. Running(l) /\ doubled' = doubled
    BY <1>13 DEF ShowAbort, ShowSettled, WalletDeclines, CallFails, NextRound, Running
  <2>2. GoTo(l, "done")
    BY <1>13 DEF ShowAbort, ShowSettled, WalletDeclines, CallFails, NextRound
  <2>3. QED BY <1>12, <2>1, <2>2
<1>14. CASE NextRound(l)
  BY <1>8, <1>13, <1>14
<1>15. CASE Timers(l)
  BY <1>5, <1>13, <1>14, <1>15 DEF Timers
<1>16. CASE Arrivals(l)
  BY <1>4, <1>7, <1>9, <1>10, <1>11, <1>16 DEF Arrivals
<1>17. CASE Wallet(l)
  BY <1>6, <1>13, <1>17 DEF Wallet
<1>18. QED BY <1>15, <1>16, <1>17

LEMMA SingleInit == Init => Single
BY DEF Init, Single, Running

LEMMA SingleInvStep == StepInv /\ Single /\ [Next]_vars => Single'
<1> SUFFICES ASSUME StepInv, Single, [Next]_vars PROVE Single'
  OBVIOUS
<1>0. Types
  BY DEF StepInv
<1>1. ASSUME NEW l \in Loop, Start(l) PROVE Single'
  <2>1. /\ loop'[l].at = "quoting" /\ screen' = "form"
        /\ \A m \in Loop : m # l => loop'[m] = loop[m]
    BY <1>0, <1>1 DEF Start, GoTo, Types
  <2>2. ui'.phase = "quoting"
    BY <1>1 DEF Start, beginQuote, initial
  <2>3. SUFFICES ASSUME ~doubled', NEW k \in Loop, Running(k)'
                 PROVE  Shows(k)' /\ \A m \in Loop : Running(m)' => m = k
    BY DEF Single
  <2>4. \A m \in Loop : ~Running(m)
    BY <1>1, <2>3 DEF Start
  <2>5. \A m \in Loop : Running(m)' => m = l
    BY <2>1, <2>4 DEF Running
  <2>6. QED BY <2>1, <2>2, <2>3, <2>5 DEF Shows
<1>2. ASSUME NEW l \in Loop, Timers(l) \/ Arrivals(l) \/ Wallet(l) PROVE Single'
  <2>1. doubled' = doubled /\ Running(l)
    BY <1>2
    DEF Timers, Arrivals, Wallet, PauseEnds, ShowAbort, NextRound, ShowSettled, CallFails,
        QuoteArrives, AbortArrives, EscalationArrives, ReadyArrives, SettleArrives,
        WalletSigns, WalletDeclines, Running
  <2>2. CASE doubled
    BY <2>1, <2>2 DEF Single
  <2>3. CASE ~doubled
    <3>1. Shows(l)
      BY <2>1, <2>3 DEF Single
    <3>2. /\ \A m \in Loop : m # l => loop'[m] = loop[m]
          /\ Running(l)' => Shows(l)'
      BY <1>0, <1>2, <3>1, LoopShows
    <3>3. QED BY <2>1, <3>2, SingleStep
  <2>4. QED BY <1>0, <2>2, <2>3 DEF Types
<1>3. ASSUME NEW l \in Loop, ServeQuote(l) \/ ServeVerify(l) \/ ServeSettle(l) PROVE Single'
  <2>1. UNCHANGED <<ui, screen, loop, doubled>>
    BY <1>3 DEF ServeQuote, ServeVerify, ServeSettle, Serve
  <2>2. QED BY <2>1 DEF Single, Shows, Running
<1>4. CASE ScreenFollows
  <2>1. SUFFICES ASSUME ~doubled, NEW k \in Loop, Running(k)
                 PROVE  Shows(k)' /\ \A m \in Loop : Running(m)' => m = k
    BY <1>4 DEF Single, ScreenFollows, Running
  <2>2. Shows(k) /\ loop[k].at \in LoopAt /\ \A m \in Loop : Running(m) => m = k
    BY <1>0, <2>1 DEF Single, Types
  <2>3. ui.phase \in {"quoting", "awaiting_signature", "signing", "verifying", "escalating", "settling"}
    BY <2>1, <2>2 DEF Shows, Running, LoopAt
  <2>4. screen' = "running"
    BY <1>4, <2>3 DEF ScreenFollows, screenOf, isTerminal, isBusy
  <2>5. QED BY <1>4, <2>2, <2>4 DEF ScreenFollows, Shows, Running
<1>5. CASE Reset
  <2>1. doubled \/ \A l \in Loop : ~Running(l)
    BY <1>5 DEF Reset, isTerminal, Single, Shows
  <2>2. QED BY <1>5, <2>1 DEF Reset, Single, Running
<1>6. CASE Reload
  <2>1. ASSUME NEW l \in Loop PROVE ~Running(l)'
    <3>1. CASE Running(l)
      <4>1. loop'[l].at = "done"
        BY <1>0, <1>6, <3>1 DEF Reload, Types
      <4>2. QED BY <4>1 DEF Running
    <3>2. CASE ~Running(l)
      <4>1. loop'[l] = loop[l]
        BY <1>6, <3>2 DEF Reload
      <4>2. QED BY <3>2, <4>1 DEF Running
    <3>3. QED BY <3>1, <3>2
  <2>2. QED BY <2>1 DEF Single
<1>7. CASE UNCHANGED vars
  BY <1>7 DEF vars, Single, Shows, Running
<1>8. QED BY <1>1, <1>2, <1>3, <1>4, <1>5, <1>6, <1>7 DEF Next

\* As long as no loop is started beside another one, the wallet is opened for the
\* group and the round on display, whatever the user and the network do meanwhile.
THEOREM ShownTheorem == Spec => []ShownIsSigned
<1>1. Spec => []Single
  BY SingleInit, SingleInvStep, StepInvariance, PTL DEF Spec
<1>2. Single => ShownIsSigned
  BY DEF Single, Shows, ShownIsSigned, Running
<1>3. QED BY <1>1, <1>2, PTL

--------------------------------------------------------------------------------
(* What the screens say. *)

\* The groups a loop and its run are at, and when a run can have been paid.
Honest(l) ==
    LET at == loop[l].at
        group == loop[l].group
        answer == request[l].answer
    IN
    /\ request[l].kind = "quote" /\ answer = "none" => run[l].phase = "none"
    /\ l \in paid => request[l].kind = "settle" /\ run[l].phase \in {"settled", "aborted"}
    /\ at = "quoting" /\ answer = "group" => request[l].group = 1
    /\ at \in {"pausing", "signing"} => request[l].kind \in {"quote", "verify"}
    /\ at \in {"pausing", "signing", "verifying", "aborting", "escalating"} => loop[l].round = group
    /\ at \in {"verifying", "aborting", "escalating"} => request[l].kind = "verify"
    /\ at = "verifying" =>
        /\ answer \in {"none", "ready", "abort"} => request[l].group = group
        /\ answer = "ready" => run[l].round = group
        /\ answer = "abort" => run[l].phase = "aborted"
        /\ answer = "group" => request[l].group = group + 1
    /\ at = "aborting" => request[l].group = group /\ run[l].phase = "aborted"
    /\ at = "escalating" => request[l].group = group + 1
    /\ at = "settling" => run[l].round = group
    /\ (at = "settling" /\ answer = "settled") \/ at = "holding" =>
        request[l].group = group /\ l \in paid /\ run[l].phase = "settled"

\* What the store holds while loop l runs alone.
Holds(l) ==
    /\ loop[l].at = "quoting" => ui.run = None /\ ui.verdicts = Nothing /\ ui.ledger = Nothing
    /\ loop[l].at # "quoting" =>
        /\ ui.run = l /\ ui.round = loop[l].group /\ ui.ledger = From(l, loop[l].group)
        /\ ui.verdicts = From(l, IF loop[l].at \in {"settling", "holding"} THEN loop[l].group
                                 ELSE loop[l].group - 1)

\* The phases in which a loop is at work.
AtWork == {"quoting", "awaiting_signature", "signing", "verifying", "escalating", "settling"}

\* What the store says of a run that ended.
Told ==
    /\ ui.phase = "aborted" =>
          ui.run \in Loop /\ ui.run \notin paid /\ run[ui.run].phase = "aborted"
    /\ ui.phase \in {"settled", "aborted"} =>
          ui.verdicts = From(ui.run, ui.round) /\ ui.ledger = ui.verdicts

\* A run that is on display runs; one that ended is told by its last screen.
OneStory ==
    ~doubled =>
        /\ \A l \in Loop : Running(l) => Holds(l)
        /\ ui.phase \in AtWork => \E l \in Loop : Running(l)
        /\ Told

SettledIsSettled == ui.phase = "settled" => ui.tx \in paid /\ run[ui.tx].phase = "settled"

HonestInv == StepInv /\ \A l \in Loop : Honest(l)

TruthInv == HonestInv /\ Single /\ OneStory /\ SettledIsSettled /\ ui.error # "exhausted"

\* The loops a step does not touch stay as they are.
LEMMA OthersStayHonest ==
    ASSUME HonestInv, NEW l \in Loop, OnlyOf(l), Honest(l)',
           \A m \in Loop : m # l => (m \in paid' <=> m \in paid)
    PROVE  \A m \in Loop : Honest(m)'
<1> TAKE m \in Loop
<1>1. CASE m = l
  BY <1>1
<1>2. CASE m # l
  <2>1. Honest(m) /\ loop'[m] = loop[m] /\ request'[m] = request[m] /\ run'[m] = run[m]
        /\ (m \in paid' <=> m \in paid)
    BY <1>2 DEF HonestInv, OnlyOf
  <2>2. QED BY <2>1 DEF Honest
<1>3. QED BY <1>1, <1>2

LEMMA HonestInit == Init => HonestInv
<1>1. ASSUME Init, NEW l \in Loop PROVE Honest(l)
  <2>1. loop[l].at = "unused" /\ request[l].kind = "none" /\ l \notin paid
    BY <1>1 DEF Init
  <2>2. QED BY <2>1 DEF Honest
<1>2. QED BY <1>1, StepInvInit DEF HonestInv

LEMMA StartHonest ==
    ASSUME HonestInv, NEW l \in Loop, Start(l)
    PROVE  \A m \in Loop : Honest(m)'
<1>1. Types /\ InStep(l) /\ Honest(l)
  BY DEF HonestInv, StepInv
<1>2. /\ loop'[l].at = "quoting" /\ OnlyOf(l) /\ run'[l].phase = "none" /\ paid' = paid
      /\ request'[l].kind = "quote" /\ request'[l].answer = "none"
  BY <1>1 DEF Start, GoTo, Post, Types, InStep, OnlyOf
<1>3. l \notin paid'
  BY <1>1, <1>2 DEF Start, InStep, Honest
<1>4. Honest(l)'
  BY <1>2, <1>3 DEF Honest
<1>5. QED BY <1>2, <1>4, OthersStayHonest

\* A loop that moves on its own, and one that takes up the next group.
LEMMA Moves ==
    ASSUME Types, NEW l \in Loop, NEW at \in LoopAt, GoTo(l, at)
    PROVE  /\ loop'[l].at = at /\ loop'[l].group = loop[l].group /\ loop'[l].round = loop[l].round
           /\ \A m \in Loop : m # l => loop'[m] = loop[m]
BY DEF GoTo, Types

LEMMA TakesUp ==
    ASSUME Types, NEW l \in Loop, NEW round, TakeUp(l, round)
    PROVE  /\ loop'[l].at = "pausing" /\ loop'[l].group = request[l].group
           /\ loop'[l].round = round
           /\ \A m \in Loop : m # l => loop'[m] = loop[m]
BY DEF TakeUp, Types

LEMMA Posts ==
    ASSUME Types, NEW l \in Loop, NEW kind, NEW group, Post(l, kind, group)
    PROVE  /\ request'[l].kind = kind /\ request'[l].group = group /\ request'[l].answer = "none"
           /\ \A m \in Loop : m # l => request'[m] = request[m]
BY DEF Post, Types

\* An escalation comes before the hook's own ceiling: the orchestrator's is lower.
LEMMA RoundLeft ==
    ASSUME HonestInv, NEW l \in Loop, loop[l].at = "escalating"
    PROVE  loop[l].round \in Nat /\ loop[l].round < MAX_ROUNDS
           /\ request[l].group = loop[l].round + 1
<1>1. /\ request[l].group \in 0 .. OrchestratorRounds
      /\ loop[l].round \in 0 .. MAX_ROUNDS /\ loop[l].group \in 0 .. OrchestratorRounds
  BY DEF HonestInv, StepInv, Types
<1>2. request[l].group = loop[l].group + 1 /\ loop[l].round = loop[l].group
  BY DEF HonestInv, Honest
<1>3. QED BY <1>1, <1>2, WebAssumption DEF MAX_ROUNDS

LEMMA LoopHonest ==
    ASSUME HonestInv, NEW l \in Loop, Timers(l) \/ Arrivals(l) \/ Wallet(l)
    PROVE  \A m \in Loop : Honest(m)'
<1>1. Types /\ InStep(l) /\ Honest(l)
  BY DEF HonestInv, StepInv
<1>2. SUFFICES OnlyOf(l) /\ Honest(l)' /\ paid' = paid
  BY OthersStayHonest
<1>3. ASSUME NEW at \in LoopAt, GoTo(l, at), UNCHANGED <<request, run, paid>>
      PROVE  OnlyOf(l) /\ loop'[l].at = at /\ loop'[l].group = loop[l].group
             /\ loop'[l].round = loop[l].round
  BY <1>1, <1>3, Moves DEF OnlyOf
<1>4. CASE QuoteArrives(l)
  <2>1. loop'[l].at = "pausing" /\ loop'[l].group = request[l].group /\ loop'[l].round = 1 /\ OnlyOf(l)
    BY <1>1, <1>4, TakesUp DEF QuoteArrives, OnlyOf
  <2>2. request[l].kind = "quote" /\ request[l].group = 1
    BY <1>1, <1>4 DEF QuoteArrives, InStep, Honest
  <2>3. Honest(l)'
    BY <1>1, <1>4, <2>1, <2>2 DEF QuoteArrives, Honest
  <2>4. QED BY <1>4, <2>1, <2>3 DEF QuoteArrives
<1>5. CASE PauseEnds(l)
  <2>1. OnlyOf(l) /\ loop'[l].at = "signing" /\ loop'[l].group = loop[l].group
        /\ loop'[l].round = loop[l].round
    BY <1>3, <1>5 DEF PauseEnds, LoopAt
  <2>2. QED BY <1>1, <1>5, <2>1 DEF PauseEnds, Honest
<1>6. CASE WalletSigns(l)
  <2>1. /\ loop'[l].at = "verifying" /\ loop'[l].group = loop[l].group
        /\ loop'[l].round = loop[l].round
        /\ request'[l].kind = "verify" /\ request'[l].group = loop[l].group
        /\ request'[l].answer = "none" /\ OnlyOf(l)
    BY <1>1, <1>6, Moves, Posts DEF WalletSigns, LoopAt, OnlyOf
  <2>2. l \notin paid
    BY <1>1, <1>6 DEF WalletSigns, Honest
  <2>3. QED BY <1>1, <1>6, <2>1, <2>2 DEF WalletSigns, Honest
<1>7. CASE AbortArrives(l)
  <2>1. OnlyOf(l) /\ loop'[l].at = "aborting" /\ loop'[l].group = loop[l].group
        /\ loop'[l].round = loop[l].round
    BY <1>3, <1>7 DEF AbortArrives, LoopAt
  <2>2. QED BY <1>1, <1>7, <2>1 DEF AbortArrives, Honest
<1>8. CASE EscalationArrives(l)
  <2>1. OnlyOf(l) /\ loop'[l].at = "escalating" /\ loop'[l].group = loop[l].group
        /\ loop'[l].round = loop[l].round
    BY <1>3, <1>8 DEF EscalationArrives, LoopAt
  <2>2. QED BY <1>1, <1>8, <2>1 DEF EscalationArrives, Honest
<1>9. CASE NextRound(l)
  <2>1. loop[l].round < MAX_ROUNDS /\ request[l].group = loop[l].round + 1
    BY <1>9, RoundLeft DEF NextRound
  <2>2. loop'[l].at = "pausing" /\ loop'[l].group = request[l].group
        /\ loop'[l].round = loop[l].round + 1 /\ OnlyOf(l)
    BY <1>1, <1>9, <2>1, TakesUp DEF NextRound, OnlyOf
  <2>3. request[l].kind = "verify" /\ loop[l].at = "escalating"
    BY <1>1, <1>9 DEF NextRound, Honest
  <2>4. Honest(l)'
    BY <1>1, <1>9, <2>1, <2>2, <2>3 DEF NextRound, Honest
  <2>5. QED BY <1>9, <2>2, <2>4 DEF NextRound
<1>10. CASE ReadyArrives(l)
  <2>1. /\ loop'[l].at = "settling" /\ loop'[l].group = loop[l].group
        /\ request'[l].kind = "settle" /\ request'[l].answer = "none" /\ OnlyOf(l)
    BY <1>1, <1>10, Moves, Posts DEF ReadyArrives, LoopAt, OnlyOf
  <2>2. l \notin paid /\ run[l].round = loop[l].group
    BY <1>1, <1>10 DEF ReadyArrives, readyToSettle, Honest
  <2>3. QED BY <1>1, <1>10, <2>1, <2>2 DEF ReadyArrives, Honest
<1>11. CASE SettleArrives(l)
  <2>1. OnlyOf(l) /\ loop'[l].at = "holding" /\ loop'[l].group = loop[l].group
    BY <1>3, <1>11 DEF SettleArrives, LoopAt
  <2>2. QED BY <1>1, <1>11, <2>1 DEF SettleArrives, Honest
<1>12. CASE ShowAbort(l) \/ ShowSettled(l) \/ WalletDeclines(l) \/ CallFails(l)
  <2>1. GoTo(l, "done") /\ UNCHANGED <<request, run, paid>>
    BY <1>12 DEF ShowAbort, ShowSettled, WalletDeclines, CallFails
  <2>2. OnlyOf(l) /\ loop'[l].at = "done"
    BY <1>3, <2>1 DEF LoopAt
  <2>3. QED BY <1>1, <2>1, <2>2 DEF Honest
<1>13. QED
  BY <1>4, <1>5, <1>6, <1>7, <1>8, <1>9, <1>10, <1>11, <1>12 DEF Timers, Arrivals, Wallet

LEMMA ServeHonest ==
    ASSUME HonestInv, NEW l \in Loop, ServeQuote(l) \/ ServeVerify(l) \/ ServeSettle(l)
    PROVE  \A m \in Loop : Honest(m)'
<1>1. Types /\ InStep(l) /\ Honest(l) /\ run[l].round \in Nat
  BY WebAssumption DEF HonestInv, StepInv, Types, Run
<1>2. CASE ServeQuote(l)
  <2>1. /\ Served(l, "quote") /\ paid' = paid /\ request'[l].answer \in {"group", "error"}
        /\ request'[l].answer = "group" => run'[l].round = 1
    BY <1>1, <1>2, QuoteServed
  <2>2. loop'[l] = loop[l] /\ OnlyOf(l) /\ l \notin paid
    BY <1>1, <2>1 DEF Served, Honest
  <2>3. loop[l].at \notin {"pausing", "signing", "verifying", "aborting", "escalating",
                           "settling", "holding"}
    BY <1>1, <2>1, <2>2 DEF InStep, Honest, Served
  <2>4. Honest(l)'
    BY <1>1, <2>1, <2>2, <2>3 DEF Honest, Served
  <2>5. QED BY <2>1, <2>2, <2>4, OthersStayHonest
<1>3. CASE ServeVerify(l)
  <2>1. /\ Served(l, "verify") /\ paid' = paid /\ run[l].phase = "awaiting_signature"
        /\ request'[l].answer \in {"abort", "ready", "group", "error"}
        /\ run'[l].round = IF request'[l].answer = "group" THEN run[l].round + 1 ELSE run[l].round
        /\ request'[l].answer = "abort" => run'[l].phase = "aborted"
    BY <1>1, <1>3, VerifyServed
  <2>2. loop'[l] = loop[l] /\ OnlyOf(l) /\ l \notin paid
    BY <1>1, <2>1 DEF Served, Honest
  <2>3. loop[l].at \notin {"quoting", "pausing", "signing", "aborting", "escalating", "settling",
                           "holding"}
    BY <1>1, <2>1, <2>2 DEF InStep, Honest, Served
  <2>4. loop[l].at = "verifying" => run[l].round = loop[l].group /\ loop[l].round = loop[l].group
    BY <1>1, <2>1 DEF InStep, Offered, Honest, Served
  <2>5. Honest(l)'
    BY <1>1, <2>1, <2>2, <2>3, <2>4 DEF Honest, Served
  <2>6. QED BY <2>1, <2>2, <2>5, OthersStayHonest
<1>4. CASE ServeSettle(l)
  <2>1. /\ Served(l, "settle") /\ run[l].phase = "verifying"
        /\ run'[l].round = run[l].round /\ run'[l].phase \in {"settled", "aborted"}
        /\ request'[l].answer \in {"settled", "error"}
        /\ request'[l].answer = "settled" => l \in paid' /\ run'[l].phase = "settled"
        /\ paid \subseteq paid' /\ paid' \subseteq paid \union {l}
    BY <1>1, <1>4, SettleServed
  <2>2. loop'[l] = loop[l] /\ OnlyOf(l)
    BY <2>1 DEF Served
  <2>3. loop[l].at \notin {"quoting", "pausing", "signing", "verifying", "aborting", "escalating",
                           "holding"}
    BY <1>1, <2>1 DEF InStep, Honest, Served
  <2>4. Honest(l)'
    BY <1>1, <2>1, <2>2, <2>3 DEF Honest, Served
  <2>5. QED BY <2>1, <2>2, <2>4, OthersStayHonest
<1>5. QED BY <1>2, <1>3, <1>4

LEMMA HonestStep == HonestInv /\ [Next]_vars => HonestInv'
<1> SUFFICES ASSUME HonestInv, [Next]_vars PROVE HonestInv'
  OBVIOUS
<1>1. StepInv'
  BY StepInvStep DEF HonestInv
<1>2. ASSUME UNCHANGED <<loop, request, run, paid>> PROVE \A l \in Loop : Honest(l)'
  BY <1>2 DEF HonestInv, Honest
<1>3. CASE Reload
  <2>1. ASSUME NEW l \in Loop PROVE Honest(l)'
    <3>1. loop'[l] = loop[l] \/ loop'[l].at = "done"
      BY <1>3 DEF Reload, HonestInv, StepInv, Types
    <3>2. Honest(l) /\ UNCHANGED <<request, run, paid>>
      BY <1>3 DEF Reload, HonestInv
    <3>3. QED BY <3>1, <3>2 DEF Honest
  <2>2. QED BY <1>1, <2>1 DEF HonestInv
<1>4. CASE ScreenFollows \/ Reset \/ UNCHANGED vars
  BY <1>1, <1>2, <1>4 DEF ScreenFollows, Reset, vars, HonestInv
<1>5. QED
  BY <1>1, <1>3, <1>4, StartHonest, LoopHonest, ServeHonest DEF Next, HonestInv

--------------------------------------------------------------------------------
\* A loop that runs alone leaves the store in step with itself, or the end of its
\* run told.
LEMMA LoopTells ==
    ASSUME HonestInv, NEW l \in Loop, Shows(l), Holds(l), Timers(l) \/ Arrivals(l) \/ Wallet(l)
    PROVE  /\ Running(l)' => Holds(l)'
           /\ ui'.phase \in AtWork => Running(l)'
           /\ Told'
<1>1. /\ Types /\ InStep(l) /\ Honest(l)
      /\ ui = [ui EXCEPT !.phase = ui.phase] /\ DOMAIN ui = DOMAIN initial
  BY DEF HonestInv, StepInv, Types, Store, initial
<1> DEFINE Done == (Running(l)' => Holds(l)') /\ (ui'.phase \in AtWork => Running(l)') /\ Told'
<1>2. ASSUME NEW phase \in AtWork, begin(phase),
             NEW at \in LoopAt \ {"quoting", "unused", "done"}, GoTo(l, at),
             loop[l].at \notin {"quoting", "settling", "holding"}, at \notin {"settling", "holding"}
      PROVE  Done
  <2>1. loop'[l].at = at /\ loop'[l].group = loop[l].group
    BY <1>1, <1>2, Moves
  <2>2. /\ ui'.phase = phase /\ ui'.run = ui.run /\ ui'.round = ui.round
        /\ ui'.verdicts = ui.verdicts /\ ui'.ledger = ui.ledger
    BY <1>1, <1>2 DEF begin, initial
  <2>3. Holds(l)'
    BY <1>2, <2>1, <2>2 DEF Holds
  <2>4. QED BY <1>2, <2>1, <2>2, <2>3 DEF Running, Told, AtWork
<1>3. ASSUME NEW round, TakeUp(l, round), ui' = applySignatureRequest(l, request[l].group)
      PROVE  Done
  <2>1. loop'[l].at = "pausing" /\ loop'[l].group = request[l].group
    BY <1>1, <1>3, TakesUp
  <2>2. /\ ui'.phase = "awaiting_signature" /\ ui'.run = l /\ ui'.round = request[l].group
        /\ ui'.verdicts = From(l, request[l].group - 1)
        /\ ui'.ledger = From(l, request[l].group)
    BY <1>1, <1>3 DEF applySignatureRequest, initial
  <2>3. Holds(l)'
    BY <2>1, <2>2 DEF Holds
  <2>4. QED BY <2>1, <2>2, <2>3 DEF Running, Told
<1>4. CASE QuoteArrives(l)
  BY <1>3, <1>4 DEF QuoteArrives
<1>5. CASE PauseEnds(l)
  BY <1>2, <1>5 DEF PauseEnds, LoopAt, AtWork
<1>6. CASE WalletSigns(l)
  BY <1>2, <1>6 DEF WalletSigns, LoopAt, AtWork
<1>7. CASE EscalationArrives(l)
  BY <1>2, <1>7 DEF EscalationArrives, LoopAt, AtWork
<1>8. CASE AbortArrives(l)
  <2>1. loop'[l].at = "aborting" /\ loop'[l].group = loop[l].group /\ ui' = ui
    BY <1>1, <1>8, Moves DEF AbortArrives, LoopAt
  <2>2. ui.phase = "verifying"
    BY <1>8 DEF AbortArrives, Shows
  <2>3. Holds(l)'
    BY <1>8, <2>1 DEF AbortArrives, Holds
  <2>4. QED BY <2>1, <2>2, <2>3 DEF Running, Told
<1>9. CASE NextRound(l)
  <2>1. loop[l].round < MAX_ROUNDS
    BY <1>9, RoundLeft DEF NextRound
  <2>2. QED BY <1>3, <1>9, <2>1 DEF NextRound
<1>10. CASE ReadyArrives(l)
  <2>1. loop'[l].at = "settling" /\ loop'[l].group = loop[l].group
    BY <1>1, <1>10, Moves DEF ReadyArrives, LoopAt
  <2>2. request[l].group = loop[l].group
    BY <1>1, <1>10 DEF ReadyArrives, readyToSettle, Honest
  <2>3. /\ ui'.phase = "settling" /\ ui'.run = ui.run /\ ui'.round = ui.round
        /\ ui'.verdicts = From(l, loop[l].group) /\ ui'.ledger = From(l, loop[l].group)
    BY <1>1, <1>10, <2>2 DEF ReadyArrives, applyVerdicts, initial
  <2>4. ui.run = l /\ ui.round = loop[l].group
    BY <1>10 DEF ReadyArrives, Holds
  <2>5. Holds(l)'
    BY <2>1, <2>3, <2>4 DEF Holds
  <2>6. QED BY <2>1, <2>3, <2>5 DEF Running, Told
<1>11. CASE SettleArrives(l)
  <2>1. loop'[l].at = "holding" /\ loop'[l].group = loop[l].group /\ ui' = ui
    BY <1>1, <1>11, Moves DEF SettleArrives, LoopAt
  <2>2. ui.phase = "settling"
    BY <1>11 DEF SettleArrives, Shows
  <2>3. Holds(l)'
    BY <1>11, <2>1 DEF SettleArrives, Holds
  <2>4. QED BY <2>1, <2>2, <2>3 DEF Running, Told
<1>12. CASE ShowAbort(l)
  <2>1. ~Running(l)'
    BY <1>1, <1>12, Moves DEF ShowAbort, LoopAt, Running
  <2>2. /\ request[l].group = loop[l].group /\ run[l].phase = "aborted" /\ l \notin paid
        /\ ui.run = l /\ ui.round = loop[l].group
    BY <1>1, <1>12 DEF ShowAbort, Honest, Holds
  <2>3. /\ ui'.phase = "aborted" /\ ui'.run = l /\ ui'.round = loop[l].group
        /\ ui'.verdicts = From(l, loop[l].group) /\ ui'.ledger = From(l, loop[l].group)
    BY <1>1, <1>12, <2>2 DEF ShowAbort, applyAbort, initial
  <2>4. Told'
    BY <1>12, <2>2, <2>3 DEF ShowAbort, Told
  <2>5. QED BY <2>1, <2>3, <2>4 DEF AtWork
<1>13. CASE ShowSettled(l)
  <2>1. ~Running(l)'
    BY <1>1, <1>13, Moves DEF ShowSettled, LoopAt, Running
  <2>2. request[l].group = loop[l].group /\ ui.run = l /\ ui.round = loop[l].group
    BY <1>1, <1>13 DEF ShowSettled, Honest, Holds
  <2>3. /\ ui'.phase = "settled" /\ ui'.run = l /\ ui'.round = loop[l].group
        /\ ui'.verdicts = From(l, loop[l].group) /\ ui'.ledger = From(l, loop[l].group)
    BY <1>1, <1>13, <2>2 DEF ShowSettled, applySettlement, initial
  <2>4. QED BY <2>1, <2>3 DEF Told, AtWork
<1>14. CASE WalletDeclines(l) \/ CallFails(l)
  <2>1. ~Running(l)'
    BY <1>1, <1>14, Moves DEF WalletDeclines, CallFails, LoopAt, Running
  <2>2. ui'.phase = "error"
    BY <1>1, <1>14 DEF WalletDeclines, CallFails, fail, initial
  <2>3. QED BY <2>1, <2>2 DEF Told, AtWork
<1>15. QED
  BY <1>4, <1>5, <1>6, <1>7, <1>8, <1>9, <1>10, <1>11, <1>12, <1>13, <1>14
  DEF Timers, Arrivals, Wallet


\* Serving a request changes no run that ended.
LEMMA ServeLeavesEnded ==
    ASSUME HonestInv, NEW l \in Loop, ServeQuote(l) \/ ServeVerify(l) \/ ServeSettle(l),
           NEW m \in Loop, run[m].phase \in {"settled", "aborted"}
    PROVE  run'[m] = run[m] /\ (m \in paid' <=> m \in paid)
<1>1. Types /\ InStep(l) /\ Honest(l)
  BY DEF HonestInv, StepInv
<1>2. CASE ServeQuote(l)
  <2>1. Served(l, "quote") /\ paid' = paid
    BY <1>1, <1>2, QuoteServed
  <2>2. run[l].phase = "none"
    BY <1>1, <2>1 DEF Served, Honest
  <2>3. QED BY <2>1, <2>2 DEF Served, OnlyOf
<1>3. CASE ServeVerify(l)
  <2>1. Served(l, "verify") /\ paid' = paid /\ run[l].phase = "awaiting_signature"
    BY <1>1, <1>3, VerifyServed
  <2>2. QED BY <2>1 DEF Served, OnlyOf
<1>4. CASE ServeSettle(l)
  <2>1. /\ Served(l, "settle") /\ run[l].phase = "verifying"
        /\ paid \subseteq paid' /\ paid' \subseteq paid \union {l}
    BY <1>1, <1>4, SettleServed
  <2>2. QED BY <2>1 DEF Served, OnlyOf
<1>5. QED BY <1>2, <1>3, <1>4

LEMMA ServeUnseen ==
    ASSUME Types, NEW l \in Loop, ServeQuote(l) \/ ServeVerify(l) \/ ServeSettle(l)
    PROVE  UNCHANGED <<ui, screen, loop, doubled>>
BY DEF ServeQuote, ServeVerify, ServeSettle, Serve

\* As long as no loop is started beside another one, the store tells one story.
LEMMA StoryStep ==
    ASSUME HonestInv, Single, OneStory, [Next]_vars
    PROVE  OneStory'
<1>0. Types
  BY DEF HonestInv, StepInv
<1>1. SUFFICES ASSUME ~doubled'
      PROVE  /\ \A l \in Loop : Running(l)' => Holds(l)'
             /\ ui'.phase \in AtWork => \E l \in Loop : Running(l)'
             /\ Told'
  BY DEF OneStory
<1>2. ASSUME NEW l \in Loop, Start(l)
      PROVE  /\ \A m \in Loop : Running(m)' => Holds(m)'
             /\ Running(l)' /\ Told'
  <2>1. /\ loop'[l].at = "quoting" /\ \A m \in Loop : m # l => loop'[m] = loop[m]
    BY <1>0, <1>2, Moves DEF Start, LoopAt
  <2>2. \A m \in Loop : ~Running(m)
    BY <1>1, <1>2 DEF Start
  <2>3. \A m \in Loop : m # l => ~Running(m)'
    BY <2>1, <2>2 DEF Running
  <2>4. /\ ui'.phase = "quoting" /\ ui'.run = None
        /\ ui'.verdicts = Nothing /\ ui'.ledger = Nothing
    BY <1>2 DEF Start, beginQuote, initial
  <2>5. QED BY <2>1, <2>3, <2>4 DEF Holds, Running, Told
<1>3. ASSUME NEW l \in Loop, Timers(l) \/ Arrivals(l) \/ Wallet(l)
      PROVE  /\ \A m \in Loop : Running(m)' => Holds(m)'
             /\ ui'.phase \in AtWork => Running(l)'
             /\ Told'
  <2>1. Running(l) /\ ~doubled
    BY <1>1, <1>3
    DEF Timers, Arrivals, Wallet, PauseEnds, ShowAbort, NextRound, ShowSettled, CallFails,
        QuoteArrives, AbortArrives, EscalationArrives, ReadyArrives, SettleArrives,
        WalletSigns, WalletDeclines, Running
  <2>2. Shows(l) /\ Holds(l) /\ \A m \in Loop : m # l => ~Running(m)
    BY <2>1 DEF Single, OneStory
  <2>3. /\ Running(l)' => Holds(l)'
        /\ ui'.phase \in AtWork => Running(l)'
        /\ Told'
    BY <1>3, <2>2, LoopTells
  <2>4. \A m \in Loop : m # l => loop'[m] = loop[m]
    BY <1>0, <1>3, <2>2, LoopShows
  <2>5. \A m \in Loop : m # l => ~Running(m)'
    BY <2>2, <2>4 DEF Running
  <2>6. QED BY <2>3, <2>5
<1>4. ASSUME NEW l \in Loop, ServeQuote(l) \/ ServeVerify(l) \/ ServeSettle(l)
      PROVE  OneStory'
  <2>1. UNCHANGED <<ui, screen, loop, doubled>>
    BY <1>0, <1>4, ServeUnseen
  <2>2. Told
    BY <1>1, <2>1 DEF OneStory
  <2>3. Told'
    BY <1>4, <2>1, <2>2, ServeLeavesEnded DEF Told
  <2>4. QED BY <1>1, <2>1, <2>3 DEF OneStory, Holds, Running
<1>5. ASSUME UNCHANGED <<ui, loop, run, paid, doubled>> PROVE OneStory'
  BY <1>5 DEF OneStory, Holds, Running, Told
<1>6. CASE Reset
  <2>1. \A l \in Loop : ~Running(l)
    BY <1>1, <1>6 DEF Reset, isTerminal, Single, Shows
  <2>2. ui'.phase = "idle"
    BY <1>6 DEF Reset, initial
  <2>3. QED BY <1>6, <2>1, <2>2 DEF Reset, Running, Told, AtWork
<1>7. CASE Reload
  <2>1. ASSUME NEW l \in Loop PROVE ~Running(l)'
    <3>1. loop'[l] = IF Running(l) THEN [loop[l] EXCEPT !.at = "done"] ELSE loop[l]
      BY <1>7 DEF Reload
    <3>2. loop'[l].at = IF Running(l) THEN "done" ELSE loop[l].at
      BY <1>0, <3>1 DEF Types
    <3>3. QED BY <3>2 DEF Running
  <2>2. ui'.phase = "idle"
    BY <1>7 DEF Reload, initial
  <2>3. QED BY <2>1, <2>2 DEF Told, AtWork
<1>8. QED
  BY <1>1, <1>2, <1>3, <1>4, <1>5, <1>6, <1>7 DEF Next, ScreenFollows, vars, OneStory

\* The settled screen names a run that settled, and no screen an escalation limit.
LEMMA SettledStep ==
    ASSUME HonestInv, SettledIsSettled, ui.error # "exhausted", [Next]_vars
    PROVE  SettledIsSettled' /\ ui'.error # "exhausted"
<1>0. Types /\ DOMAIN ui = DOMAIN initial
  BY DEF HonestInv, StepInv, Types, Store, initial
<1>1. ASSUME ui'.phase # "settled", ui'.error \in {ui.error, "none", "declined", "call"}
      PROVE  SettledIsSettled' /\ ui'.error # "exhausted"
  BY <1>1 DEF SettledIsSettled
<1>2. ASSUME NEW l \in Loop, ShowSettled(l)
      PROVE  SettledIsSettled' /\ ui'.error # "exhausted"
  <2>1. l \in paid /\ run[l].phase = "settled"
    BY <1>2 DEF ShowSettled, HonestInv, Honest
  <2>2. ui'.tx = l /\ ui'.error = ui.error
    BY <1>0, <1>2 DEF ShowSettled, applySettlement, initial
  <2>3. QED BY <1>2, <2>1, <2>2 DEF ShowSettled, SettledIsSettled
<1>3. ASSUME NEW l \in Loop, NextRound(l)
      PROVE  SettledIsSettled' /\ ui'.error # "exhausted"
  <2>1. loop[l].round < MAX_ROUNDS
    BY <1>3, RoundLeft DEF NextRound
  <2>2. ui'.phase = "awaiting_signature" /\ ui'.error = ui.error
    BY <1>0, <1>3, <2>1 DEF NextRound, applySignatureRequest, initial
  <2>3. QED BY <1>1, <2>2
<1>4. ASSUME NEW l \in Loop, QuoteArrives(l)
      PROVE  SettledIsSettled' /\ ui'.error # "exhausted"
  <2>1. ui'.phase = "awaiting_signature" /\ ui'.error = ui.error
    BY <1>0, <1>4 DEF QuoteArrives, applySignatureRequest, initial
  <2>2. QED BY <1>1, <2>1
<1>5. ASSUME NEW phase \in Phase \ {"settled"}, begin(phase)
      PROVE  SettledIsSettled' /\ ui'.error # "exhausted"
  BY <1>0, <1>1, <1>5 DEF begin, initial
<1>6. ASSUME NEW l \in Loop, PauseEnds(l) \/ WalletSigns(l) \/ EscalationArrives(l)
      PROVE  SettledIsSettled' /\ ui'.error # "exhausted"
  BY <1>5, <1>6 DEF PauseEnds, WalletSigns, EscalationArrives, Phase
<1>7. ASSUME NEW l \in Loop, ReadyArrives(l) \/ ShowAbort(l)
      PROVE  SettledIsSettled' /\ ui'.error # "exhausted"
  <2>1. ui'.phase # "settled" /\ ui'.error = ui.error
    BY <1>0, <1>7 DEF ReadyArrives, ShowAbort, applyVerdicts, applyAbort, initial
  <2>2. QED BY <1>1, <2>1
<1>8. ASSUME NEW l \in Loop, WalletDeclines(l) \/ CallFails(l)
      PROVE  SettledIsSettled' /\ ui'.error # "exhausted"
  <2>1. ui'.phase = "error" /\ ui'.error \in {"declined", "call"}
    BY <1>0, <1>8 DEF WalletDeclines, CallFails, fail, initial
  <2>2. QED BY <1>1, <2>1
<1>9. ASSUME UNCHANGED <<ui, run, paid>>
      PROVE  SettledIsSettled' /\ ui'.error # "exhausted"
  BY <1>9 DEF SettledIsSettled
<1>10. ASSUME NEW l \in Loop, ServeQuote(l) \/ ServeVerify(l) \/ ServeSettle(l)
       PROVE  SettledIsSettled' /\ ui'.error # "exhausted"
  <2>1. ui' = ui
    BY <1>0, <1>10, ServeUnseen
  <2>2. ASSUME ui.phase = "settled" PROVE ui.tx \in paid' /\ run'[ui.tx].phase = "settled"
    <3>1. ui.tx \in Loop /\ ui.tx \in paid /\ run[ui.tx].phase = "settled"
      BY <1>0, <2>2 DEF SettledIsSettled, Types
    <3>2. QED BY <1>10, <3>1, ServeLeavesEnded
  <2>3. QED BY <2>1, <2>2 DEF SettledIsSettled
<1>11. ASSUME ui' = initial \/ beginQuote
       PROVE  SettledIsSettled' /\ ui'.error # "exhausted"
  <2>1. ui'.phase # "settled" /\ ui'.error = "none"
    BY <1>11 DEF initial, beginQuote
  <2>2. QED BY <1>1, <2>1
<1>12. ASSUME NEW l \in Loop, Timers(l) \/ Arrivals(l) \/ Wallet(l)
       PROVE  SettledIsSettled' /\ ui'.error # "exhausted"
  BY <1>2, <1>3, <1>4, <1>6, <1>7, <1>8, <1>9, <1>12
  DEF Timers, Arrivals, Wallet, AbortArrives, SettleArrives
<1>13. QED
  BY <1>9, <1>10, <1>11, <1>12 DEF Next, Start, ScreenFollows, Reset, Reload, vars

\* What the panel highlights while it shows the ledger of the present round.
LEMMA PanelOfTheRound ==
    ASSUME Types, NEW l \in Loop, ui.ledger = From(l, ui.round), ui.round \in 0 .. OrchestratorRounds
    PROVE  /\ SpendLedger.highlighted \subseteq Older .. Listed - 1
           /\ Listed = 3 * ui.round => SpendLedger.highlighted = Older .. Listed - 1
<1>1. CASE ui.round = 0
  <2>1. Listed = 0
    BY <1>1 DEF From, Listed
  <2>2. 0 .. Listed - 1 = {} /\ \A n \in Nat : n .. Listed - 1 = {}
    BY <2>1
  <2>3. Older = 0
    BY <1>1 DEF From, Older
  <2>4. QED BY <2>2, <2>3 DEF SpendLedger
<1>2. CASE ui.round # 0
  <2> DEFINE g == ui.round
             held == run[l].decisions
  <2>1. g \in 1 .. OrchestratorRounds /\ g \in Nat /\ g - 1 \in 0 .. OrchestratorRounds
    BY <1>2, WebAssumption
  <2>2. ui.ledger = [of |-> l, round |-> g] /\ ui.ledger # Nothing
    BY <1>2, WebAssumption DEF From, Nothing
  <2>3. Listed = held[g] /\ Older = held[g - 1]
    BY <2>2 DEF Listed, Older
  <2>4. held \in Decisions
    BY DEF Types, Run
  <2>5. /\ held[g] \in Nat /\ held[g - 1] \in Nat
        /\ held[g] <= 3 * g /\ held[g] <= held[g - 1] + 3 /\ held[g - 1] <= 3 * (g - 1)
    <3>1. /\ held \in [0 .. OrchestratorRounds -> Nat] /\ held[0] = 0
          /\ \A n \in 1 .. OrchestratorRounds : held[n] <= 3 * n /\ held[n] <= held[n - 1] + 3
      BY <2>4 DEF Decisions
    <3>2. held[g] \in Nat /\ held[g - 1] \in Nat /\ held[g] <= 3 * g /\ held[g] <= held[g - 1] + 3
      BY <2>1, <3>1, WebAssumption
    <3>3. held[g - 1] <= 3 * (g - 1)
      <4>1. CASE g = 1
        BY <3>1, <4>1
      <4>2. CASE g # 1
        <5>1. g - 1 \in 1 .. OrchestratorRounds
          BY <2>1, <4>2, WebAssumption
        <5>2. QED BY <3>1, <5>1
      <4>3. QED BY <4>1, <4>2
    <3>4. QED BY <3>2, <3>3
  <2> HIDE DEF held
  <2>6. \A i \in Nat : RoundOf(i) = g <=> 3 * (g - 1) <= i /\ i < 3 * g
    BY <2>1 DEF RoundOf
  <2>7. SpendLedger.highlighted = {i \in 0 .. Listed - 1 : RoundOf(i) = g}
    BY DEF SpendLedger
  <2>8. SpendLedger.highlighted \subseteq Older .. Listed - 1
    BY <2>1, <2>3, <2>5, <2>6, <2>7
  <2>9. ASSUME Listed = 3 * g PROVE Older .. Listed - 1 \subseteq SpendLedger.highlighted
    BY <2>1, <2>3, <2>5, <2>6, <2>7, <2>9
  <2>10. QED BY <2>8, <2>9
<1>3. QED BY <1>1, <1>2

LEMMA TruthInvariance == Spec => []TruthInv
<1>1. Init => TruthInv
  <2>1. Init => OneStory /\ SettledIsSettled /\ ui.error # "exhausted"
    BY DEF Init, initial, OneStory, Running, AtWork, Told, SettledIsSettled
  <2>2. QED BY <2>1, HonestInit, SingleInit DEF TruthInv
<1>2. TruthInv /\ [Next]_vars => TruthInv'
  BY HonestStep, SingleInvStep, StoryStep, SettledStep DEF TruthInv, HonestInv
<1>3. QED BY <1>1, <1>2, PTL DEF Spec

\* However loops, resets, reloads and lost answers overlap, the settled screen names
\* a transaction that is on chain, an aborted run was not paid, and what a loop that
\* runs alone shows is of its own run and round, to the last screen; its panel
\* highlights no decision of an earlier round, and all of this one's if no check has
\* been silent.
THEOREM TruthTheorem == Spec => []ScreensTellTheTruth
<1>1. ASSUME TruthInv, ~doubled, screen = screenOf(ui.phase) PROVE TruthOfOneRun
  <2> DEFINE binding == TheBinding(ui.phase, ui.verdicts)
  <2>1. ui.phase \in Phase /\ None \notin paid /\ ui.error # "nothing was paid" /\ ui.error # "settled"
    BY <1>1, WebAssumption DEF TruthInv, HonestInv, StepInv, Types, Store
  <2>2. Told
    BY <1>1 DEF TruthInv, OneStory
  <2>3. ASSUME screen = "running"
        PROVE  /\ \/ PhaseHeading(ui.phase) = "no money moved yet"
                  \/ binding.caption \in {"no money moved", "unbound"}
                  => ui.run \notin paid
               /\ binding.lane = "answered" => CheckCard.status = "answered"
               /\ CheckCard.status = "answered" => CheckCard.answer =
                     From(ui.run, IF ui.phase = "settling" THEN ui.round ELSE ui.round - 1)
               /\ SpendLedger.ledger # Nothing => SpendLedger.ledger = From(ui.run, ui.round)
               /\ SpendLedger.highlighted \subseteq Older .. Listed - 1
               /\ Listed = 3 * ui.round => SpendLedger.highlighted = Older .. Listed - 1
    <3>1. ui.phase \in AtWork
      BY <1>1, <2>1, <2>3 DEF screenOf, isTerminal, isBusy, Phase, AtWork
    <3>2. PICK l \in Loop : Running(l)
      BY <1>1, <3>1 DEF TruthInv, OneStory
    <3>3. Shows(l) /\ Holds(l) /\ Honest(l) /\ loop[l].at \in LoopAt
      BY <1>1, <3>2 DEF TruthInv, OneStory, Single, HonestInv, StepInv, Types
    <3>4. loop[l].at = "quoting" => ui.run \notin paid
      BY <2>1, <3>3 DEF Holds
    <3>5. loop[l].at \in {"pausing", "signing", "verifying", "aborting", "escalating"} => ui.run \notin paid
      BY <3>3 DEF Holds, Honest
    <3>6. loop[l].at \in {"settling", "holding"} =>
            /\ ui.phase = "settling" /\ PhaseHeading(ui.phase) # "no money moved yet"
            /\ binding.caption = "binding"
      BY <3>3 DEF Shows, PhaseHeading, TheBinding
    <3>7. binding.lane = "answered" => ui.verdicts # Nothing
      BY <2>1 DEF TheBinding, Phase
    <3>8. CheckCard.answer = ui.verdicts /\ (CheckCard.status = "answered" <=> ui.verdicts # Nothing)
      BY DEF CheckCard, checkStatus
    <3>9. ui.phase = "settling" <=> loop[l].at \in {"settling", "holding"}
      BY <3>2, <3>3 DEF Shows, LoopAt, Running
    <3>10. ui.verdicts # Nothing =>
              ui.verdicts = From(ui.run, IF ui.phase = "settling" THEN ui.round ELSE ui.round - 1)
      BY <3>3, <3>9 DEF Holds
    <3>11. ui.ledger # Nothing => ui.ledger = From(ui.run, ui.round)
      BY <3>3 DEF Holds
    <3>12. loop[l].at \in {"quoting", "pausing", "signing", "verifying", "aborting", "escalating",
                           "settling", "holding"}
      BY <3>2, <3>3 DEF Running, LoopAt
    <3>13. /\ SpendLedger.highlighted \subseteq Older .. Listed - 1
           /\ Listed = 3 * ui.round => SpendLedger.highlighted = Older .. Listed - 1
      <4>1. CASE ui.ledger = Nothing
        <5>1. Listed = 0 /\ Older = 0
          BY <4>1 DEF Listed, Older
        <5>2. 0 .. 0 - 1 = {}
          OBVIOUS
        <5>3. QED BY <5>1, <5>2 DEF SpendLedger
      <4>2. CASE ui.ledger # Nothing
        <5>1. ui.run = l /\ ui.round = loop[l].group /\ ui.ledger = From(l, ui.round)
          BY <3>3, <4>2 DEF Holds
        <5>2. Types /\ ui.round \in 0 .. OrchestratorRounds
          BY <1>1, <5>1 DEF TruthInv, HonestInv, StepInv, Types
        <5>3. QED BY <5>1, <5>2, PanelOfTheRound
      <4>3. QED BY <4>1, <4>2
    <3>14. SpendLedger.ledger = ui.ledger
      BY DEF SpendLedger
    <3>15. QED
      BY <3>4, <3>5, <3>6, <3>7, <3>8, <3>10, <3>11, <3>12, <3>13, <3>14
  <2>4. Outcome.says = "nothing was paid" => ui.phase = "aborted"
    BY <1>1, <2>1 DEF Outcome, Settled, Aborted, Failed, screenOf, isTerminal, isBusy, Phase
  <2>5. Outcome.says \in {"settled", "nothing was paid"} =>
            /\ ui.phase \in {"settled", "aborted"}
            /\ Outcome.answer = ui.verdicts /\ Outcome.spend = ui.ledger
    BY <1>1, <2>1 DEF Outcome, Settled, Aborted, Failed, screenOf, isTerminal, isBusy, Phase
  <2>6. QED BY <2>2, <2>3, <2>4, <2>5 DEF TruthOfOneRun, Told
<1>2. ASSUME TruthInv, NEW l \in Loop, loop[l].at = "aborting"
      PROVE  l \notin paid /\ run[l].phase = "aborted"
  BY <1>2 DEF TruthInv, HonestInv, Honest
<1>3. TruthInv => ScreensTellTheTruth
  BY <1>1, <1>2 DEF TruthInv, SettledIsSettled, ScreensTellTheTruth
<1>4. QED BY <1>3, TruthInvariance, PTL
================================================================================
