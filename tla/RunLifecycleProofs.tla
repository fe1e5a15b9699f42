--------------------------- MODULE RunLifecycleProofs ---------------------------
(***************************************************************************)
(* Theorems about the run lifecycle, for any runs, requests, services and  *)
(* answers, any policy the assumptions allow and any size of the store:    *)
(* its types; the inductive invariant behind the settlement gate, which is *)
(* why a group is submitted only by consent, once, and at the tiers the    *)
(* run ended on; the refinement of the abstract settlement; the ledger;    *)
(* that settlement takes a deep verification and no other deep answer; and *)
(* the store.                                                              *)
(***************************************************************************)
EXTENDS RunLifecycle, SpendPolicyProofs, CheckAnswers, FiniteSetTheorems
----------------------------------------
(* Types. *)

\* What the fan-out brings back is a round of verdicts.
LEMMA VerdictTypes ==
    ASSUME NEW g \in Group, NEW tiers \in [Check -> Tier], NEW v \in VerdictsFor(g, tiers)
    PROVE  v \in Verdicts
<1>1. \A c \in Check : Reply(c, g, tiers) \subseteq Verdict \union {NoAnswer}
  BY LifecycleAssumption DEF Reply
<1>2. QED BY <1>1 DEF VerdictsFor, Verdicts

\* An escalated round keeps the object well formed.
LEMMA RoundTypes ==
    ASSUME NEW rec \in RunRecord, NEW v \in Verdicts, NEW tiers \in [Check -> Tier],
           NEW spent \in Nat
    PROVE  [rec EXCEPT !.verdicts = v, !.tiers = tiers, !.spent = spent,
                       !.rounds = rec.rounds + 1] \in RunRecord
<1>1. rec.rounds + 1 \in Nat
  BY DEF RunRecord
<1>2. QED BY <1>1 DEF RunRecord

\* Writing a well-formed object keeps the store's types.
LEMMA UpdateTypes ==
    ASSUME TypeOK, NEW r \in Run, NEW rec \in RunRecord, Update(r, rec)
    PROVE  /\ runs' \in [Run -> RunRecord]
           /\ store' \subseteq Run /\ newer' \in [Run -> SUBSET Run]
<1>1. newer' \in [Run -> SUBSET Run]
  BY DEF TypeOK, Update, Touch
<1>2. QED BY <1>1 DEF TypeOK, Update

\* A new request, or one that is over, has the type of a request.
LEMMA CallTypes ==
    /\ IdleCall \in Call
    /\ \A at \in Await, r \in Run, tiers \in [Check -> Tier], signed \in Group \union {NoGroup} :
           [at |-> at, run |-> r, tiers |-> tiers, signed |-> signed] \in Call
  BY LadderTypes DEF IdleCall, Call

\* The part of TypeOK that speaks of the requests.
CallsTyped ==
    /\ calls \in [Handler -> Call]
    /\ \A h \in Handler :
        /\ calls[h].at # "idle" => calls[h].run \in Run
        /\ calls[h].at = "verifying" => calls[h].signed \in Group

\* Suspending and finishing a request keep the types of the requests.
LEMMA SuspendTypes ==
    ASSUME TypeOK, NEW h \in Handler, NEW at \in Await, NEW r \in Run,
           NEW tiers \in [Check -> Tier], NEW signed \in Group \union {NoGroup},
           at = "verifying" => signed \in Group, Suspend(h, at, r, tiers, signed)
    PROVE  CallsTyped'
<1>1. [at |-> at, run |-> r, tiers |-> tiers, signed |-> signed] \in Call
  BY CallTypes
<1>2. QED BY <1>1 DEF CallsTyped, TypeOK, Suspend

\* A request that is over.
LEMMA FinishTypes ==
    ASSUME TypeOK, NEW h \in Handler, Finish(h)
    PROVE  CallsTyped'
  BY CallTypes DEF CallsTyped, TypeOK, Finish, IdleCall

\* The initial state.
LEMMA InitTypes == Init => TypeOK
<1>1. NewRun("idle", {}) \in RunRecord
  BY LadderTypes DEF NewRun, RunRecord, Phase
<1>2. QED BY <1>1, CallTypes DEF Init, TypeOK, IdleCall

\* The quote handler.
LEMMA QuoteTypes ==
    ASSUME TypeOK, NEW h \in Handler,
           (\E r \in Run : QuoteStart(h, r)) \/ QuotesFail(h) \/ QuotesArrive(h)
           \/ BuildFails(h) \/ GroupBuilt(h)
    PROVE  TypeOK'
<1>1. ASSUME NEW r \in Run, QuoteStart(h, r) PROVE TypeOK'
  <2>1. NewRun("quoting", registry) \in RunRecord
    BY LadderTypes DEF NewRun, RunRecord, Phase, TypeOK
  <2>2. store' \subseteq Run /\ newer' \in [Run -> SUBSET Run]
    BY <1>1 DEF QuoteStart, Expirable, Kept, TypeOK
  <2>3. CallsTyped'
    BY <1>1, SuspendTypes, LadderTypes DEF QuoteStart, Await
  <2>4. QED BY <1>1, <2>1, <2>2, <2>3 DEF QuoteStart, TypeOK, CallsTyped, chainVars
<1>2. ASSUME QuotesFail(h) \/ BuildFails(h) PROVE TypeOK'
  <2>1. CallsTyped'
    BY <1>2, FinishTypes DEF QuotesFail, BuildFails
  <2>2. QED BY <1>2, <2>1 DEF QuotesFail, BuildFails, TypeOK, CallsTyped, storeVars, chainVars
<1>3. ASSUME QuotesArrive(h) PROVE TypeOK'
  <2> DEFINE r == calls[h].run
  <2>1. r \in Run
    BY <1>3 DEF QuotesArrive, TypeOK
  <2>2. FeesOf(OpeningTiers) \in Nat /\ OpeningTiers \in [Check -> Tier]
    BY LadderTypes
  <2>3. runs' \in [Run -> RunRecord]
    <3>1. runs[r] \in RunRecord /\ runs \in [Run -> RunRecord]
      BY <2>1 DEF TypeOK
    <3> HIDE DEF r
    <3>2. PICK spent \in Nat, rounds \in Nat : /\ spent = runs[r].spent + FeesOf(OpeningTiers)
                                              /\ rounds = runs[r].rounds + 1
      BY <2>2, <3>1 DEF RunRecord
    <3>3. PICK rec : rec = [runs[r] EXCEPT !.tiers = OpeningTiers, !.spent = spent,
                                           !.rounds = rounds]
      OBVIOUS
    <3>4. rec \in RunRecord
      BY <2>2, <3>1, <3>3 DEF RunRecord
    <3>5. runs' = [runs EXCEPT ![r] = rec]
      <4>1. runs' = [runs EXCEPT ![r].tiers = OpeningTiers, ![r].spent = @ + FeesOf(OpeningTiers),
                                 ![r].rounds = @ + 1]
        BY <1>3 DEF QuotesArrive, r
      <4>2. QED BY <2>1, <3>1, <3>2, <3>3, <4>1 DEF RunRecord
    <3>6. QED BY <3>1, <3>4, <3>5
  <2>4. CallsTyped'
    BY <1>3, <2>1, <2>2, SuspendTypes DEF QuotesArrive, Await
  <2>5. QED BY <1>3, <2>3, <2>4 DEF QuotesArrive, TypeOK, CallsTyped, chainVars
<1>4. ASSUME GroupBuilt(h) PROVE TypeOK'
  <2> DEFINE r == calls[h].run
             g == GroupFor(r, calls[h].tiers)
             rec == [runs[r] EXCEPT !.built = g, !.signed = NoGroup,
                                    !.phase = "awaiting_signature"]
  <2>1. r \in Run
    BY <1>4 DEF GroupBuilt, TypeOK
  <2>2. g \in Group
    BY <2>1 DEF TypeOK, Call, RunRecord, GroupFor, Group
  <2>3. rec \in RunRecord
    <3>1. runs[r] \in RunRecord
      BY <2>1 DEF TypeOK
    <3>2. QED BY <2>2, <3>1 DEF RunRecord, Phase
  <2>4. Update(r, rec)
    BY <1>4 DEF GroupBuilt
  <2>5. runs' \in [Run -> RunRecord] /\ store' \subseteq Run /\ newer' \in [Run -> SUBSET Run]
    BY <2>1, <2>3, <2>4, UpdateTypes
  <2>6. CallsTyped'
    BY <1>4, FinishTypes DEF GroupBuilt
  <2>7. offered' \subseteq Group
    BY <1>4, <2>2 DEF GroupBuilt, TypeOK
  <2>8. QED BY <1>4, <2>5, <2>6, <2>7 DEF GroupBuilt, TypeOK, CallsTyped, chainVars
<1>5. QED BY <1>1, <1>2, <1>3, <1>4

\* The verify handler.
LEMMA VerifyTypes ==
    ASSUME TypeOK, NEW h \in Handler,
           (\E r \in Run, g \in Presentable : VerifyStart(h, r, g)) \/ VerifyStep(h)
    PROVE  TypeOK'
<1>1. ASSUME NEW r \in Run, NEW g \in Presentable, VerifyStart(h, r, g) PROVE TypeOK'
  <2> DEFINE rec == [runs[r] EXCEPT !.signed = g, !.phase = "verifying"]
  <2>1. g \in Group /\ runs[r].tiers \in [Check -> Tier]
    BY LifecycleAssumption DEF TypeOK, RunRecord, Presentable
  <2>2. rec \in RunRecord
    <3>1. runs[r] \in RunRecord
      BY DEF TypeOK
    <3>2. QED BY <2>1, <3>1 DEF RunRecord, Phase
  <2>3. runs' \in [Run -> RunRecord] /\ store' \subseteq Run /\ newer' \in [Run -> SUBSET Run]
    BY <1>1, <2>2, UpdateTypes DEF VerifyStart
  <2>4. CallsTyped'
    BY <1>1, <2>1, SuspendTypes DEF VerifyStart, Await
  <2>5. QED BY <1>1, <2>3, <2>4 DEF VerifyStart, TypeOK, CallsTyped, chainVars
<1>2. ASSUME VerifyStep(h) PROVE TypeOK'
  <2> DEFINE r == calls[h].run
             g == calls[h].signed
  <2>1. r \in Run /\ g \in Group /\ calls[h].tiers \in [Check -> Tier]
    BY <1>2 DEF VerifyStep, TypeOK, Call
  <2>2. PICK v \in VerdictsFor(g, calls[h].tiers) :
            \/ \E accepted \in SUBSET runs[r].externals : ExternalRefuses(h, v, accepted)
            \/ AllConfirm(h, v) \/ Escalate(h, v) \/ GiveUp(h, v)
    BY <1>2 DEF VerifyStep
  <2>3. v \in Verdicts
    BY <2>1, VerdictTypes
  <2>4. PICK accepted \in SUBSET runs[r].externals : VerifyReturns(h, v, accepted)
    BY <2>2 DEF ExternalRefuses, AllConfirm, Escalate, GiveUp
  <2>5. runs[r] \in RunRecord /\ runs[r].externals \subseteq External
    BY <2>1 DEF TypeOK, RunRecord
  <2>6. agreed' \subseteq Run \X Group \X (Check \union External)
    BY <2>1, <2>4, <2>5 DEF VerifyReturns, TypeOK
  <2>7. /\ registry' \subseteq External /\ offered' \subseteq Group
        /\ sent' \subseteq Submission /\ inFlight' \subseteq sent' /\ paid' \subseteq sent'
    BY <2>4 DEF VerifyReturns, TypeOK, chainVars
  <2>8. AbortedRun([runs[r] EXCEPT !.verdicts = v]) \in RunRecord
    BY <2>3, <2>5 DEF AbortedRun, RunRecord, Phase
  <2>9. CASE GiveUp(h, v) \/ \E acc \in SUBSET runs[r].externals : ExternalRefuses(h, v, acc)
    <3>1. Update(r, AbortedRun([runs[r] EXCEPT !.verdicts = v])) /\ Finish(h)
      BY <2>9 DEF GiveUp, ExternalRefuses
    <3>2. runs' \in [Run -> RunRecord] /\ store' \subseteq Run
          /\ newer' \in [Run -> SUBSET Run]
      BY <2>1, <2>8, <3>1, UpdateTypes
    <3>3. CallsTyped'
      BY <3>1, FinishTypes
    <3>4. QED BY <2>6, <2>7, <3>2, <3>3 DEF TypeOK, CallsTyped
  <2>10. CASE AllConfirm(h, v)
    <3>1. runs' \in [Run -> RunRecord] /\ store' \subseteq Run
          /\ newer' \in [Run -> SUBSET Run]
      BY <2>1, <2>3, <2>5, <2>10 DEF AllConfirm, TypeOK, RunRecord
    <3>2. CallsTyped'
      BY <2>10, FinishTypes DEF AllConfirm
    <3>3. QED BY <2>6, <2>7, <3>1, <3>2 DEF TypeOK, CallsTyped
  <2>11. CASE Escalate(h, v)
    <3> DEFINE tiers == PlannedTiers(v, runs[r].spent, runs[r].tiers)
    <3>1. tiers \in [Check -> Tier] /\ SpentAfterPlan(v, runs[r].spent) \in Nat
      BY <2>3, <2>5, PlanTypes DEF RunRecord
    <3>2. runs' = [runs EXCEPT ![r].verdicts = v, ![r].tiers = tiers,
                               ![r].spent = SpentAfterPlan(v, @), ![r].rounds = @ + 1]
      BY <2>11 DEF Escalate
    <3>3. runs' \in [Run -> RunRecord]
      <4> DEFINE rec == [runs[r] EXCEPT !.verdicts = v, !.tiers = tiers,
                                        !.spent = SpentAfterPlan(v, runs[r].spent),
                                        !.rounds = runs[r].rounds + 1]
      <4>1. rec \in RunRecord
        BY <2>3, <2>5, <3>1, RoundTypes
      <4>2. runs \in [Run -> RunRecord]
        BY DEF TypeOK
      <4>3. runs' = [runs EXCEPT ![r] = rec]
        BY <2>1, <2>5, <3>2, <4>2 DEF RunRecord
      <4>4. QED BY <2>1, <4>1, <4>2, <4>3
    <3>4. CallsTyped'
      BY <2>1, <2>11, <3>1, SuspendTypes DEF Escalate, Await
    <3>5. store' \subseteq Run /\ newer' \in [Run -> SUBSET Run]
      BY <2>11 DEF Escalate, TypeOK
    <3>6. QED BY <2>6, <2>7, <3>3, <3>4, <3>5 DEF TypeOK, CallsTyped
  <2>12. QED BY <2>2, <2>9, <2>10, <2>11
<1>3. QED BY <1>1, <1>2

\* The settle handler.
LEMMA SettleTypes ==
    ASSUME TypeOK, NEW h \in Handler,
           (\E r \in Run : SettleStart(h, r)) \/ SettleSucceeds(h) \/ SettleFails(h)
    PROVE  TypeOK'
<1>1. ASSUME NEW r \in Run, SettleStart(h, r) PROVE TypeOK'
  <2> DEFINE rec == [runs[r] EXCEPT !.locked = TRUE, !.phase = "settling"]
             m == SubmissionOf(r)
  <2>1. runs[r].signed \in Group /\ runs[r].tiers \in [Check -> Tier]
    BY <1>1 DEF SettleStart, GateOpen, TypeOK, RunRecord
  <2>2. rec \in RunRecord
    <3>1. runs[r] \in RunRecord
      BY DEF TypeOK
    <3>2. QED BY <3>1 DEF RunRecord, Phase
  <2>3. m \in Submission
    BY <2>1 DEF Submission, SubmissionOf, NextNo
  <2>4. runs' \in [Run -> RunRecord] /\ store' \subseteq Run /\ newer' \in [Run -> SUBSET Run]
    BY <1>1, <2>2, UpdateTypes DEF SettleStart
  <2>5. CallsTyped'
    BY <1>1, <2>1, SuspendTypes DEF SettleStart, Await
  <2>6. sent' = sent \union {m} /\ inFlight' = inFlight \union {m}
    BY <1>1 DEF SettleStart
  <2>7. QED BY <1>1, <2>3, <2>4, <2>5, <2>6 DEF SettleStart, TypeOK, CallsTyped
<1>2. ASSUME SettleSucceeds(h) \/ SettleFails(h) PROVE TypeOK'
  <2> DEFINE r == calls[h].run
  <2>1. r \in Run
    BY <1>2 DEF SettleSucceeds, SettleFails, TypeOK
  <2>2. /\ [runs[r] EXCEPT !.hasTxId = TRUE, !.phase = "settled"] \in RunRecord
        /\ AbortedRun(runs[r]) \in RunRecord
    <3>1. runs[r] \in RunRecord
      BY <2>1 DEF TypeOK
    <3>2. QED BY <3>1 DEF RunRecord, AbortedRun, Phase
  <2>3. runs' \in [Run -> RunRecord] /\ store' \subseteq Run /\ newer' \in [Run -> SUBSET Run]
    BY <1>2, <2>1, <2>2, UpdateTypes DEF SettleSucceeds, SettleFails
  <2>4. CallsTyped'
    BY <1>2, FinishTypes DEF SettleSucceeds, SettleFails
  <2>5. QED BY <1>2, <2>3, <2>4 DEF SettleSucceeds, SettleFails, TypeOK, CallsTyped, chainVars
<1>3. QED BY <1>1, <1>2

\* The facilitator, the registry and a restart.
LEMMA EnvironmentTypes == TypeOK /\ Environment => TypeOK'
<1> SUFFICES ASSUME TypeOK, Environment PROVE TypeOK'
  OBVIOUS
<1>1. ASSUME NEW m \in inFlight, FacilitatorSettles(m) \/ FacilitatorDrops(m) PROVE TypeOK'
  <2>1. m \in sent
    BY DEF TypeOK
  <2>2. QED BY <1>1, <2>1 DEF FacilitatorSettles, FacilitatorDrops, TypeOK, storeVars
<1>2. ASSUME NEW e \in External, Register(e) \/ Deregister(e) PROVE TypeOK'
  BY <1>2 DEF Register, Deregister, TypeOK, storeVars, chainVars
<1>3. CASE Restart
  <2>1. calls' \in [Handler -> Call] /\ \A h \in Handler : calls'[h] = IdleCall
    BY <1>3, CallTypes DEF Restart
  <2>2. QED BY <1>3, <2>1 DEF Restart, TypeOK, IdleCall, chainVars
<1>4. QED BY <1>1, <1>2, <1>3 DEF Environment

\* Every step, and none.
LEMMA NextTypes == TypeOK /\ [Next]_vars => TypeOK'
<1> SUFFICES ASSUME TypeOK, [Next]_vars PROVE TypeOK'
  OBVIOUS
<1>1. ASSUME NEW h \in Handler, Resume(h) \/ Request(h) PROVE TypeOK'
  BY <1>1, QuoteTypes, VerifyTypes, SettleTypes DEF Resume, Request
<1>2. CASE UNCHANGED vars
  BY <1>2 DEF vars, TypeOK
<1>3. QED BY <1>1, <1>2, EnvironmentTypes DEF Next

\* Every reachable state is well-typed: phases, tiers, ledgers, groups and
\* requests are what the handlers expect them to be.
THEOREM TypeCorrect == Spec => []TypeOK
<1>1. QED BY InitTypes, NextTypes, PTL DEF Spec
----------------------------------------
(* The inductive invariant: one part per run, one part per request. *)

\* The gate is shut until a round has confirmed everything.
Shut(r) ==
    runs[r].phase \in {"idle", "quoting", "awaiting_signature"} => ~AllConfirmed(runs[r].verdicts)

\* While the buyer is asked to sign, the group built last is the one for the run's
\* tiers; nobody was asked about a run that has not begun.
Built(r) ==
    /\ runs[r].phase = "awaiting_signature" => runs[r].built = GroupFor(r, runs[r].tiers)
    /\ runs[r].phase = "idle" => \A a \in agreed : a[1] # r

\* Group g, whoever built it, pays what the run asks its checks for, as the group
\* built last does, and everyone the run asked agreed to it.
Settleable(r, g) ==
    /\ g \in Group /\ g.tiers = runs[r].tiers /\ ValidateSignedGroup(r, g)
    /\ runs[r].built.tiers = runs[r].tiers
    /\ \A p \in Party(r) : <<r, g, p>> \in agreed

\* Behind an open gate lies a group that may be settled.
Open(r) ==
    runs[r].phase = "verifying" /\ AllConfirmed(runs[r].verdicts) =>
        Settleable(r, runs[r].signed)

\* A run that made its submission is past the gate for good.
Submitted(r) ==
    \A m \in sent : m.run = r =>
        /\ m.no = 1
        /\ runs[r].phase \in {"settling", "settled", "aborted"}
        /\ Settleable(r, m.group)
        /\ \A n \in sent : n.run = r => n.group = m.group

RunInv(r) == Shut(r) /\ Built(r) /\ Open(r) /\ Submitted(r)

\* A request works on a run alone, in the phase it left it in; one that is over
\* names no run.
Alone(h) ==
    /\ calls[h].at = "idle" => calls[h].run = NoRun
    /\ calls[h].at # "idle" =>
        /\ runs[calls[h].run].phase = PhaseAt[calls[h].at]
        /\ \A i \in Handler \ {h} : calls[i].run # calls[h].run

\* While a round is under way its run's verdicts, those of the round before, do
\* not open the gate.
Asking(h) ==
    /\ calls[h].at \in {"verifying", "escalating"} => ~AllConfirmed(runs[calls[h].run].verdicts)
    /\ calls[h].at \in {"building", "verifying", "escalating"} =>
            calls[h].tiers = runs[calls[h].run].tiers

\* The group a fan-out presents is the signature on file, as large as the run's own.
Presenting(h) ==
    calls[h].at = "verifying" =>
        LET r == calls[h].run
            g == calls[h].signed
        IN  /\ runs[r].signed = g /\ ValidateSignedGroup(r, g)
            /\ runs[r].built = GroupFor(r, runs[r].tiers)

CallInv(h) == Alone(h) /\ Asking(h) /\ Presenting(h)

IInv ==
    /\ TypeOK
    /\ \A r \in Run : RunInv(r)
    /\ \A h \in Handler : CallInv(h)
----------------------------------------
(* What a step of one request on one run leaves alone. *)

Only(h, r) ==
    /\ \A x \in Run \ {r} : runs'[x] = runs[x]
    /\ \A i \in Handler \ {h} : calls'[i] = calls[i] /\ calls[i].run # r
    /\ calls'[h].run \in {r, NoRun}
    /\ agreed \subseteq agreed' /\ \A a \in agreed' \ agreed : a[1] = r
    /\ \A m \in sent' \ sent : m.run = r

\* What may be settled stays so while the run's terms stay and consent grows.
LEMMA SettleableKept ==
    ASSUME NEW r \in Run, NEW g, Settleable(r, g), agreed \subseteq agreed',
           runs'[r].tiers = runs[r].tiers, runs'[r].built = runs[r].built,
           runs'[r].externals = runs[r].externals
    PROVE  Settleable(r, g)'
  BY DEF Settleable, ValidateSignedGroup, Party

\* The submissions of a run stay as they are when it makes none and keeps its terms.
LEMMA SubmittedKept ==
    ASSUME NEW r \in Run, Submitted(r), agreed \subseteq agreed',
           \A m \in sent' \ sent : m.run # r,
           runs'[r].phase \in {runs[r].phase, "settling", "settled", "aborted"},
           runs'[r].tiers = runs[r].tiers, runs'[r].built = runs[r].built,
           runs'[r].externals = runs[r].externals
    PROVE  Submitted(r)'
<1> SUFFICES ASSUME NEW m \in sent', m.run = r
             PROVE  /\ m.no = 1 /\ runs'[r].phase \in {"settling", "settled", "aborted"}
                    /\ Settleable(r, m.group)'
                    /\ \A n \in sent' : n.run = r => n.group = m.group
  BY DEF Submitted
<1>1. m \in sent /\ \A n \in sent' : n.run = r => n \in sent
  OBVIOUS
<1>2. Settleable(r, m.group)'
  BY <1>1, SettleableKept DEF Submitted
<1>3. QED BY <1>1, <1>2 DEF Submitted

\* Such a step keeps the invariant if it keeps the parts of its run and its request.
LEMMA OnlyKeeps ==
    ASSUME IInv, TypeOK', NEW h \in Handler, NEW r \in Run, Only(h, r),
           RunInv(r)', CallInv(h)'
    PROVE  IInv'
<1>1. ASSUME NEW x \in Run, x # r PROVE RunInv(x)'
  <2>1. runs'[x] = runs[x] /\ agreed \subseteq agreed' /\ RunInv(x)
    BY <1>1 DEF Only, IInv
  <2>2. \A a \in agreed' : a[1] = x => a \in agreed
    BY <1>1 DEF Only
  <2>3. \A m \in sent' \ sent : m.run # x
    BY <1>1 DEF Only
  <2>4. Shut(x)' /\ Built(x)'
    BY <2>1, <2>2 DEF RunInv, Shut, Built, GroupFor
  <2>5. Open(x)'
    BY <2>1, SettleableKept DEF RunInv, Open
  <2>6. Submitted(x)'
    BY <2>1, <2>3, SubmittedKept DEF RunInv
  <2>7. QED BY <2>4, <2>5, <2>6 DEF RunInv
<1>2. ASSUME NEW i \in Handler, i # h PROVE CallInv(i)'
  <2>1. /\ calls'[i] = calls[i] /\ calls[i].run # r /\ CallInv(i)
        /\ \A j \in Handler \ {h} : calls'[j] = calls[j]
        /\ calls'[h].run \in {r, NoRun}
    BY <1>2 DEF Only, IInv
  <2>2. calls[i].at # "idle" => calls[i].run \in Run \ {r} /\ calls[i].run # NoRun
    BY <1>2, <2>1, LifecycleAssumption DEF IInv, TypeOK
  <2>3. calls[i].at # "idle" => runs'[calls[i].run] = runs[calls[i].run]
    BY <2>2 DEF Only
  <2>4. Alone(i)'
    BY <1>2, <2>1, <2>2, <2>3 DEF CallInv, Alone
  <2>5. Asking(i)' /\ Presenting(i)'
    BY <2>1, <2>3 DEF CallInv, Asking, Presenting, GroupFor, ValidateSignedGroup
  <2>6. QED BY <2>4, <2>5 DEF CallInv
<1>3. QED BY <1>1, <1>2 DEF IInv

\* Nobody works on a run that waits for its buyer, or whose gate is open.
LEMMA FreeRun ==
    ASSUME IInv, NEW r \in Run,
           \/ runs[r].phase \in {"idle", "awaiting_signature"}
           \/ runs[r].phase = "verifying" /\ AllConfirmed(runs[r].verdicts)
    PROVE  \A i \in Handler : calls[i].run # r
<1> SUFFICES ASSUME NEW i \in Handler, calls[i].run = r PROVE FALSE
  OBVIOUS
<1>1. CallInv(i) /\ calls[i].at \in Await \union {"idle"}
  BY DEF IInv, TypeOK, Call
<1>2. calls[i].at # "idle"
  BY <1>1, LifecycleAssumption DEF CallInv, Alone
<1>3. runs[r].phase = PhaseAt[calls[i].at]
  BY <1>1, <1>2 DEF CallInv, Alone
<1>4. calls[i].at \in {"verifying", "escalating"} => ~AllConfirmed(runs[r].verdicts)
  BY <1>1 DEF CallInv, Asking
<1>5. QED BY <1>1, <1>2, <1>3, <1>4 DEF Await, PhaseAt

\* A suspended request has its run to itself.
LEMMA OwnedRun ==
    ASSUME IInv, NEW h \in Handler, calls[h].at # "idle"
    PROVE  \E r \in Run :
               /\ r = calls[h].run /\ runs[r] \in RunRecord
               /\ RunInv(r) /\ CallInv(h) /\ runs[r].phase = PhaseAt[calls[h].at]
               /\ \A i \in Handler \ {h} : calls[i].run # r
<1>1. calls[h].run \in Run /\ runs[calls[h].run] \in RunRecord
  BY DEF IInv, TypeOK
<1>2. RunInv(calls[h].run) /\ CallInv(h)
  BY <1>1 DEF IInv
<1>3. QED BY <1>1, <1>2 DEF CallInv, Alone

\* A request that ends without writing anything.
LEMMA EndKeeps ==
    ASSUME IInv, TypeOK', NEW h \in Handler, calls[h].at # "idle", Finish(h),
           UNCHANGED <<runs, sent, agreed>>
    PROVE  IInv'
<1>1. PICK r \in Run :
          r = calls[h].run /\ RunInv(r) /\ \A i \in Handler \ {h} : calls[i].run # r
  BY OwnedRun
<1>2. calls'[h] = IdleCall /\ \A i \in Handler \ {h} : calls'[i] = calls[i]
  BY DEF Finish, IInv, TypeOK
<1>3. Only(h, r)
  BY <1>1, <1>2 DEF Only, IdleCall
<1>4. CallInv(h)'
  BY <1>2 DEF CallInv, Alone, Asking, Presenting, IdleCall
<1>5. RunInv(r)'
  BY <1>1 DEF RunInv, Shut, Built, Open, Submitted, GroupFor, Settleable, ValidateSignedGroup,
              Party
<1>6. QED BY <1>1, <1>3, <1>4, <1>5, OnlyKeeps

\* A request that ends its run, settled or aborted.
LEMMA FinalKeeps ==
    ASSUME IInv, TypeOK', NEW h \in Handler, calls[h].at # "idle", Finish(h),
           NEW rec \in RunRecord, Update(calls[h].run, rec),
           rec.phase \in {"settled", "aborted"},
           rec.phase = "settled" => calls[h].at = "settling",
           rec.built = runs[calls[h].run].built, rec.tiers = runs[calls[h].run].tiers,
           rec.externals = runs[calls[h].run].externals,
           agreed \subseteq agreed', \A a \in agreed' \ agreed : a[1] = calls[h].run,
           UNCHANGED sent
    PROVE  IInv'
<1>1. PICK r \in Run :
          r = calls[h].run /\ RunInv(r) /\ \A i \in Handler \ {h} : calls[i].run # r
  BY OwnedRun
<1>2. calls'[h] = IdleCall /\ \A i \in Handler \ {h} : calls'[i] = calls[i]
  BY DEF Finish, IInv, TypeOK
<1>3. runs'[r] = rec /\ \A x \in Run \ {r} : runs'[x] = runs[x]
  BY <1>1 DEF Update, IInv, TypeOK
<1>4. Only(h, r)
  BY <1>1, <1>2, <1>3 DEF Only, IdleCall
<1>5. CallInv(h)'
  BY <1>2 DEF CallInv, Alone, Asking, Presenting, IdleCall
<1>6. Shut(r)' /\ Open(r)'
  BY <1>3 DEF Shut, Open
<1>7. Built(r)'
  BY <1>3 DEF Built
<1>8. Submitted(r)'
  BY <1>1, <1>3, SubmittedKept DEF RunInv
<1>9. QED BY <1>1, <1>4, <1>5, <1>6, <1>7, <1>8, OnlyKeeps DEF RunInv
----------------------------------------
(* The handlers. *)

\* The quote handler works on a fresh run and opens nothing.
LEMMA QuoteKeeps ==
    ASSUME IInv, TypeOK', NEW h \in Handler,
           (\E r \in Run : QuoteStart(h, r)) \/ QuotesArrive(h) \/ QuotesFail(h) \/ BuildFails(h)
    PROVE  IInv'
<1>1. ASSUME NEW r \in Run, QuoteStart(h, r) PROVE IInv'
  <2>1. /\ runs'[r] = NewRun("quoting", registry)
        /\ \A x \in Run \ {r} : runs'[x] = runs[x]
    BY <1>1 DEF QuoteStart, IInv, TypeOK
  <2>2. /\ calls'[h] = [at |-> "quoting", run |-> r, tiers |-> OpeningTiers, signed |-> NoGroup]
        /\ \A i \in Handler \ {h} : calls'[i] = calls[i]
    BY <1>1 DEF QuoteStart, Suspend, IInv, TypeOK
  <2>3. UNCHANGED <<sent, agreed>> /\ runs[r].phase = "idle"
    BY <1>1 DEF QuoteStart, chainVars
  <2>4. RunInv(r) /\ \A i \in Handler : calls[i].run # r
    BY <2>3, FreeRun DEF IInv
  <2>5. Only(h, r)
    BY <2>1, <2>2, <2>3, <2>4 DEF Only
  <2>6. ~AllConfirmed(NoVerdicts)
    BY DEF AllConfirmed, Confirmed, NoVerdicts, Check
  <2>7. Shut(r)' /\ Open(r)'
    BY <2>1, <2>6 DEF Shut, Open, NewRun
  <2>8. Built(r)' /\ Submitted(r)'
    BY <2>1, <2>3, <2>4 DEF RunInv, Built, Submitted, NewRun
  <2>9. CallInv(h)'
    BY <2>1, <2>2, <2>4 DEF CallInv, Alone, Asking, Presenting, NewRun, PhaseAt
  <2>10. QED BY <2>5, <2>7, <2>8, <2>9, OnlyKeeps DEF RunInv
<1>2. ASSUME QuotesArrive(h) PROVE IInv'
  <2>1. PICK r \in Run :
            /\ r = calls[h].run /\ runs[r] \in RunRecord /\ RunInv(r)
            /\ runs[r].phase = "quoting" /\ \A i \in Handler \ {h} : calls[i].run # r
    BY <1>2, OwnedRun DEF QuotesArrive, PhaseAt
  <2>2. /\ runs'[r].phase = "quoting" /\ runs'[r].verdicts = runs[r].verdicts
        /\ runs'[r].tiers = OpeningTiers /\ runs'[r].externals = runs[r].externals
        /\ \A x \in Run \ {r} : runs'[x] = runs[x]
    <3> DEFINE rec == [runs[r] EXCEPT !.tiers = OpeningTiers,
                                      !.spent = runs[r].spent + FeesOf(OpeningTiers),
                                      !.rounds = runs[r].rounds + 1]
    <3>1. runs \in [Run -> RunRecord]
      BY DEF IInv, TypeOK
    <3>2. runs' = [runs EXCEPT ![r] = rec]
      BY <1>2, <2>1, <3>1 DEF QuotesArrive, RunRecord
    <3>3. /\ rec.phase = runs[r].phase /\ rec.verdicts = runs[r].verdicts
          /\ rec.tiers = OpeningTiers /\ rec.externals = runs[r].externals
      BY <2>1 DEF RunRecord
    <3>4. QED BY <2>1, <3>1, <3>2, <3>3
  <2>3. /\ calls'[h] = [at |-> "building", run |-> r, tiers |-> OpeningTiers, signed |-> NoGroup]
        /\ \A i \in Handler \ {h} : calls'[i] = calls[i]
    BY <1>2, <2>1 DEF QuotesArrive, Suspend, IInv, TypeOK
  <2>4. UNCHANGED <<sent, agreed>>
    BY <1>2 DEF QuotesArrive, chainVars
  <2>5. Only(h, r)
    BY <2>1, <2>2, <2>3, <2>4 DEF Only
  <2>6. RunInv(r)'
    BY <2>1, <2>2, <2>4 DEF RunInv, Shut, Built, Open, Submitted
  <2>7. CallInv(h)'
    BY <2>1, <2>2, <2>3 DEF CallInv, Alone, Asking, Presenting, PhaseAt
  <2>8. QED BY <2>1, <2>5, <2>6, <2>7, OnlyKeeps
<1>3. ASSUME QuotesFail(h) \/ BuildFails(h) PROVE IInv'
  BY <1>3, EndKeeps DEF QuotesFail, BuildFails, storeVars, chainVars
<1>4. QED BY <1>1, <1>2, <1>3

\* A built group is the one for the run's tiers, and the gate stays shut.
LEMMA BuildKeeps ==
    ASSUME IInv, TypeOK', NEW h \in Handler, GroupBuilt(h)
    PROVE  IInv'
<1>1. PICK r \in Run :
          /\ calls[h].at \in {"building", "escalating"}
          /\ r = calls[h].run /\ runs[r] \in RunRecord /\ RunInv(r) /\ CallInv(h)
          /\ runs[r].phase = PhaseAt[calls[h].at]
          /\ \A i \in Handler \ {h} : calls[i].run # r
  BY OwnedRun DEF GroupBuilt
<1>0. PICK g : g = GroupFor(r, calls[h].tiers)
  OBVIOUS
<1>2. /\ runs'[r].phase = "awaiting_signature" /\ runs'[r].verdicts = runs[r].verdicts
      /\ runs'[r].built = g /\ runs'[r].tiers = runs[r].tiers
      /\ runs'[r].externals = runs[r].externals
      /\ \A x \in Run \ {r} : runs'[x] = runs[x]
  BY <1>1, <1>0 DEF GroupBuilt, Update, IInv, TypeOK, RunRecord
<1>3. calls'[h] = IdleCall /\ \A i \in Handler \ {h} : calls'[i] = calls[i]
  BY DEF GroupBuilt, Finish, IInv, TypeOK
<1>4. UNCHANGED <<sent, agreed>>
  BY DEF GroupBuilt, chainVars
<1>5. calls[h].tiers = runs[r].tiers
  BY <1>1 DEF CallInv, Asking
<1>6. ~AllConfirmed(runs[r].verdicts)
  BY <1>1 DEF RunInv, Shut, CallInv, Asking, PhaseAt
<1>7. Only(h, r)
  BY <1>1, <1>2, <1>3, <1>4 DEF Only, IdleCall
<1>8. Shut(r)' /\ Open(r)'
  BY <1>2, <1>6 DEF Shut, Open
<1>9. Built(r)'
  BY <1>0, <1>2, <1>5 DEF Built, GroupFor
<1>10. Submitted(r)'
  BY <1>1, <1>4 DEF RunInv, Submitted, PhaseAt
<1>11. CallInv(h)'
  BY <1>3 DEF CallInv, Alone, Asking, Presenting, IdleCall
<1>12. QED BY <1>1, <1>7, <1>8, <1>9, <1>10, <1>11, OnlyKeeps DEF RunInv

\* Taking a signature in puts it on file and presents it.
LEMMA VerifyStartKeeps ==
    ASSUME IInv, TypeOK', NEW h \in Handler, NEW r \in Run, NEW g \in Presentable,
           VerifyStart(h, r, g)
    PROVE  IInv'
<1>1. /\ runs[r].phase = "awaiting_signature" /\ ValidateSignedGroup(r, g)
      /\ runs[r] \in RunRecord
  BY DEF VerifyStart, IInv, TypeOK
<1>2. RunInv(r) /\ \A i \in Handler : calls[i].run # r
  BY <1>1, FreeRun DEF IInv
<1>3. /\ runs'[r].phase = "verifying" /\ runs'[r].verdicts = runs[r].verdicts
      /\ runs'[r].signed = g /\ runs'[r].built = runs[r].built
      /\ runs'[r].tiers = runs[r].tiers /\ runs'[r].externals = runs[r].externals
      /\ \A x \in Run \ {r} : runs'[x] = runs[x]
  BY <1>1 DEF VerifyStart, Update, IInv, TypeOK, RunRecord
<1>4. /\ calls'[h] = [at |-> "verifying", run |-> r, tiers |-> runs[r].tiers, signed |-> g]
      /\ \A i \in Handler \ {h} : calls'[i] = calls[i]
  BY DEF VerifyStart, Suspend, IInv, TypeOK
<1>5. UNCHANGED <<sent, agreed>>
  BY DEF VerifyStart, chainVars
<1>6. Only(h, r)
  BY <1>2, <1>3, <1>4, <1>5 DEF Only
<1>7. ~AllConfirmed(runs[r].verdicts)
  BY <1>1, <1>2 DEF RunInv, Shut
<1>8. Shut(r)' /\ Open(r)'
  BY <1>3, <1>7 DEF Shut, Open
<1>9. Built(r)' /\ Submitted(r)'
  BY <1>1, <1>2, <1>3, <1>5 DEF RunInv, Built, Submitted
<1>10. Alone(h)' /\ Asking(h)'
  BY <1>2, <1>3, <1>4, <1>7 DEF Alone, Asking, PhaseAt
<1>11. Presenting(h)'
  BY <1>1, <1>2, <1>3, <1>4 DEF RunInv, Built, Presenting, GroupFor, ValidateSignedGroup
<1>12. QED BY <1>6, <1>8, <1>9, <1>10, <1>11, OnlyKeeps DEF RunInv, CallInv

\* When every check confirmed, the group presented pays each its tier.
LEMMA ConfirmedGroupPays ==
    ASSUME IInv, NEW h \in Handler, NEW r \in Run, r = calls[h].run,
           calls[h].at = "verifying",
           NEW v \in VerdictsFor(calls[h].signed, calls[h].tiers), AllConfirmed(v)
    PROVE  /\ calls[h].signed \in Group /\ calls[h].signed = runs[r].signed
           /\ calls[h].signed.tiers = runs[r].tiers
           /\ ValidateSignedGroup(r, calls[h].signed)
           /\ runs[r].built.tiers = runs[r].tiers
<1> DEFINE g == calls[h].signed
<1>1. /\ g \in Group /\ calls[h].tiers \in [Check -> Tier] /\ g.tiers \in [Check -> Tier]
  BY DEF IInv, TypeOK, Call, Group
<1>2. /\ runs[r].signed = g /\ ValidateSignedGroup(r, g)
      /\ calls[h].tiers = runs[r].tiers /\ runs[r].built = GroupFor(r, runs[r].tiers)
  BY DEF IInv, CallInv, Asking, Presenting
<1>3. ASSUME NEW c \in Check PROVE g.tiers[c] = calls[h].tiers[c]
  <2>1. v[c] \in Reply(c, g, calls[h].tiers) /\ v[c] # NoAnswer
    BY DEF VerdictsFor, AllConfirmed, Confirmed
  <2>2. QED BY <2>1 DEF Reply
<1>4. g.tiers = runs[r].tiers
  BY <1>1, <1>2, <1>3
<1>5. runs[r].built.tiers = runs[r].tiers
  BY <1>2 DEF GroupFor
<1>6. QED BY <1>1, <1>2, <1>4, <1>5

\* A round that confirms everything opens the gate on the group it was asked about.
LEMMA AllConfirmKeeps ==
    ASSUME IInv, TypeOK', NEW h \in Handler, calls[h].at = "verifying",
           NEW v \in VerdictsFor(calls[h].signed, calls[h].tiers), AllConfirm(h, v)
    PROVE  IInv'
<1>1. PICK r \in Run :
          /\ r = calls[h].run /\ runs[r] \in RunRecord /\ RunInv(r)
          /\ runs[r].phase = "verifying" /\ \A i \in Handler \ {h} : calls[i].run # r
  BY OwnedRun DEF PhaseAt
<1>2. PICK g : g = calls[h].signed
  OBVIOUS
<1>3. /\ g \in Group /\ g = runs[r].signed /\ g.tiers = runs[r].tiers
      /\ ValidateSignedGroup(r, g) /\ runs[r].built.tiers = runs[r].tiers
  BY <1>1, <1>2, ConfirmedGroupPays DEF AllConfirm
<1>4. /\ runs'[r].phase = "verifying" /\ runs'[r].verdicts = v
      /\ runs'[r].signed = runs[r].signed /\ runs'[r].built = runs[r].built
      /\ runs'[r].tiers = runs[r].tiers /\ runs'[r].externals = runs[r].externals
      /\ \A x \in Run \ {r} : runs'[x] = runs[x]
  BY <1>1 DEF AllConfirm, IInv, TypeOK, RunRecord
<1>5. calls'[h] = IdleCall /\ \A i \in Handler \ {h} : calls'[i] = calls[i]
  BY DEF AllConfirm, Finish, IInv, TypeOK
<1>6. UNCHANGED sent /\ agreed \subseteq agreed' /\ \A a \in agreed' \ agreed : a[1] = r
  BY <1>1 DEF AllConfirm, VerifyReturns, chainVars
<1>7. Settleable(r, g)'
  <2>1. \A p \in Party(r)' : <<r, g, p>> \in agreed'
    BY <1>1, <1>2, <1>4 DEF AllConfirm, VerifyReturns, AllConfirmed, Party
  <2>2. QED BY <1>3, <1>4, <2>1 DEF Settleable, ValidateSignedGroup
<1>8. Only(h, r)
  BY <1>1, <1>4, <1>5, <1>6 DEF Only, IdleCall
<1>9. Shut(r)' /\ Open(r)'
  BY <1>3, <1>4, <1>7 DEF Shut, Open
<1>10. Built(r)' /\ Submitted(r)'
  BY <1>1, <1>4, <1>6, SubmittedKept DEF RunInv, Built
<1>11. CallInv(h)'
  BY <1>5 DEF CallInv, Alone, Asking, Presenting, IdleCall
<1>12. QED BY <1>8, <1>9, <1>10, <1>11, OnlyKeeps DEF RunInv

\* An escalating round changes the tiers and leaves the gate shut.
LEMMA EscalateKeeps ==
    ASSUME IInv, TypeOK', NEW h \in Handler, NEW v, Escalate(h, v)
    PROVE  IInv'
<1>1. calls[h].at = "verifying"
  BY DEF Escalate, VerifyReturns
<1>2. PICK r \in Run :
          /\ r = calls[h].run /\ runs[r] \in RunRecord /\ RunInv(r)
          /\ runs[r].phase = "verifying" /\ \A i \in Handler \ {h} : calls[i].run # r
  BY <1>1, OwnedRun DEF PhaseAt
<1>3. PICK tiers : tiers = PlannedTiers(v, runs[r].spent, runs[r].tiers)
  OBVIOUS
<1>4. /\ runs'[r].phase = "verifying" /\ runs'[r].verdicts = v
      /\ runs'[r].tiers = tiers /\ runs'[r].externals = runs[r].externals
      /\ \A x \in Run \ {r} : runs'[x] = runs[x]
  <2> DEFINE rec == [runs[r] EXCEPT !.verdicts = v, !.tiers = tiers,
                                    !.spent = SpentAfterPlan(v, runs[r].spent),
                                    !.rounds = runs[r].rounds + 1]
  <2>1. runs \in [Run -> RunRecord]
    BY DEF IInv, TypeOK
  <2>2. runs' = [runs EXCEPT ![r] = rec]
    BY <1>2, <1>3, <2>1 DEF Escalate, RunRecord
  <2>3. /\ rec.phase = runs[r].phase /\ rec.verdicts = v
        /\ rec.tiers = tiers /\ rec.externals = runs[r].externals
    BY <1>2 DEF RunRecord
  <2>4. QED BY <1>2, <2>1, <2>2, <2>3
<1>5. /\ calls'[h] = [at |-> "escalating", run |-> r, tiers |-> tiers, signed |-> NoGroup]
      /\ \A i \in Handler \ {h} : calls'[i] = calls[i]
  BY <1>2, <1>3 DEF Escalate, Suspend, IInv, TypeOK
<1>6. /\ UNCHANGED sent /\ ~AllConfirmed(v)
      /\ agreed \subseteq agreed' /\ \A a \in agreed' \ agreed : a[1] = r
  <2>1. VerifyReturns(h, v, runs[r].externals) /\ ~AllConfirmed(v)
    BY <1>2 DEF Escalate
  <2>2. /\ UNCHANGED sent
        /\ \E g : agreed' = agreed \union {<<r, g, c>> : c \in {x \in Check : Confirmed(v[x])}}
                                  \union {<<r, g, e>> : e \in runs[r].externals}
    BY <1>2, <2>1 DEF VerifyReturns, chainVars
  <2>3. QED BY <2>1, <2>2
<1>7. Only(h, r)
  BY <1>2, <1>4, <1>5, <1>6 DEF Only
<1>8. Shut(r)' /\ Open(r)'
  BY <1>4, <1>6 DEF Shut, Open
<1>9. Built(r)' /\ Submitted(r)'
  BY <1>2, <1>4, <1>6 DEF RunInv, Built, Submitted
<1>10. CallInv(h)'
  BY <1>2, <1>4, <1>5, <1>6 DEF CallInv, Alone, Asking, Presenting, PhaseAt
<1>11. QED BY <1>7, <1>8, <1>9, <1>10, OnlyKeeps DEF RunInv

\* However the fan-out returns.
LEMMA VerifyKeeps ==
    ASSUME IInv, TypeOK', NEW h \in Handler, VerifyStep(h)
    PROVE  IInv'
<1>1. PICK v \in VerdictsFor(calls[h].signed, calls[h].tiers) :
          \/ \E accepted \in SUBSET runs[calls[h].run].externals : ExternalRefuses(h, v, accepted)
          \/ AllConfirm(h, v) \/ Escalate(h, v) \/ GiveUp(h, v)
  BY DEF VerifyStep
<1>2. calls[h].at = "verifying"
  BY DEF VerifyStep
<1>3. PICK r \in Run : r = calls[h].run /\ runs[r] \in RunRecord
  BY <1>2, OwnedRun
<1>4. CASE GiveUp(h, v) \/ \E acc \in SUBSET runs[calls[h].run].externals : ExternalRefuses(h, v, acc)
  <2>1. /\ Update(r, AbortedRun([runs[r] EXCEPT !.verdicts = v])) /\ Finish(h)
        /\ agreed \subseteq agreed' /\ \A a \in agreed' \ agreed : a[1] = r
        /\ UNCHANGED sent
    BY <1>3, <1>4 DEF GiveUp, ExternalRefuses, VerifyReturns, chainVars
  <2>2. v \in Verdicts
    BY <1>2, <1>3, VerdictTypes DEF IInv, TypeOK, Call
  <2>3. PICK rec : rec = AbortedRun([runs[r] EXCEPT !.verdicts = v])
    OBVIOUS
  <2>4. /\ rec \in RunRecord /\ rec.phase = "aborted" /\ rec.built = runs[r].built
        /\ rec.tiers = runs[r].tiers /\ rec.externals = runs[r].externals
    BY <1>3, <2>2, <2>3 DEF AbortedRun, RunRecord, Phase
  <2>5. QED BY <1>2, <1>3, <2>1, <2>3, <2>4, FinalKeeps
<1>5. QED BY <1>1, <1>2, <1>4, AllConfirmKeeps, EscalateKeeps

\* Passing the gate makes the run's one submission.
LEMMA SettleStartKeeps ==
    ASSUME IInv, TypeOK', NEW h \in Handler, NEW r \in Run, SettleStart(h, r)
    PROVE  IInv'
<1>1. /\ runs[r].phase = "verifying" /\ AllConfirmed(runs[r].verdicts)
      /\ runs[r] \in RunRecord
  BY DEF SettleStart, GateOpen, IInv, TypeOK
<1>2. RunInv(r) /\ \A i \in Handler : calls[i].run # r
  BY <1>1, FreeRun DEF IInv
<1>3. PICK g : g = runs[r].signed /\ Settleable(r, g)
  BY <1>1, <1>2 DEF RunInv, Open
<1>4. /\ runs'[r].phase = "settling" /\ runs'[r].verdicts = runs[r].verdicts
      /\ runs'[r].built = runs[r].built /\ runs'[r].tiers = runs[r].tiers
      /\ runs'[r].externals = runs[r].externals
      /\ \A x \in Run \ {r} : runs'[x] = runs[x]
  BY <1>1, <1>3 DEF SettleStart, Update, IInv, TypeOK, RunRecord
<1>5. /\ calls'[h].at = "settling" /\ calls'[h].run = r
      /\ \A i \in Handler \ {h} : calls'[i] = calls[i]
  BY DEF SettleStart, Suspend, IInv, TypeOK
<1>6. NextNo(r) = 1
  BY <1>1, <1>2 DEF NextNo, RunInv, Submitted
<1>7. sent' = sent \union {[run |-> r, group |-> g, no |-> 1]} /\ UNCHANGED agreed
  BY <1>3, <1>6 DEF SettleStart, SubmissionOf
<1>8. Only(h, r)
  BY <1>2, <1>3, <1>4, <1>5, <1>7 DEF Only
<1>9. Shut(r)' /\ Open(r)'
  BY <1>4 DEF Shut, Open
<1>10. Built(r)'
  BY <1>2, <1>4, <1>7 DEF RunInv, Built
<1>11. Submitted(r)'
  <2>1. \A m \in sent : m.run # r
    BY <1>1, <1>2 DEF RunInv, Submitted
  <2>2. Settleable(r, g)'
    BY <1>3, <1>4, <1>7, SettleableKept
  <2>3. \A m \in sent' : m.run = r => m.no = 1 /\ m.group = g
    BY <1>7, <2>1
  <2>4. QED BY <1>4, <2>2, <2>3 DEF Submitted
<1>12. CallInv(h)'
  BY <1>2, <1>4, <1>5 DEF CallInv, Alone, Asking, Presenting, PhaseAt
<1>13. QED BY <1>8, <1>9, <1>10, <1>11, <1>12, OnlyKeeps DEF RunInv

\* A settlement attempt ends its run.
LEMMA SettleEndKeeps ==
    ASSUME IInv, TypeOK', NEW h \in Handler, SettleSucceeds(h) \/ SettleFails(h)
    PROVE  IInv'
<1>1. PICK r \in Run : r = calls[h].run /\ runs[r] \in RunRecord /\ calls[h].at = "settling"
  BY OwnedRun DEF SettleSucceeds, SettleFails
<1>2. UNCHANGED <<sent, agreed>> /\ Finish(h)
  BY DEF SettleSucceeds, SettleFails, chainVars
<1>3. PICK rec :
          /\ \/ rec = [runs[r] EXCEPT !.hasTxId = TRUE, !.phase = "settled"]
             \/ rec = AbortedRun(runs[r])
          /\ Update(r, rec)
  BY <1>1 DEF SettleSucceeds, SettleFails
<1>4. /\ rec \in RunRecord /\ rec.phase \in {"settled", "aborted"} /\ rec.built = runs[r].built
      /\ rec.tiers = runs[r].tiers /\ rec.externals = runs[r].externals
  BY ZenonT(60), <1>1, <1>3 DEF AbortedRun, RunRecord, Phase
<1>5. QED BY <1>1, <1>2, <1>3, <1>4, FinalKeeps
----------------------------------------
(* The theorems. *)

\* Nothing is offered, agreed or sent at first.
LEMMA InitInv == Init => IInv
<1> SUFFICES ASSUME Init PROVE IInv
  OBVIOUS
<1>1. TypeOK
  BY InitTypes
<1>2. \A r \in Run : runs[r].phase = "idle" /\ runs[r].verdicts = NoVerdicts
  BY DEF Init, NewRun
<1>3. ~AllConfirmed(NoVerdicts)
  BY DEF AllConfirmed, Confirmed, NoVerdicts, Check
<1>4. ASSUME NEW r \in Run PROVE RunInv(r)
  BY <1>2, <1>3 DEF Init, RunInv, Shut, Built, Open, Submitted
<1>5. ASSUME NEW h \in Handler PROVE CallInv(h)
  BY DEF Init, CallInv, Alone, Asking, Presenting, IdleCall
<1>6. QED BY <1>1, <1>4, <1>5 DEF IInv

\* Steps that write neither runs nor what was said about groups, and leave the
\* requests alone or end them all.
LEMMA EnvironmentKeeps ==
    ASSUME IInv, TypeOK', Environment
    PROVE  IInv'
<1>1. UNCHANGED <<runs, sent, agreed>>
  BY DEF Environment, FacilitatorSettles, FacilitatorDrops, Register, Deregister, Restart,
         storeVars, chainVars
<1>2. calls' = calls \/ \A h \in Handler : calls'[h] = IdleCall
  BY DEF Environment, FacilitatorSettles, FacilitatorDrops, Register, Deregister, Restart
<1>3. ASSUME NEW r \in Run PROVE RunInv(r)'
  BY <1>1 DEF IInv, RunInv, Shut, Built, Open, Submitted, GroupFor, Settleable,
     ValidateSignedGroup, Party
<1>4. ASSUME NEW h \in Handler PROVE CallInv(h)'
  <2>1. CASE calls' = calls
    BY <1>1, <2>1 DEF IInv, CallInv, Alone, Asking, Presenting, GroupFor, ValidateSignedGroup
  <2>2. CASE \A i \in Handler : calls'[i] = IdleCall
    BY <2>2 DEF CallInv, Alone, Asking, Presenting, IdleCall
  <2>3. QED BY <1>2, <2>1, <2>2
<1>5. QED BY <1>3, <1>4 DEF IInv

\* Every step keeps the invariant.
LEMMA NextInv == IInv /\ [Next]_vars => IInv'
<1> SUFFICES ASSUME IInv, [Next]_vars PROVE IInv'
  OBVIOUS
<1>1. TypeOK'
  BY NextTypes DEF IInv
<1>2. ASSUME NEW h \in Handler, Resume(h) PROVE IInv'
  BY <1>1, <1>2, QuoteKeeps, BuildKeeps, VerifyKeeps, SettleEndKeeps DEF Resume
<1>3. ASSUME NEW h \in Handler, Request(h) PROVE IInv'
  BY <1>1, <1>3, QuoteKeeps, VerifyStartKeeps, SettleStartKeeps DEF Request
<1>4. CASE UNCHANGED vars
  <2>1. \A r \in Run : RunInv(r)'
    BY <1>4 DEF vars, IInv, RunInv, Shut, Built, Open, Submitted, GroupFor, Settleable,
       ValidateSignedGroup, Party
  <2>2. \A h \in Handler : CallInv(h)'
    BY <1>4 DEF vars, IInv, CallInv, Alone, Asking, Presenting, GroupFor, ValidateSignedGroup
  <2>3. QED BY <1>1, <2>1, <2>2 DEF IInv
<1>5. QED BY <1>1, <1>2, <1>3, <1>4, EnvironmentKeeps DEF Next

\* The gate's invariant holds in every reachable state: it is what makes the
\* properties below inductive.
THEOREM Invariance == Spec => []IInv
<1>1. QED BY InitInv, NextInv, PTL DEF Spec

\* Every submission is some run's, so the parts of the invariant apply to it.
LEMMA SentRun == IInv => \A m \in sent : m.run \in Run /\ Submitted(m.run)
  BY DEF IInv, TypeOK, RunInv, Submission

\* No run hands a group to the facilitator without the consent of all three checks
\* and of every external service it snapshotted, given to it for that very group.
THEOREM Consent == Spec => []UnanimousBeforeSubmission
<1>1. IInv => UnanimousBeforeSubmission
  BY SentRun DEF UnanimousBeforeSubmission, Submitted, Settleable
<1>2. QED BY <1>1, Invariance, PTL

\* No run makes a second submission, whatever requests race for it.
THEOREM Once == Spec => []SubmittedOnce
<1>1. IInv => SubmittedOnce
  <2> SUFFICES ASSUME IInv, NEW m \in sent, NEW n \in sent, m.run = n.run
               PROVE  m = n
    BY DEF SubmittedOnce
  <2>1. m \in Submission /\ n \in Submission
    BY DEF IInv, TypeOK
  <2>2. m.group = n.group /\ m.no = n.no
    BY SentRun DEF Submitted
  <2>3. QED BY <2>1, <2>2 DEF Submission
<1>2. QED BY <1>1, Invariance, PTL

\* Whatever group a client brings to a run, it is submitted only if it pays each
\* check for the tier the run ended on.
THEOREM PaysTheRound == Spec => []SubmittedPaysTheRound
<1>1. IInv => SubmittedPaysTheRound
  BY SentRun DEF SubmittedPaysTheRound, Submitted, Settleable, ValidateSignedGroup
<1>2. QED BY <1>1, Invariance, PTL

\* A suspended request finds its run as it left it, and has it to itself.
THEOREM Ownership == Spec => []RequestOwnsItsRun
<1>1. IInv => RequestOwnsItsRun
  BY DEF IInv, CallInv, Alone, RequestOwnsItsRun
<1>2. QED BY <1>1, Invariance, PTL
----------------------------------------
(* Finished runs. *)

\* The run a request moves is one it owns, or one it finds unfinished.
LEMMA MovesUnfinished ==
    ASSUME IInv, NEW h \in Handler, Resume(h) \/ Request(h), NEW r \in Run,
           runs[r].phase \in Terminal
    PROVE  runs'[r] = runs[r]
<1>1. CASE Request(h)
  <2>1. PICK x \in Run :
            QuoteStart(h, x) \/ (\E g \in Presentable : VerifyStart(h, x, g)) \/ SettleStart(h, x)
    BY <1>1 DEF Request
  <2>2. runs[x].phase \in {"idle", "awaiting_signature", "verifying"}
    BY <2>1 DEF QuoteStart, VerifyStart, SettleStart
  <2>3. x # r
    BY <2>2 DEF Terminal
  <2>4. QED BY <2>1, <2>3 DEF QuoteStart, VerifyStart, SettleStart, Update, IInv, TypeOK
<1>2. CASE Resume(h)
  <2>1. calls[h].at # "idle" /\ calls[h].at \in Await
    BY <1>2 DEF Resume, QuotesFail, QuotesArrive, BuildFails, GroupBuilt, VerifyStep,
       SettleSucceeds, SettleFails, Await
  <2>2. PICK x \in Run : x = calls[h].run /\ runs[x].phase = PhaseAt[calls[h].at]
    BY <2>1, OwnedRun
  <2>3. x # r
    BY <2>1, <2>2 DEF PhaseAt, Await, Terminal
  <2>4. CASE QuotesFail(h) \/ QuotesArrive(h) \/ BuildFails(h) \/ GroupBuilt(h)
    BY <2>2, <2>3, <2>4
    DEF QuotesFail, QuotesArrive, BuildFails, GroupBuilt, Update, storeVars, IInv, TypeOK
  <2>5. CASE VerifyStep(h)
    <3>1. PICK v \in VerdictsFor(calls[h].signed, calls[h].tiers) :
              \/ \E acc \in SUBSET runs[calls[h].run].externals : ExternalRefuses(h, v, acc)
              \/ AllConfirm(h, v) \/ Escalate(h, v) \/ GiveUp(h, v)
      BY <2>5 DEF VerifyStep
    <3>2. QED BY <2>2, <2>3, <3>1
       DEF ExternalRefuses, AllConfirm, Escalate, GiveUp, Update, IInv, TypeOK
  <2>6. CASE SettleSucceeds(h) \/ SettleFails(h)
    BY <2>2, <2>3, <2>6 DEF SettleSucceeds, SettleFails, Update, IInv, TypeOK
  <2>7. QED BY <1>2, <2>4, <2>5, <2>6 DEF Resume
<1>3. QED BY <1>1, <1>2

\* Once settled or aborted, a run's record is never written again.
THEOREM Final == Spec => FinishedRunsAreFinal
<1>1. ASSUME IInv, [Next]_vars
      PROVE  [\A r \in Run : runs[r].phase \in Terminal => runs'[r] = runs[r]]_vars
  <2> SUFFICES ASSUME NEW r \in Run, runs[r].phase \in Terminal, Next PROVE runs'[r] = runs[r]
    BY <1>1
  <2>1. CASE Environment
    BY <2>1 DEF Environment, FacilitatorSettles, FacilitatorDrops, Register, Deregister, Restart,
       storeVars
  <2>2. QED BY <1>1, <2>1, MovesUnfinished DEF Next
<1>2. QED BY <1>1, Invariance, PTL DEF Spec, FinishedRunsAreFinal
----------------------------------------
(* The lifecycle implements the abstract settlement. *)

parties == [r \in Run |-> Party(r)]

purchaseVars == <<parties, agreed, sent, paid>>

\* Whose agreement a run needs is fixed when it is created, with the snapshot of the
\* registry.
LEMMA PartiesKept ==
    ASSUME IInv, NEW h \in Handler,
           Resume(h) \/ \E r \in Run : SettleStart(h, r) \/ \E g \in Presentable : VerifyStart(h, r, g)
    PROVE  parties' = parties
<1>1. runs \in [Run -> RunRecord]
  BY DEF IInv, TypeOK
<1>2. ASSUME NEW r \in Run, NEW rec, Update(r, rec), rec.externals = runs[r].externals
      PROVE  parties' = parties
  BY <1>1, <1>2 DEF Update, parties, Party
<1>3. ASSUME NEW r \in Run, SettleStart(h, r) PROVE parties' = parties
  BY <1>1, <1>2, <1>3 DEF SettleStart, RunRecord
<1>4. ASSUME NEW r \in Run, NEW g \in Presentable, VerifyStart(h, r, g) PROVE parties' = parties
  BY <1>1, <1>2, <1>4 DEF VerifyStart, RunRecord
<1>5. CASE VerifyStep(h)
  <2>1. PICK v \in VerdictsFor(calls[h].signed, calls[h].tiers) :
            \/ \E acc \in SUBSET runs[calls[h].run].externals : ExternalRefuses(h, v, acc)
            \/ AllConfirm(h, v) \/ Escalate(h, v) \/ GiveUp(h, v)
    BY <1>5 DEF VerifyStep
  <2>2. PICK r \in Run : r = calls[h].run /\ runs[r] \in RunRecord
    BY <1>5, OwnedRun DEF VerifyStep
  <2>3. CASE AllConfirm(h, v)
    BY <1>1, <2>2, <2>3 DEF AllConfirm, RunRecord, parties, Party
  <2>4. CASE Escalate(h, v)
    BY <1>1, <2>2, <2>4 DEF Escalate, RunRecord, parties, Party
  <2>5. CASE GiveUp(h, v) \/ \E acc \in SUBSET runs[calls[h].run].externals : ExternalRefuses(h, v, acc)
    <3>1. Update(r, AbortedRun([runs[r] EXCEPT !.verdicts = v]))
      BY <2>2, <2>5 DEF GiveUp, ExternalRefuses
    <3>2. AbortedRun([runs[r] EXCEPT !.verdicts = v]).externals = runs[r].externals
      BY <2>2 DEF AbortedRun, RunRecord
    <3>3. QED BY <1>2, <3>1, <3>2
  <2>6. QED BY <2>1, <2>3, <2>4, <2>5
<1>6. CASE QuotesFail(h) \/ BuildFails(h)
  BY <1>6 DEF QuotesFail, BuildFails, storeVars, parties, Party
<1>7. CASE QuotesArrive(h)
  <2>1. calls[h].run \in Run
    BY <1>7 DEF QuotesArrive, IInv, TypeOK
  <2>2. QED BY <1>1, <1>7, <2>1 DEF QuotesArrive, RunRecord, parties, Party
<1>8. CASE GroupBuilt(h) \/ SettleSucceeds(h) \/ SettleFails(h)
  <2>1. PICK r \in Run : r = calls[h].run /\ runs[r] \in RunRecord
    BY <1>8, OwnedRun DEF GroupBuilt, SettleSucceeds, SettleFails
  <2>2. CASE GroupBuilt(h)
    BY <1>2, <2>1, <2>2 DEF GroupBuilt, RunRecord
  <2>3. CASE SettleSucceeds(h)
    BY <1>2, <2>1, <2>3 DEF SettleSucceeds, RunRecord
  <2>4. CASE SettleFails(h)
    BY <1>2, <2>1, <2>4 DEF SettleFails, AbortedRun, RunRecord
  <2>5. QED BY <1>8, <2>2, <2>3, <2>4
<1>9. QED BY <1>3, <1>4, <1>5, <1>6, <1>7, <1>8 DEF Resume

\* Of a suspended request's steps only the fan-out's return is seen: parties agree.
LEMMA ResumeRefines ==
    ASSUME IInv, NEW h \in Handler, Resume(h)
    PROVE  Settlement!Next \/ UNCHANGED purchaseVars
<1>0. parties' = parties
  BY PartiesKept
<1>1. CASE VerifyStep(h)
  <2>1. PICK v \in VerdictsFor(calls[h].signed, calls[h].tiers) :
            \/ \E acc \in SUBSET runs[calls[h].run].externals : ExternalRefuses(h, v, acc)
            \/ AllConfirm(h, v) \/ Escalate(h, v) \/ GiveUp(h, v)
    BY <1>1 DEF VerifyStep
  <2>2. PICK accepted \in SUBSET runs[calls[h].run].externals : VerifyReturns(h, v, accepted)
    BY <2>1 DEF ExternalRefuses, AllConfirm, Escalate, GiveUp
  <2>3. PICK r \in Run, g \in Group : r = calls[h].run /\ g = calls[h].signed
    BY <1>1 DEF VerifyStep, IInv, TypeOK
  <2>4. Settlement!Agree(r, g)
    <3>1. UNCHANGED <<sent, paid>> /\ agreed \subseteq agreed'
      BY <2>2 DEF VerifyReturns, chainVars
    <3>2. agreed' \ agreed \subseteq {r} \X {g} \X Party(r)
      BY <2>2, <2>3 DEF VerifyReturns, Party
    <3>3. QED BY <1>0, <2>3, <3>1, <3>2 DEF Settlement!Agree, parties
  <2>5. QED BY <2>3, <2>4 DEF Settlement!Next
<1>2. CASE ~VerifyStep(h)
  BY <1>0, <1>2 DEF Resume, QuotesFail, QuotesArrive, BuildFails, GroupBuilt, SettleSucceeds,
     SettleFails, chainVars, purchaseVars
<1>3. QED BY <1>1, <1>2

\* A new run begins its purchase, and a submission is the abstract one; taking a
\* signature in changes nothing there.
LEMMA RequestRefines ==
    ASSUME IInv, NEW h \in Handler, Request(h)
    PROVE  Settlement!Next \/ UNCHANGED purchaseVars
<1>1. ASSUME NEW r \in Run, SettleStart(h, r) PROVE Settlement!Next
  <2>1. /\ runs[r].phase = "verifying" /\ AllConfirmed(runs[r].verdicts)
        /\ Open(r) /\ Submitted(r)
    BY <1>1 DEF SettleStart, GateOpen, IInv, RunInv
  <2>2. PICK g \in Group : g = runs[r].signed /\ \A p \in Party(r) : <<r, g, p>> \in agreed
    BY <2>1 DEF Open, Settleable
  <2>3. \A m \in sent : m.run # r
    BY <2>1 DEF Submitted
  <2>4. sent' = sent \union {[run |-> r, group |-> g, no |-> 1]} /\ UNCHANGED <<agreed, paid>>
    BY <1>1, <2>2, <2>3 DEF SettleStart, SubmissionOf, NextNo
  <2>5. parties' = parties
    BY <1>1, PartiesKept
  <2>6. Settlement!Submit(r, g)
    BY <2>2, <2>3, <2>4, <2>5
    DEF Settlement!Submit, Settlement!Unanimous, Settlement!Unsubmitted, parties
  <2>7. QED BY <2>2, <2>6 DEF Settlement!Next
<1>2. ASSUME NEW r \in Run, QuoteStart(h, r) PROVE Settlement!Next
  <2>1. /\ runs[r].phase = "idle" /\ runs' = [runs EXCEPT ![r] = NewRun("quoting", registry)]
        /\ UNCHANGED <<agreed, sent, paid>>
    BY <1>2 DEF QuoteStart, chainVars
  <2>2. \A a \in agreed : a[1] # r
    BY <2>1 DEF IInv, RunInv, Built
  <2>3. parties' = [parties EXCEPT ![r] = Check \union registry]
    BY <2>1 DEF parties, Party, NewRun, IInv, TypeOK
  <2>4. Check \union registry \in SUBSET (Check \union External)
    BY DEF IInv, TypeOK
  <2>5. Settlement!Begin(r)
    BY <2>1, <2>2, <2>3, <2>4 DEF Settlement!Begin, parties
  <2>6. QED BY <2>5 DEF Settlement!Next
<1>3. ASSUME NEW r \in Run, NEW g \in Presentable, VerifyStart(h, r, g) PROVE UNCHANGED purchaseVars
  BY <1>3, PartiesKept DEF VerifyStart, chainVars, purchaseVars
<1>4. QED BY <1>1, <1>2, <1>3 DEF Request

\* The chain's commit is the abstract payment.
LEMMA EnvironmentRefines ==
    ASSUME IInv, Environment
    PROVE  Settlement!Next \/ UNCHANGED purchaseVars
<1>1. parties' = parties
  BY DEF Environment, FacilitatorSettles, FacilitatorDrops, Register, Deregister, Restart,
     storeVars, parties, Party
<1>2. ASSUME NEW m \in inFlight, FacilitatorSettles(m) PROVE Settlement!Next
  <2>1. m \in sent
    BY DEF IInv, TypeOK
  <2>2. Settlement!Pay(m)
    BY <1>1, <1>2 DEF FacilitatorSettles, Settlement!Pay, parties
  <2>3. QED BY <2>1, <2>2 DEF Settlement!Next
<1>3. QED BY <1>1, <1>2 DEF Environment, FacilitatorDrops, Register, Deregister, Restart, chainVars,
    purchaseVars

\* Every behaviour of the orchestrator, its services and the chain is one of
\* the abstract settlement.
THEOREM Refinement == Spec => SettlementSpec
<1>1. Init => Settlement!Init
  <2> SUFFICES ASSUME Init PROVE Settlement!Init
    OBVIOUS
  <2>1. \A r \in Run : Party(r) \in SUBSET (Check \union External)
    BY DEF Init, Party, NewRun
  <2>2. QED BY <2>1 DEF Init, Settlement!Init
<1>2. IInv /\ [Next]_vars => [Settlement!Next]_purchaseVars
  <2> SUFFICES ASSUME IInv, [Next]_vars PROVE Settlement!Next \/ UNCHANGED purchaseVars
    OBVIOUS
  <2>1. CASE UNCHANGED vars
    BY <2>1 DEF vars, purchaseVars, parties, Party
  <2>2. QED BY <2>1, ResumeRefines, RequestRefines, EnvironmentRefines DEF Next
<1>3. QED BY <1>1, <1>2, Invariance, PTL
   DEF Spec, SettlementSpec, Settlement!Spec, Settlement!vars, purchaseVars, parties
----------------------------------------
(* The ledger: it covers the fees of the run's group and leaves the reserve. *)

\* A run's ledger leaves the reserve and covers its tiers; it has been opened
\* before the buyer is asked to sign.
RunLedger(r) ==
    /\ runs[r].spent <= Budget - Reserve
    /\ runs[r].rounds > 0 => FeesOf(runs[r].tiers) <= runs[r].spent
    /\ runs[r].phase \in {"awaiting_signature", "verifying"} => runs[r].rounds > 0

\* It is opened once, when the quotes arrive.
CallLedger(h) ==
    /\ calls[h].at = "quoting" =>
            runs[calls[h].run].spent = 0 /\ runs[calls[h].run].rounds = 0
    /\ calls[h].at = "building" => runs[calls[h].run].rounds > 0

LedgerInv ==
    /\ IInv
    /\ \A r \in Run : RunLedger(r)
    /\ \A h \in Handler : CallLedger(h)

\* A step that writes no other run's ledger, and of its own request's.
LEMMA OnlyKeepsLedger ==
    ASSUME LedgerInv, IInv', NEW h \in Handler, NEW r \in Run,
           \A x \in Run \ {r} : runs'[x] = runs[x],
           \A i \in Handler \ {h} : calls'[i] = calls[i] /\ calls[i].run # r,
           RunLedger(r)', CallLedger(h)'
    PROVE  LedgerInv'
<1>1. ASSUME NEW x \in Run PROVE RunLedger(x)'
  BY DEF LedgerInv, RunLedger
<1>2. ASSUME NEW i \in Handler, i # h PROVE CallLedger(i)'
  <2>1. calls'[i] = calls[i] /\ calls[i].run # r
    BY <1>2
  <2>2. calls[i].at # "idle" => calls[i].run \in Run /\ runs'[calls[i].run] = runs[calls[i].run]
    BY <2>1 DEF LedgerInv, IInv, TypeOK
  <2>3. QED BY <2>1, <2>2 DEF LedgerInv, CallLedger
<1>3. QED BY <1>1, <1>2 DEF LedgerInv

\* A suspended request that goes on without charging anything.
LEMMA ResumeKeepsLedger ==
    ASSUME LedgerInv, IInv', NEW h \in Handler, calls[h].at # "idle", Finish(h),
           NEW r \in Run, r = calls[h].run,
           \A x \in Run \ {r} : runs'[x] = runs[x],
           runs'[r].spent = runs[r].spent, runs'[r].rounds = runs[r].rounds,
           runs'[r].tiers = runs[r].tiers,
           runs'[r].phase \in {"awaiting_signature", "verifying"} => runs[r].rounds > 0
    PROVE  LedgerInv'
<1>1. calls'[h] = IdleCall /\ \A i \in Handler \ {h} : calls'[i] = calls[i] /\ calls[i].run # r
  BY OwnedRun DEF Finish, LedgerInv, IInv, TypeOK
<1>2. RunLedger(r)' /\ CallLedger(h)'
  BY <1>1 DEF LedgerInv, RunLedger, CallLedger, IdleCall
<1>3. QED BY <1>1, <1>2, OnlyKeepsLedger

\* The ledger is opened with what the opening tiers cost.
LEMMA QuoteKeepsLedger ==
    ASSUME LedgerInv, IInv', NEW h \in Handler,
           (\E r \in Run : QuoteStart(h, r)) \/ QuotesArrive(h)
    PROVE  LedgerInv'
<1>1. ASSUME NEW r \in Run, QuoteStart(h, r) PROVE LedgerInv'
  <2>1. /\ runs'[r] = NewRun("quoting", registry)
        /\ \A x \in Run \ {r} : runs'[x] = runs[x]
    BY <1>1 DEF QuoteStart, LedgerInv, IInv, TypeOK
  <2>2. /\ calls'[h] = [at |-> "quoting", run |-> r, tiers |-> OpeningTiers, signed |-> NoGroup]
        /\ \A i \in Handler \ {h} : calls'[i] = calls[i] /\ calls[i].run # r
    BY <1>1, FreeRun DEF QuoteStart, Suspend, LedgerInv, IInv, TypeOK
  <2>3. 0 <= Budget - Reserve
    BY ReserveType, LadderTypes, PolicyAssumption
  <2>4. RunLedger(r)' /\ CallLedger(h)'
    BY <2>1, <2>2, <2>3 DEF RunLedger, CallLedger, NewRun
  <2>5. QED BY <2>1, <2>2, <2>4, OnlyKeepsLedger
<1>2. ASSUME QuotesArrive(h) PROVE LedgerInv'
  <2>1. PICK r \in Run :
            /\ r = calls[h].run /\ runs[r] \in RunRecord /\ runs[r].phase = "quoting"
            /\ \A i \in Handler \ {h} : calls[i].run # r
    BY <1>2, OwnedRun DEF QuotesArrive, LedgerInv, PhaseAt
  <2>2. runs[r].spent = 0 /\ runs[r].rounds = 0
    BY <1>2, <2>1 DEF QuotesArrive, LedgerInv, CallLedger
  <2>3. PICK fees \in Nat : fees = FeesOf(OpeningTiers) /\ fees <= Budget - Reserve
    BY LadderTypes, ReserveType, PolicyAssumption
  <2>4. /\ runs'[r].phase = "quoting" /\ runs'[r].tiers = OpeningTiers
        /\ runs'[r].spent = fees /\ runs'[r].rounds = 1
        /\ \A x \in Run \ {r} : runs'[x] = runs[x]
    <3> DEFINE rec == [runs[r] EXCEPT !.tiers = OpeningTiers, !.spent = 0 + fees,
                                      !.rounds = 0 + 1]
    <3>1. runs \in [Run -> RunRecord]
      BY DEF LedgerInv, IInv, TypeOK
    <3>2. runs' = [runs EXCEPT ![r] = rec]
      BY <1>2, <2>1, <2>2, <2>3, <3>1 DEF QuotesArrive, RunRecord
    <3>3. /\ rec.phase = "quoting" /\ rec.tiers = OpeningTiers /\ rec.spent = fees
          /\ rec.rounds = 1
      BY <2>1, <2>3 DEF RunRecord
    <3>4. QED BY <3>1, <3>2, <3>3
  <2>5. /\ calls'[h] = [at |-> "building", run |-> r, tiers |-> OpeningTiers, signed |-> NoGroup]
        /\ \A i \in Handler \ {h} : calls'[i] = calls[i]
    BY <1>2, <2>1 DEF QuotesArrive, Suspend, LedgerInv, IInv, TypeOK
  <2>6. RunLedger(r)' /\ CallLedger(h)'
    BY <2>3, <2>4, <2>5 DEF RunLedger, CallLedger
  <2>7. QED BY <2>1, <2>4, <2>5, <2>6, OnlyKeepsLedger
<1>3. QED BY <1>1, <1>2

\* An escalation charges what it buys.
LEMMA EscalateKeepsLedger ==
    ASSUME LedgerInv, IInv', NEW h \in Handler, calls[h].at = "verifying",
           NEW v \in VerdictsFor(calls[h].signed, calls[h].tiers), Escalate(h, v)
    PROVE  LedgerInv'
<1>1. PICK r \in Run :
          /\ r = calls[h].run /\ runs[r] \in RunRecord /\ runs[r].phase = "verifying"
          /\ \A i \in Handler \ {h} : calls[i].run # r
  BY OwnedRun DEF LedgerInv, PhaseAt
<1>2. v \in Verdicts
  BY VerdictTypes DEF LedgerInv, IInv, TypeOK, Call
<1>3. PICK tiers \in [Check -> Tier] : tiers = PlannedTiers(v, runs[r].spent, runs[r].tiers)
  BY <1>1, <1>2, PlanTypes DEF RunRecord
<1>4. PICK spent \in Nat : spent = SpentAfterPlan(v, runs[r].spent)
  BY <1>1, <1>2, <1>3, PlanTypes DEF RunRecord
<1>5. runs[r].rounds \in Nat /\ runs[r].rounds > 0
  BY <1>1 DEF LedgerInv, RunLedger, RunRecord
<1>6. /\ runs'[r].tiers = tiers /\ runs'[r].spent = spent
      /\ runs'[r].rounds = runs[r].rounds + 1
      /\ \A x \in Run \ {r} : runs'[x] = runs[x]
  <2> DEFINE rec == [runs[r] EXCEPT !.verdicts = v, !.tiers = tiers, !.spent = spent,
                                    !.rounds = runs[r].rounds + 1]
  <2>1. runs \in [Run -> RunRecord]
    BY DEF LedgerInv, IInv, TypeOK
  <2>2. runs' = [runs EXCEPT ![r] = rec]
    BY <1>1, <1>3, <1>4, <2>1 DEF Escalate, RunRecord
  <2>3. rec.tiers = tiers /\ rec.spent = spent /\ rec.rounds = runs[r].rounds + 1
    BY <1>1 DEF RunRecord
  <2>4. QED BY <2>1, <2>2, <2>3
<1>7. spent <= Budget - Reserve /\ FeesOf(tiers) <= spent
  <2>1. runs[r].spent <= Budget - Reserve /\ FeesOf(runs[r].tiers) <= runs[r].spent
    BY <1>5 DEF LedgerInv, RunLedger
  <2>2. QED BY <1>1, <1>2, <1>3, <1>4, <2>1, PlanPaid DEF RunRecord
<1>8. /\ calls'[h] = [at |-> "escalating", run |-> r, tiers |-> tiers, signed |-> NoGroup]
      /\ \A i \in Handler \ {h} : calls'[i] = calls[i]
  BY <1>1, <1>3 DEF Escalate, Suspend, LedgerInv, IInv, TypeOK
<1>9. RunLedger(r)' /\ CallLedger(h)'
  BY <1>5, <1>6, <1>7, <1>8 DEF RunLedger, CallLedger
<1>10. QED BY <1>1, <1>6, <1>8, <1>9, OnlyKeepsLedger

\* The steps that end a request without charging its run.
LEMMA FinishKeepsLedger ==
    ASSUME LedgerInv, IInv', NEW h \in Handler,
           QuotesFail(h) \/ BuildFails(h) \/ GroupBuilt(h) \/ SettleSucceeds(h) \/ SettleFails(h)
    PROVE  LedgerInv'
<1>1. calls[h].at # "idle" /\ Finish(h)
  BY DEF QuotesFail, BuildFails, GroupBuilt, SettleSucceeds, SettleFails
<1>2. PICK r \in Run :
          r = calls[h].run /\ runs[r] \in RunRecord /\ runs[r].phase = PhaseAt[calls[h].at]
  BY <1>1, OwnedRun DEF LedgerInv
<1>3. CASE QuotesFail(h) \/ BuildFails(h)
  <2>1. UNCHANGED runs
    BY <1>3 DEF QuotesFail, BuildFails, storeVars
  <2>2. QED BY <1>1, <1>2, <2>1, ResumeKeepsLedger DEF LedgerInv, RunLedger
<1>4. CASE GroupBuilt(h)
  <2>1. runs[r].rounds > 0
    BY <1>2, <1>4 DEF GroupBuilt, LedgerInv, CallLedger, RunLedger, PhaseAt
  <2>2. /\ runs'[r].spent = runs[r].spent /\ runs'[r].rounds = runs[r].rounds
        /\ runs'[r].tiers = runs[r].tiers /\ \A x \in Run \ {r} : runs'[x] = runs[x]
    BY <1>2, <1>4 DEF GroupBuilt, Update, LedgerInv, IInv, TypeOK, RunRecord
  <2>3. QED BY <1>1, <1>2, <2>1, <2>2, ResumeKeepsLedger
<1>5. CASE SettleSucceeds(h) \/ SettleFails(h)
  <2>1. PICK rec :
            /\ \/ rec = [runs[r] EXCEPT !.hasTxId = TRUE, !.phase = "settled"]
               \/ rec = AbortedRun(runs[r])
            /\ Update(r, rec)
    BY <1>2, <1>5 DEF SettleSucceeds, SettleFails
  <2>2. /\ rec.phase \in {"settled", "aborted"} /\ rec.spent = runs[r].spent
        /\ rec.rounds = runs[r].rounds /\ rec.tiers = runs[r].tiers
    BY <1>2, <2>1 DEF AbortedRun, RunRecord
  <2>3. runs'[r] = rec /\ \A x \in Run \ {r} : runs'[x] = runs[x]
    BY <2>1 DEF Update, LedgerInv, IInv, TypeOK
  <2>4. QED BY <1>1, <1>2, <2>2, <2>3, ResumeKeepsLedger
<1>6. QED BY <1>3, <1>4, <1>5

\* However the fan-out returns.
LEMMA VerifyKeepsLedger ==
    ASSUME LedgerInv, IInv', NEW h \in Handler, VerifyStep(h)
    PROVE  LedgerInv'
<1>1. PICK v \in VerdictsFor(calls[h].signed, calls[h].tiers) :
          \/ \E accepted \in SUBSET runs[calls[h].run].externals : ExternalRefuses(h, v, accepted)
          \/ AllConfirm(h, v) \/ Escalate(h, v) \/ GiveUp(h, v)
  BY DEF VerifyStep
<1>2. calls[h].at = "verifying"
  BY DEF VerifyStep
<1>3. PICK r \in Run : r = calls[h].run /\ runs[r] \in RunRecord /\ runs[r].phase = "verifying"
  BY <1>2, OwnedRun DEF LedgerInv, PhaseAt
<1>4. runs[r].rounds > 0
  BY <1>3 DEF LedgerInv, RunLedger
<1>5. CASE GiveUp(h, v) \/ \E acc \in SUBSET runs[calls[h].run].externals : ExternalRefuses(h, v, acc)
  <2>1. PICK rec : rec = AbortedRun([runs[r] EXCEPT !.verdicts = v])
    OBVIOUS
  <2>2. Update(r, rec) /\ Finish(h)
    BY <1>3, <1>5, <2>1 DEF GiveUp, ExternalRefuses
  <2>3. /\ rec.spent = runs[r].spent /\ rec.rounds = runs[r].rounds /\ rec.tiers = runs[r].tiers
    BY <1>3, <2>1 DEF AbortedRun, RunRecord
  <2>4. runs'[r] = rec /\ \A x \in Run \ {r} : runs'[x] = runs[x]
    BY <2>2 DEF Update, LedgerInv, IInv, TypeOK
  <2>5. QED BY <1>2, <1>3, <1>4, <2>2, <2>3, <2>4, ResumeKeepsLedger
<1>6. CASE AllConfirm(h, v)
  <2>1. /\ runs'[r].spent = runs[r].spent /\ runs'[r].rounds = runs[r].rounds
        /\ runs'[r].tiers = runs[r].tiers /\ \A x \in Run \ {r} : runs'[x] = runs[x]
    BY <1>3, <1>6 DEF AllConfirm, LedgerInv, IInv, TypeOK, RunRecord
  <2>2. QED BY <1>2, <1>3, <1>4, <1>6, <2>1, ResumeKeepsLedger DEF AllConfirm
<1>7. QED BY <1>1, <1>2, <1>5, <1>6, EscalateKeepsLedger

\* Taking a signature in and submitting charge nothing.
LEMMA StartKeepsLedger ==
    ASSUME LedgerInv, IInv', NEW h \in Handler, NEW r \in Run,
           (\E g \in Presentable : VerifyStart(h, r, g)) \/ SettleStart(h, r)
    PROVE  LedgerInv'
<1>1. /\ runs[r] \in RunRecord
      /\ \/ runs[r].phase = "awaiting_signature"
         \/ runs[r].phase = "verifying" /\ AllConfirmed(runs[r].verdicts)
  BY DEF VerifyStart, SettleStart, GateOpen, LedgerInv, IInv, TypeOK
<1>2. runs[r].rounds > 0 /\ \A i \in Handler : calls[i].run # r
  BY <1>1, FreeRun DEF LedgerInv, RunLedger
<1>3. /\ runs'[r].spent = runs[r].spent /\ runs'[r].rounds = runs[r].rounds
      /\ runs'[r].tiers = runs[r].tiers /\ \A x \in Run \ {r} : runs'[x] = runs[x]
  <2>1. PICK rec :
            /\ \/ \E g \in Presentable : rec = [runs[r] EXCEPT !.signed = g, !.phase = "verifying"]
               \/ rec = [runs[r] EXCEPT !.locked = TRUE, !.phase = "settling"]
            /\ Update(r, rec)
    BY DEF VerifyStart, SettleStart
  <2>2. rec.spent = runs[r].spent /\ rec.rounds = runs[r].rounds /\ rec.tiers = runs[r].tiers
    BY <1>1, <2>1 DEF RunRecord
  <2>3. runs'[r] = rec /\ \A x \in Run \ {r} : runs'[x] = runs[x]
    BY <2>1 DEF Update, LedgerInv, IInv, TypeOK
  <2>4. QED BY <2>2, <2>3
<1>4. /\ calls'[h].at \in {"verifying", "settling"}
      /\ \A i \in Handler \ {h} : calls'[i] = calls[i]
  <2>1. calls \in [Handler -> Call]
    BY DEF LedgerInv, IInv, TypeOK
  <2>2. PICK at \in {"verifying", "settling"} :
            \E tiers, signed : Suspend(h, at, r, tiers, signed)
    BY DEF VerifyStart, SettleStart
  <2>3. QED BY <2>1, <2>2 DEF Suspend
<1>5. RunLedger(r)' /\ CallLedger(h)'
  BY <1>2, <1>3, <1>4 DEF LedgerInv, RunLedger, CallLedger
<1>6. QED BY <1>2, <1>3, <1>4, <1>5, OnlyKeepsLedger

\* No ledger is open at first.
LEMMA LedgerInit == Init => LedgerInv
<1> SUFFICES ASSUME Init PROVE LedgerInv
  OBVIOUS
<1>1. 0 <= Budget - Reserve
  BY ReserveType, LadderTypes, PolicyAssumption
<1>2. QED BY <1>1, InitInv DEF Init, LedgerInv, RunLedger, CallLedger, NewRun, IdleCall

\* Every step keeps the ledgers.
LEMMA LedgerNext == LedgerInv /\ [Next]_vars => LedgerInv'
<1> SUFFICES ASSUME LedgerInv, [Next]_vars PROVE LedgerInv'
  OBVIOUS
<1>1. IInv'
  BY NextInv DEF LedgerInv
<1>2. ASSUME NEW h \in Handler, Resume(h) \/ Request(h) PROVE LedgerInv'
  BY <1>1, <1>2, QuoteKeepsLedger, FinishKeepsLedger, VerifyKeepsLedger, StartKeepsLedger
  DEF Resume, Request
<1>3. CASE Environment \/ UNCHANGED vars
  <2>1. runs' = runs /\ (calls' = calls \/ \A h \in Handler : calls'[h] = IdleCall)
    BY <1>3 DEF Environment, FacilitatorSettles, FacilitatorDrops, Register, Deregister, Restart,
       storeVars, vars
  <2>2. \A r \in Run : RunLedger(r)'
    BY <2>1 DEF LedgerInv, RunLedger
  <2>3. \A h \in Handler : CallLedger(h)'
    BY <2>1 DEF LedgerInv, CallLedger, IdleCall
  <2>4. QED BY <1>1, <2>2, <2>3 DEF LedgerInv
<1>4. QED BY <1>2, <1>3 DEF Next

\* Whatever the services answer and however the rounds go, the ledger leaves the
\* reserve and covers what the run's group owes the checks.
THEOREM LedgerSound == Spec => []LedgerWithinBudget
<1>1. LedgerInv => LedgerWithinBudget
  BY DEF LedgerInv, RunLedger, LedgerWithinBudget
<1>2. QED BY <1>1, LedgerInit, LedgerNext, PTL DEF Spec
----------------------------------------
(* The one way to settlement. *)

\* The code's policy and services: only a deep verification confirms a seller, two deep
\* answers and a shallow one are more than the reserve leaves, and MAX_ROUNDS is no
\* more than it takes to get to the deep tier.
OneDeepAnswer ==
    /\ \A t \in Tier : \A v \in Answers["verification"][t] : v.confidence = "confirmed" => t = "deep"
    /\ Budget - Reserve < 2 * TierFee["deep"] + TierFee["shallow"]
    /\ MaxRounds <= 3

\* The defaults of the policy and the answers of the services are of this kind.
LEMMA CodeBuysOneDeepAnswer ==
    ASSUME Answers = ServiceAnswers, Budget = 500000, ReservePercent = 20, MaxRounds = 3
    PROVE  OneDeepAnswer
<1>1. ASSUME NEW t \in Tier, NEW v \in Answers["verification"][t], v.confidence = "confirmed"
      PROVE  t = "deep"
  <2>1. v \in VerificationAnswers(t)
    BY <1>1 DEF ServiceAnswers, AnswersOf, Tier
  <2>2. CASE t = "shallow"
    BY <1>1, <2>1, <2>2 DEF VerificationAnswers, Refusal, Answer
  <2>3. CASE t = "standard"
    BY <1>1, <2>1, <2>3 DEF VerificationAnswers, Refusal, Answer
  <2>4. QED BY <2>2, <2>3 DEF Tier
<1>2. Reserve = 100000
  BY DEF Reserve
<1>3. Budget - Reserve < 2 * TierFee["deep"] + TierFee["shallow"]
  BY <1>2 DEF TierFee
<1>4. QED BY <1>1, <1>3 DEF OneDeepAnswer

\* A tier costs as many rounds as it is deep, and rounds are limited.
RunDepth(r) ==
    /\ runs[r].rounds <= 1 \/ runs[r].rounds <= MaxRounds
    /\ \A c \in Check : /\ runs[r].tiers[c] = "standard" => runs[r].rounds >= 2
                        /\ runs[r].tiers[c] = "deep" => runs[r].rounds >= 3

\* What the verification agreed to, it was paid for in depth.
DeepConsent ==
    \A r \in Run, g \in Group :
        <<r, g, "verification">> \in agreed => g.tiers["verification"] = "deep"

DepthInv == (\A r \in Run : RunDepth(r)) /\ DeepConsent

\* A round as it advances: each check stays at its tier or goes one deeper.
Advances(r) ==
    /\ runs[r].rounds > 0 /\ runs[r].rounds < MaxRounds
    /\ runs'[r].rounds = runs[r].rounds + 1
    /\ \A c \in Check : runs'[r].tiers[c] \in {runs[r].tiers[c], NextTier[runs[r].tiers[c]]}

\* How a step may change the tiers of a run.
DepthStep(r) ==
    \/ runs'[r].rounds = runs[r].rounds /\ runs'[r].tiers = runs[r].tiers
    \/ runs'[r].rounds \in {0, 1} /\ runs'[r].tiers = OpeningTiers
    \/ Advances(r)

\* An escalation goes one tier deeper than the answers it replaces, which are of the
\* run's tiers.
LEMMA EscalateAdvances ==
    ASSUME LedgerInv, NEW h \in Handler, calls[h].at = "verifying",
           NEW v \in VerdictsFor(calls[h].signed, calls[h].tiers), Escalate(h, v), NEW r \in Run
    PROVE  DepthStep(r)
<1>1. CASE r # calls[h].run
  BY <1>1 DEF Escalate, LedgerInv, IInv, TypeOK, DepthStep
<1>2. CASE r = calls[h].run
  <2>1. /\ runs[r] \in RunRecord /\ calls[h].tiers = runs[r].tiers /\ runs[r].rounds > 0
    BY <1>2, OwnedRun DEF LedgerInv, IInv, TypeOK, CallInv, Asking, RunLedger, PhaseAt
  <2>2. PICK tiers : tiers = PlannedTiers(v, runs[r].spent, runs[r].tiers)
    OBVIOUS
  <2>3. PICK spent : spent = SpentAfterPlan(v, runs[r].spent)
    OBVIOUS
  <2>4. runs'[r].tiers = tiers /\ runs'[r].rounds = runs[r].rounds + 1
    <3> DEFINE rec == [runs[r] EXCEPT !.verdicts = v, !.tiers = tiers, !.spent = spent,
                                      !.rounds = runs[r].rounds + 1]
    <3>1. runs \in [Run -> RunRecord]
      BY DEF LedgerInv, IInv, TypeOK
    <3>2. runs' = [runs EXCEPT ![r] = rec]
      BY <1>2, <2>1, <2>2, <2>3, <3>1 DEF Escalate, RunRecord
    <3>3. rec.tiers = tiers /\ rec.rounds = runs[r].rounds + 1
      BY <2>1 DEF RunRecord
    <3>4. QED BY <3>1, <3>2, <3>3
  <2>5. ASSUME NEW c \in Check
        PROVE  tiers[c] \in {runs[r].tiers[c], NextTier[runs[r].tiers[c]]}
    <3>1. CASE PlanBuys(c, v, runs[r].spent)
      <4>1. v[c] # NoAnswer /\ v[c] \in Reply(c, calls[h].signed, calls[h].tiers)
        BY <3>1 DEF PlanBuys, VerdictsFor
      <4>2. v[c] \in Answers[c][runs[r].tiers[c]] /\ runs[r].tiers[c] \in Tier
        BY <2>1, <4>1 DEF Reply, RunRecord
      <4>3. v[c] \in Verdict
        BY <4>2, LifecycleAssumption
      <4>4. v[c].tier = runs[r].tiers[c]
        BY <4>2, <4>3, LifecycleAssumption
      <4>5. tiers[c] = NextTier[v[c].tier]
        BY <2>2, <3>1 DEF PlannedTiers
      <4>6. QED BY <4>4, <4>5
    <3>2. CASE ~PlanBuys(c, v, runs[r].spent)
      BY <2>2, <3>2 DEF PlannedTiers
    <3>3. QED BY <3>1, <3>2
  <2>6. runs[r].rounds < MaxRounds
    BY <1>2 DEF Escalate, MayEscalate
  <2>7. QED BY <2>1, <2>4, <2>5, <2>6 DEF DepthStep, Advances
<1>3. QED BY <1>1, <1>2

\* The other steps of a request leave tiers and rounds alone, or open the first round.
LEMMA RequestsKeepDepth ==
    ASSUME LedgerInv, NEW h \in Handler, Resume(h) \/ Request(h), NEW r \in Run
    PROVE  DepthStep(r)
<1>1. runs \in [Run -> RunRecord]
  BY DEF LedgerInv, IInv, TypeOK
<1>2. ASSUME NEW rec, NEW x \in Run, Update(x, rec), rec.tiers = runs[x].tiers,
             rec.rounds = runs[x].rounds
      PROVE  DepthStep(r)
  BY <1>1, <1>2 DEF Update, DepthStep
<1>3. CASE Request(h)
  <2>1. PICK x \in Run :
            QuoteStart(h, x) \/ (\E g \in Presentable : VerifyStart(h, x, g)) \/ SettleStart(h, x)
    BY <1>3 DEF Request
  <2>2. CASE QuoteStart(h, x)
    BY <1>1, <2>2 DEF QuoteStart, NewRun, DepthStep
  <2>3. ASSUME NEW g \in Presentable, VerifyStart(h, x, g) PROVE DepthStep(r)
    <3>1. PICK rec : rec = [runs[x] EXCEPT !.signed = g, !.phase = "verifying"]
      OBVIOUS
    <3>2. rec.tiers = runs[x].tiers /\ rec.rounds = runs[x].rounds
      BY <1>1, <3>1 DEF RunRecord
    <3>3. QED BY <1>2, <2>3, <3>1, <3>2 DEF VerifyStart
  <2>4. CASE SettleStart(h, x)
    <3>1. PICK rec : rec = [runs[x] EXCEPT !.locked = TRUE, !.phase = "settling"]
      OBVIOUS
    <3>2. rec.tiers = runs[x].tiers /\ rec.rounds = runs[x].rounds
      BY <1>1, <3>1 DEF RunRecord
    <3>3. QED BY <1>2, <2>4, <3>1, <3>2 DEF SettleStart
  <2>5. QED BY <2>1, <2>2, <2>3, <2>4
<1>4. CASE Resume(h)
  <2>1. calls[h].at # "idle"
    BY <1>4 DEF Resume, QuotesFail, QuotesArrive, BuildFails, GroupBuilt, VerifyStep,
       SettleSucceeds, SettleFails
  <2>2. PICK x \in Run : x = calls[h].run /\ runs[x] \in RunRecord
    BY <2>1, OwnedRun DEF LedgerInv
  <2>3. CASE QuotesFail(h) \/ BuildFails(h)
    BY <2>3 DEF QuotesFail, BuildFails, storeVars, DepthStep
  <2>4. CASE QuotesArrive(h)
    <3>1. runs[x].rounds = 0
      BY <2>2, <2>4 DEF QuotesArrive, LedgerInv, CallLedger
    <3>2. PICK fees : fees = runs[x].spent + FeesOf(OpeningTiers)
      OBVIOUS
    <3>3. runs' = [runs EXCEPT ![x] = [runs[x] EXCEPT !.tiers = OpeningTiers, !.spent = fees,
                                                      !.rounds = 0 + 1]]
      BY <1>1, <2>2, <2>4, <3>1, <3>2 DEF QuotesArrive, RunRecord
    <3>4. QED BY <1>1, <2>2, <3>3 DEF DepthStep, RunRecord
  <2>5. CASE GroupBuilt(h)
    <3>1. PICK g : g = GroupFor(x, calls[h].tiers)
      OBVIOUS
    <3>2. PICK rec : rec = [runs[x] EXCEPT !.built = g, !.signed = NoGroup,
                                           !.phase = "awaiting_signature"]
      OBVIOUS
    <3>3. rec.tiers = runs[x].tiers /\ rec.rounds = runs[x].rounds
      BY <2>2, <3>2 DEF RunRecord
    <3>4. QED BY <1>2, <2>2, <2>5, <3>1, <3>2, <3>3 DEF GroupBuilt
  <2>6. CASE SettleSucceeds(h) \/ SettleFails(h)
    <3>1. PICK rec : /\ \/ rec = [runs[x] EXCEPT !.hasTxId = TRUE, !.phase = "settled"]
                        \/ rec = AbortedRun(runs[x])
                     /\ Update(x, rec)
      BY <2>2, <2>6 DEF SettleSucceeds, SettleFails
    <3>2. rec.tiers = runs[x].tiers /\ rec.rounds = runs[x].rounds
      BY <2>2, <3>1 DEF RunRecord, AbortedRun
    <3>3. QED BY <1>2, <3>1, <3>2
  <2>7. CASE VerifyStep(h)
    <3>1. calls[h].at = "verifying"
      BY <2>7 DEF VerifyStep
    <3>2. PICK v \in VerdictsFor(calls[h].signed, calls[h].tiers) :
              \/ \E acc \in SUBSET runs[calls[h].run].externals : ExternalRefuses(h, v, acc)
              \/ AllConfirm(h, v) \/ Escalate(h, v) \/ GiveUp(h, v)
      BY <2>7 DEF VerifyStep
    <3>3. CASE GiveUp(h, v) \/ \E acc \in SUBSET runs[calls[h].run].externals :
                                   ExternalRefuses(h, v, acc)
      <4>1. PICK rec : rec = AbortedRun([runs[x] EXCEPT !.verdicts = v])
        OBVIOUS
      <4>2. rec.tiers = runs[x].tiers /\ rec.rounds = runs[x].rounds
        BY <2>2, <4>1 DEF RunRecord, AbortedRun
      <4>3. QED BY <1>2, <2>2, <3>3, <4>1, <4>2 DEF GiveUp, ExternalRefuses
    <3>4. CASE AllConfirm(h, v)
      BY <1>1, <2>2, <3>4 DEF AllConfirm, DepthStep, RunRecord
    <3>5. QED BY <3>1, <3>2, <3>3, <3>4, EscalateAdvances
  <2>8. QED BY <1>4, <2>3, <2>4, <2>5, <2>6, <2>7 DEF Resume
<1>5. QED BY <1>3, <1>4

\* Going one tier deeper takes one more round.
LEMMA DepthKept ==
    ASSUME LedgerInv, NEW r \in Run, RunDepth(r), DepthStep(r)
    PROVE  RunDepth(r)'
<1>1. runs[r].rounds \in Nat /\ runs[r].tiers \in [Check -> Tier] /\ MaxRounds \in Nat
  BY LifecycleAssumption DEF LedgerInv, IInv, TypeOK, RunRecord
<1>2. CASE runs'[r].rounds = runs[r].rounds /\ runs'[r].tiers = runs[r].tiers
  BY <1>2 DEF RunDepth
<1>3. CASE runs'[r].rounds \in {0, 1} /\ runs'[r].tiers = OpeningTiers
  BY <1>3 DEF RunDepth, OpeningTiers
<1>4. CASE Advances(r)
  <2>1. PICK n \in Nat : n = runs[r].rounds /\ n > 0 /\ n < MaxRounds /\ runs'[r].rounds = n + 1
    BY <1>1, <1>4 DEF Advances
  <2>2. ASSUME NEW c \in Check
        PROVE  /\ runs'[r].tiers[c] = "standard" => n + 1 >= 2
               /\ runs'[r].tiers[c] = "deep" => n + 1 >= 3
    <3>1. PICK t \in Tier : t = runs[r].tiers[c]
      BY <1>1
    <3>2. runs'[r].tiers[c] = t \/ runs'[r].tiers[c] = NextTier[t]
      BY <1>4, <3>1 DEF Advances
    <3>3. (t = "standard" => n >= 2) /\ (t = "deep" => n >= 3)
      BY <2>1, <3>1 DEF RunDepth
    <3>4. NextTier[t] = "deep" => t # "shallow"
      BY DEF NextTier, Tier
    <3>5. QED BY <2>1, <3>1, <3>2, <3>3, <3>4 DEF Tier
  <2>3. QED BY <1>1, <2>1, <2>2 DEF RunDepth
<1>5. QED BY <1>2, <1>3, <1>4 DEF DepthStep

\* Only a deep verification, paid as one, agrees.
LEMMA ConsentIsDeep ==
    ASSUME OneDeepAnswer, LedgerInv, DeepConsent, [Next]_vars
    PROVE  DeepConsent'
<1>1. ASSUME NEW h \in Handler, VerifyStep(h) PROVE DeepConsent'
  <2>1. PICK v \in VerdictsFor(calls[h].signed, calls[h].tiers) :
            \/ \E acc \in SUBSET runs[calls[h].run].externals : ExternalRefuses(h, v, acc)
            \/ AllConfirm(h, v) \/ Escalate(h, v) \/ GiveUp(h, v)
    BY <1>1 DEF VerifyStep
  <2>2. PICK acc \in SUBSET runs[calls[h].run].externals : VerifyReturns(h, v, acc)
    BY <2>1 DEF ExternalRefuses, AllConfirm, Escalate, GiveUp
  <2>3. PICK g \in Group : g = calls[h].signed
    BY <1>1 DEF VerifyStep, LedgerInv, IInv, TypeOK
  <2>4. acc \subseteq External /\ "verification" \notin External /\ "verification" \in Check
    <3>1. calls[h].run \in Run /\ runs[calls[h].run] \in RunRecord
      BY <1>1 DEF VerifyStep, LedgerInv, IInv, TypeOK
    <3>2. QED BY <3>1, LifecycleAssumption DEF RunRecord, Check
  <2>5. ASSUME Confirmed(v["verification"]) PROVE g.tiers["verification"] = "deep"
    <3> DEFINE t == calls[h].tiers["verification"]
    <3>1. /\ v["verification"] # NoAnswer /\ v["verification"].confidence = "confirmed"
          /\ v["verification"] \in Reply("verification", g, calls[h].tiers)
      BY <2>3, <2>4, <2>5 DEF Confirmed, VerdictsFor
    <3>2. g.tiers["verification"] = t /\ v["verification"] \in Answers["verification"][t]
      BY <3>1 DEF Reply
    <3>3. t \in Tier
      BY <2>4 DEF LedgerInv, IInv, TypeOK, Call
    <3>4. t = "deep"
      BY <3>1, <3>2, <3>3 DEF OneDeepAnswer
    <3>5. QED BY <3>2, <3>4
  <2>6. \A x, p : <<x, p, "verification">> \in agreed' =>
            \/ <<x, p, "verification">> \in agreed
            \/ p = g /\ Confirmed(v["verification"])
    BY <2>2, <2>3, <2>4 DEF VerifyReturns
  <2>7. QED BY <2>5, <2>6 DEF DeepConsent
<1>2. CASE ~\E h \in Handler : VerifyStep(h)
  <2>1. ASSUME NEW h \in Handler, Resume(h) PROVE agreed' = agreed
    BY <1>2, <2>1 DEF Resume, QuotesFail, QuotesArrive, BuildFails, GroupBuilt, SettleSucceeds,
       SettleFails
  <2>2. ASSUME NEW h \in Handler, Request(h) PROVE agreed' = agreed
    BY <2>2 DEF Request, QuoteStart, VerifyStart, SettleStart
  <2>3. ASSUME Environment PROVE agreed' = agreed
    BY <2>3 DEF Environment, FacilitatorSettles, FacilitatorDrops, Register, Deregister, Restart
  <2>4. Next => agreed' = agreed
    BY <2>1, <2>2, <2>3 DEF Next
  <2>5. agreed' = agreed
    BY <2>4 DEF vars
  <2>6. QED BY <2>5 DEF DeepConsent
<1>3. QED BY <1>1, <1>2

LEMMA DepthNext ==
    ASSUME OneDeepAnswer, LedgerInv, DepthInv, [Next]_vars
    PROVE  DepthInv'
<1>1. ASSUME NEW r \in Run PROVE RunDepth(r)'
  <2>1. CASE Environment \/ UNCHANGED vars
    BY <2>1 DEF Environment, FacilitatorSettles, FacilitatorDrops, Register, Deregister, Restart,
       storeVars, vars, DepthInv, RunDepth
  <2>2. CASE \E h \in Handler : Resume(h) \/ Request(h)
    BY <2>2, RequestsKeepDepth, DepthKept DEF DepthInv
  <2>3. QED BY <2>1, <2>2 DEF Next
<1>2. QED BY <1>1, ConsentIsDeep DEF DepthInv

\* With the code's policy and services a run that settles has used every round, bought
\* the deep verification and no other deep answer.
THEOREM OneWayTheorem ==
    ASSUME OneDeepAnswer
    PROVE  Spec => []OnlyVerificationGoesDeep
<1>1. Init => DepthInv
  BY DEF Init, NewRun, OpeningTiers, DepthInv, RunDepth, DeepConsent
<1>2. LedgerInv /\ DepthInv => OnlyVerificationGoesDeep
  <2>1. SUFFICES ASSUME LedgerInv, DepthInv, NEW m \in sent
                 PROVE  /\ runs[m.run].rounds = MaxRounds
                        /\ m.group.tiers["verification"] = "deep"
                        /\ \A c \in Check \ {"verification"} : m.group.tiers[c] # "deep"
    BY DEF OnlyVerificationGoesDeep
  <2>2. PICK r \in Run : r = m.run /\ Submitted(r) /\ m.group \in Group
    BY <2>1, SentRun DEF LedgerInv, IInv, TypeOK, Submission
  <2>3. PICK tiers \in [Check -> Tier] : tiers = m.group.tiers /\ tiers = runs[r].tiers
    BY <2>1, <2>2 DEF Submitted, Settleable, Group
  <2>4. tiers["verification"] = "deep"
    BY <2>1, <2>2, <2>3 DEF Submitted, Settleable, Party, Check, DepthInv, DeepConsent
  <2>5. PICK n \in Nat : n = runs[r].rounds
    BY <2>1 DEF LedgerInv, IInv, TypeOK, RunRecord
  <2>6. n >= 3 /\ (n <= 1 \/ n <= MaxRounds)
    BY <2>1, <2>3, <2>4, <2>5 DEF DepthInv, RunDepth, Check
  <2>7. n = MaxRounds
    <3>1. MaxRounds \in Nat
      BY LifecycleAssumption
    <3>2. MaxRounds <= 3
      BY DEF OneDeepAnswer
    <3>3. QED BY <2>5, <2>6, <3>1, <3>2
  <2>8. FeesOf(tiers) <= Budget - Reserve
    <3>1. runs[r].spent \in Nat /\ runs[r].spent <= Budget - Reserve /\ FeesOf(tiers) <= runs[r].spent
      BY <2>1, <2>3, <2>5, <2>6 DEF LedgerInv, RunLedger, IInv, TypeOK, RunRecord
    <3>2. FeesOf(tiers) \in Nat /\ Reserve \in Nat /\ Budget \in Nat
      BY LadderTypes, ReserveType, PolicyAssumption
    <3>3. QED BY <3>1, <3>2
  <2>9. tiers["price"] # "deep" /\ tiers["availability"] # "deep"
    <3>1. PICK p \in Tier, a \in Tier : p = tiers["price"] /\ a = tiers["availability"]
      BY DEF Check
    <3>2. TierFee[p] + TierFee[a] + TierFee["deep"] < 2 * TierFee["deep"] + TierFee["shallow"]
      BY <2>4, <2>8, <3>1, ReserveType, PolicyAssumption DEF FeesOf, OneDeepAnswer, TierFee, Tier
    <3>3. QED BY <3>1, <3>2 DEF TierFee, Tier
  <2>10. QED BY <2>2, <2>3, <2>4, <2>5, <2>7, <2>9 DEF Check
<1>3. OneDeepAnswer /\ LedgerInv /\ DepthInv /\ [Next]_vars => DepthInv'
  BY DepthNext
<1>4. OneDeepAnswer
  OBVIOUS
<1>5. DepthInv /\ LedgerInv /\ [Next]_vars => DepthInv'
  BY <1>3, <1>4
<1>6. QED BY <1>1, <1>2, <1>5, LedgerInit, LedgerNext, PTL DEF Spec
----------------------------------------
(* The store: what it keeps, and that it forgets for good. *)

\* Among any runs of the store there is an oldest one: all the others are newer.
OldestFirst == \A S \in (SUBSET store) \ {{}} : \E x \in S : S \ {x} \subseteq newer[x]

StoreInv ==
    /\ IsFiniteSet(store) /\ Cardinality(store) <= MaxRuns + 1
    /\ OldestFirst

\* A store with nothing in it.
LEMMA EmptyStore == IsFiniteSet({}) /\ Cardinality({}) <= MaxRuns + 1
  BY FS_EmptySet, LifecycleAssumption

\* createRun makes room: with the new run the store is one above MAX_RUNS at most.
LEMMA KeptFits ==
    ASSUME TypeOK, StoreInv, NEW expired
    PROVE  LET kept == Kept(expired)
           IN  kept \subseteq store /\ IsFiniteSet(kept) /\ Cardinality(kept) <= MaxRuns
<1> DEFINE live == store \ expired
           kept == {x \in live : Cardinality(newer[x] \cap live) < MaxRuns}
<1>1. kept = Kept(expired) /\ kept \subseteq live /\ live \subseteq store
  BY DEF Kept
<1>2. IsFiniteSet(live) /\ IsFiniteSet(kept)
  BY <1>1, FS_Subset DEF StoreInv
<1> HIDE DEF kept
<1>3. MaxRuns \in Nat
  BY LifecycleAssumption
<1>4. CASE kept = {}
  <2>1. Cardinality(kept) = 0
    BY <1>4, FS_EmptySet
  <2>2. QED BY <1>1, <1>2, <1>3, <2>1
<1>5. CASE kept # {}
  <2>1. PICK x \in kept : kept \ {x} \subseteq newer[x]
    BY <1>1, <1>5 DEF StoreInv, OldestFirst
  <2>2. kept \ {x} \subseteq newer[x] \cap live /\ Cardinality(newer[x] \cap live) < MaxRuns
    BY <1>1, <2>1 DEF kept
  <2>3. IsFiniteSet(newer[x] \cap live)
    BY <1>2, FS_Subset
  <2>4. PICK n \in Nat : n = Cardinality(newer[x] \cap live)
    BY <2>3, FS_CardinalityType
  <2>5. Cardinality(kept \ {x}) <= n
    BY <2>2, <2>3, <2>4, FS_Subset
  <2>6. Cardinality(kept \ {x}) = Cardinality(kept) - 1 /\ Cardinality(kept) \in Nat
    BY <1>2, <2>1, FS_RemoveElement, FS_CardinalityType
  <2>7. QED BY <1>1, <1>2, <1>3, <2>2, <2>4, <2>5, <2>6
<1>6. QED BY <1>4, <1>5

\* A new run is the newest of those that were kept.
LEMMA QuoteKeepsStore ==
    ASSUME TypeOK, StoreInv, NEW h \in Handler, NEW r \in Run, QuoteStart(h, r)
    PROVE  StoreInv'
<1>1. PICK expired \in Expirable :
          /\ store' = Kept(expired) \union {r}
          /\ newer' = [x \in Run |-> IF x \in Kept(expired)
                                     THEN (newer[x] \cap Kept(expired)) \union {r} ELSE {}]
  BY DEF QuoteStart
<1>2. PICK kept : kept = Kept(expired)
  OBVIOUS
<1>3. kept \subseteq store /\ IsFiniteSet(kept) /\ Cardinality(kept) <= MaxRuns
  BY <1>2, KeptFits
<1>4. IsFiniteSet(store') /\ Cardinality(store') <= MaxRuns + 1
  <2>1. Cardinality(kept) \in Nat /\ MaxRuns \in Nat
    BY <1>3, FS_CardinalityType, LifecycleAssumption
  <2>2. /\ IsFiniteSet(kept \union {r})
        /\ Cardinality(kept \union {r}) \in {Cardinality(kept), Cardinality(kept) + 1}
    BY <1>3, FS_AddElement
  <2>3. QED BY <1>1, <1>2, <1>3, <2>1, <2>2
<1>5. ASSUME NEW S \in SUBSET store', S # {} PROVE \E x \in S : S \ {x} \subseteq newer'[x]
  <2>1. CASE S \ {r} = {}
    BY <1>5, <2>1
  <2>2. CASE S \ {r} # {}
    <3>1. S \ {r} \subseteq kept
      BY <1>1, <1>2
    <3>2. PICK x \in S \ {r} : (S \ {r}) \ {x} \subseteq newer[x]
      BY <1>3, <2>2, <3>1 DEF StoreInv, OldestFirst
    <3>3. x \in Run /\ newer'[x] = (newer[x] \cap kept) \union {r}
      BY <1>1, <1>2, <1>3, <3>1 DEF TypeOK
    <3>4. QED BY <3>1, <3>2, <3>3
  <2>3. QED BY <2>1, <2>2
<1>6. QED BY <1>4, <1>5 DEF StoreInv, OldestFirst

\* A run that is written becomes the newest of the store.
LEMMA TouchKeepsStore ==
    ASSUME TypeOK, StoreInv, NEW r \in Run, Touch(r), UNCHANGED store
    PROVE  StoreInv'
<1>1. ASSUME NEW S \in SUBSET store, S # {} PROVE \E x \in S : S \ {x} \subseteq newer'[x]
  <2>1. CASE S \ {r} = {}
    BY <1>1, <2>1
  <2>2. CASE S \ {r} # {}
    <3>1. PICK x \in S \ {r} : (S \ {r}) \ {x} \subseteq newer[x]
      BY <2>2 DEF StoreInv, OldestFirst
    <3>2. CASE r \in store
      <4>1. newer'[x] = newer[x] \union {r}
        BY <3>1, <3>2 DEF Touch, TypeOK
      <4>2. QED BY <3>1, <4>1
    <3>3. CASE r \notin store
      BY <3>1, <3>3 DEF Touch
    <3>4. QED BY <3>2, <3>3
  <2>3. QED BY <2>1, <2>2
<1>2. QED BY <1>1 DEF StoreInv, OldestFirst

\* No other step writes to the store.
LEMMA StoreStep == TypeOK /\ StoreInv /\ [Next]_vars => StoreInv'
<1> SUFFICES ASSUME TypeOK, StoreInv, [Next]_vars PROVE StoreInv'
  OBVIOUS
<1>1. ASSUME UNCHANGED <<store, newer>> PROVE StoreInv'
  BY <1>1 DEF StoreInv, OldestFirst
<1>2. ASSUME NEW h \in Handler, Resume(h) PROVE StoreInv'
  <2>1. CASE QuotesFail(h) \/ QuotesArrive(h) \/ BuildFails(h)
    BY <1>1, <2>1 DEF QuotesFail, QuotesArrive, BuildFails, storeVars
  <2>2. CASE VerifyStep(h)
    <3>1. UNCHANGED <<store, newer>> \/ \E rec : Update(calls[h].run, rec)
      BY <2>2 DEF VerifyStep, ExternalRefuses, AllConfirm, Escalate, GiveUp
    <3>2. calls[h].run \in Run
      BY <2>2 DEF VerifyStep, TypeOK
    <3>3. QED BY <1>1, <3>1, <3>2, TouchKeepsStore DEF Update
  <2>3. CASE GroupBuilt(h) \/ SettleSucceeds(h) \/ SettleFails(h)
    <3>1. \E rec : Update(calls[h].run, rec)
      BY <2>3 DEF GroupBuilt, SettleSucceeds, SettleFails
    <3>2. calls[h].run \in Run
      BY <2>3 DEF GroupBuilt, SettleSucceeds, SettleFails, TypeOK
    <3>3. QED BY <3>1, <3>2, TouchKeepsStore DEF Update
  <2>4. QED BY <1>2, <2>1, <2>2, <2>3 DEF Resume
<1>3. ASSUME NEW h \in Handler, Request(h) PROVE StoreInv'
  <2>1. PICK r \in Run :
            QuoteStart(h, r) \/ (\E g \in Presentable : VerifyStart(h, r, g)) \/ SettleStart(h, r)
    BY <1>3 DEF Request
  <2>2. CASE QuoteStart(h, r)
    BY <2>2, QuoteKeepsStore
  <2>3. CASE (\E g \in Presentable : VerifyStart(h, r, g)) \/ SettleStart(h, r)
    <3>1. \E rec : Update(r, rec)
      BY <2>3 DEF VerifyStart, SettleStart
    <3>2. QED BY <3>1, TouchKeepsStore DEF Update
  <2>4. QED BY <2>1, <2>2, <2>3
<1>4. CASE Environment
  <2>1. CASE Restart
    BY <2>1, EmptyStore DEF Restart, StoreInv, OldestFirst
  <2>2. CASE ~Restart
    BY <1>1, <1>4, <2>2
    DEF Environment, FacilitatorSettles, FacilitatorDrops, Register, Deregister, storeVars
  <2>3. QED BY <2>1, <2>2
<1>5. CASE UNCHANGED vars
  BY <1>1, <1>5 DEF vars
<1>6. QED BY <1>2, <1>3, <1>4, <1>5 DEF Next

\* A step adds to the store a run that has just been created, and takes up or submits
\* only a run that is in the store.
LEMMA OnlyStoredRuns ==
    ASSUME IInv, Next, NEW r \in Run, runs[r].phase # "idle", r \notin store
    PROVE  /\ r \notin store'
           /\ \A m \in sent' \ sent : m.run # r
           /\ \A h \in Handler : calls'[h].run = r => calls[h].run = r
<1> USE DEF IInv, TypeOK
<1>1. r # NoRun /\ IdleCall.run # r
  BY LifecycleAssumption DEF IdleCall
<1>2. ASSUME NEW h \in Handler, Resume(h) PROVE
          /\ UNCHANGED <<store, sent>>
          /\ \A i \in Handler : calls'[i].run \in {calls[i].run, NoRun}
  <2>1. CASE VerifyStep(h)
    <3>1. UNCHANGED <<store, sent>>
      BY <2>1 DEF VerifyStep, VerifyReturns, ExternalRefuses, AllConfirm, Escalate, GiveUp,
         Update, chainVars
    <3>2. Finish(h) \/ \E tiers : Suspend(h, "escalating", calls[h].run, tiers, NoGroup)
      BY <2>1 DEF VerifyStep, ExternalRefuses, AllConfirm, Escalate, GiveUp
    <3>3. QED BY <3>1, <3>2 DEF Finish, Suspend, IdleCall
  <2>2. CASE ~VerifyStep(h)
    <3>1. UNCHANGED <<store, sent>>
      BY <1>2, <2>2 DEF Resume, QuotesFail, QuotesArrive, BuildFails, GroupBuilt, SettleSucceeds,
         SettleFails, Update, chainVars, storeVars
    <3>2. Finish(h) \/ \E tiers : Suspend(h, "building", calls[h].run, tiers, NoGroup)
      BY <1>2, <2>2
      DEF Resume, QuotesFail, QuotesArrive, BuildFails, GroupBuilt, SettleSucceeds, SettleFails
    <3>3. QED BY <3>1, <3>2 DEF Finish, Suspend, IdleCall
  <2>3. QED BY <2>1, <2>2
<1>3. ASSUME NEW h \in Handler, NEW x \in Run, QuoteStart(h, x) PROVE
          /\ x # r /\ store' \subseteq store \union {x} /\ UNCHANGED sent
          /\ \A i \in Handler : calls'[i].run \in {calls[i].run, x}
  BY <1>3 DEF QuoteStart, Kept, Suspend, chainVars
<1>4. ASSUME NEW h \in Handler, NEW x \in Run, NEW g \in Presentable, VerifyStart(h, x, g) PROVE
          /\ x # r /\ UNCHANGED <<store, sent>>
          /\ \A i \in Handler : calls'[i].run \in {calls[i].run, x}
  BY <1>4 DEF VerifyStart, Update, Suspend, chainVars
<1>5. ASSUME NEW h \in Handler, NEW x \in Run, SettleStart(h, x) PROVE
          /\ x # r /\ UNCHANGED store /\ \A m \in sent' \ sent : m.run = x
          /\ \A i \in Handler : calls'[i].run \in {calls[i].run, x}
  BY <1>5 DEF SettleStart, SubmissionOf, Update, Suspend
<1>6. CASE Environment
  <2>1. store' \subseteq store /\ UNCHANGED sent
    BY <1>6 DEF Environment, FacilitatorSettles, FacilitatorDrops, Register, Deregister, Restart,
       storeVars, chainVars
  <2>2. \A h \in Handler : calls'[h] \in {calls[h], IdleCall}
    BY <1>6 DEF Environment, FacilitatorSettles, FacilitatorDrops, Register, Deregister, Restart
  <2>3. QED BY <1>1, <2>1, <2>2
<1>7. CASE \E h \in Handler : Resume(h)
  BY <1>1, <1>2, <1>7
<1>8. CASE \E h \in Handler : Request(h)
  BY <1>3, <1>4, <1>5, <1>8 DEF Request
<1>9. QED BY <1>6, <1>7, <1>8 DEF Next

\* The store stays within one run of MAX_RUNS by forgetting runs, and a forgotten run
\* is neither stored again nor taken up, and submits nothing.
THEOREM ForgottenTheorem == Spec => ForgottenStaysForgotten
<1>1. Init => StoreInv
  BY EmptyStore DEF Init, StoreInv, OldestFirst
<1>2. IInv /\ StoreInv /\ [Next]_vars => StoreInv'
  BY StoreStep DEF IInv
<1>3. ASSUME IInv, StoreInv', [Next]_vars
      PROVE  [/\ Cardinality(store') <= MaxRuns + 1
              /\ \A r \in Run : runs[r].phase # "idle" /\ r \notin store =>
                   /\ r \notin store'
                   /\ \A m \in sent' \ sent : m.run # r
                   /\ \A h \in Handler : calls'[h].run = r => calls[h].run = r]_vars
  BY <1>3, OnlyStoredRuns DEF StoreInv
<1>4. QED BY <1>1, <1>2, <1>3, Invariance, PTL DEF Spec, ForgottenStaysForgotten
================================================================================
