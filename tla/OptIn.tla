---------------------------------- MODULE OptIn ----------------------------------
(***************************************************************************)
(* Opting in to the payment asset: what the page knows of the connected    *)
(* account, and the transaction that changes it.                           *)
(*                                                                         *)
(* The form and the gate inside it each hold a useAssetOptIn of their own. *)
(* A hook reads the account once when it appears and once whenever the     *)
(* account changes; nothing cancels a read, so its answer may come when    *)
(* another account is connected, or after the answer of a later read.      *)
(* Accounts are not opted out, and only opt in through this page.          *)
(***************************************************************************)
EXTENDS Naturals, FiniteSets

CONSTANTS
    Account, None,
    MaxReads           \* bound: reads of a hook since it appeared

ASSUME OptInAssumption == None \notin Account /\ MaxReads \in Nat \ {0}

Hook == {"gate", "form"}

VARIABLES
    active,    \* activeAddress
    chain,     \* chain[a]: what stands between a and holding the asset
    hook,      \* hook[h]: its status, and its reads: how many, and the last one back
    reads,     \* reads under way: of which hook and account, and how it was then
    optIn,     \* the gate's optIn(): where it is, for whom, and the read it waits for
    pool,      \* opt-ins submitted and not yet confirmed
    done,      \* history: accounts told that they opted in
    misled     \* history: hooks whose last answer was overtaken by a switch or a read

vars == <<active, chain, hook, reads, optIn, pool, done, misled>>
--------------------------------------------------------------------------------
(* What algod says of an account. *)

\* What stands between an account and settling.  Once it holds the asset its ALGO
\* is of no matter.
OptInBlocker == {"none", "not-opted-in", "insufficient-algo"}

\* An account only moves forward: it is funded, then it opts in.
Stage(blocker) == CASE blocker = "insufficient-algo" -> 1
                    [] blocker = "not-opted-in" -> 2
                    [] blocker = "none" -> 3

\* getOptInStatus for a read of a that began when b stood in its way: algod may have
\* looked at any moment since.
GetOptInStatus(a, b) ==
    [address : {a}, blocker : {c \in OptInBlocker : Stage(c) \in Stage(b) .. Stage(chain[a])}]

NoStatus == [address |-> None, blocker |-> "none"]

NewHook == [status |-> NoStatus, issued |-> 0, latest |-> 0]

ready(h) == active # None /\ hook[h].status # NoStatus /\ hook[h].status.blocker = "none"

\* No read of h is under way.
Quiet(h) == \A r \in reads : r.hook # h

\* What the gate shows: nothing, the dispenser, or the button.
Gate ==
    LET blocker == hook["gate"].status.blocker IN
    CASE blocker = "none" -> "nothing"
      [] blocker = "insufficient-algo" -> "dispenser"
      [] blocker = "not-opted-in" -> IF optIn.at = "idle" THEN "button" ELSE "busy"
--------------------------------------------------------------------------------
Idle == [at |-> "idle", of |-> None, read |-> 0]

\* The read that refresh() starts in hook h for account a, h's no-th.
ReadOf(h, no, a) == [hook |-> h, no |-> no, of |-> a, since |-> chain[a]]

Init ==
    /\ active = None /\ reads = {} /\ optIn = Idle /\ pool = {} /\ done = {} /\ misled = {}
    /\ chain \in [Account -> OptInBlocker]
    /\ hook = [h \in Hook |-> NewHook]

\* The form goes, and the gate with it: what they had under way finds nobody,
\* though a prompt of the wallet may still be signed.
Vanish ==
    /\ optIn' = Idle /\ misled' = {}
    /\ pool' \in {pool, pool \union {a \in Account : optIn.at = "signing" /\ optIn.of = a
                                                       /\ chain[a] # "insufficient-algo"}}
    /\ UNCHANGED <<chain, done>>

\* A wallet is connected, or the form is shown again after a run: new hooks.
Connect(a) ==
    /\ active' = a
    /\ hook' = [h \in Hook |-> [NewHook EXCEPT !.issued = 1]]
    /\ reads' = {ReadOf(h, 1, a) : h \in Hook}
    /\ Vanish

\* Slip: the form stays when the wallet has gone.
DisconnectKeepingForm ==
    /\ active # None /\ active' = None
    /\ hook' = [h \in Hook |-> [hook[h] EXCEPT !.status = NoStatus]]
    /\ UNCHANGED <<chain, reads, optIn, pool, done, misled>>

Disconnect ==
    /\ active # None /\ active' = None
    /\ hook' = [h \in Hook |-> NewHook] /\ reads' = {}
    /\ Vanish

\* Another account of the wallet, or another wallet, becomes the active one: both
\* hooks read it, and until it is read their status is the old account's.
Switch(a) ==
    /\ active \notin {None, a} /\ active' = a
    /\ \A h \in Hook : hook[h].issued < MaxReads
    /\ hook' = [h \in Hook |-> [hook[h] EXCEPT !.issued = @ + 1]]
    /\ reads' = reads \union {ReadOf(h, hook[h].issued + 1, a) : h \in Hook}
    /\ UNCHANGED <<chain, optIn, pool, done, misled>>

\* optIn() waits for the refresh that ends it.
Awaited(r) == optIn.at = "refreshing" /\ r.hook = "gate" /\ r.no = optIn.read

\* Read r ends with a status, or none when it failed.
ReadEnds(r, status) ==
    /\ r \in reads /\ reads' = reads \ {r}
    /\ hook' = [hook EXCEPT ![r.hook].status = status,
                            ![r.hook].latest = IF r.no > @ THEN r.no ELSE @]
    /\ misled' = IF r.of # active \/ r.no < hook[r.hook].latest
                 THEN misled \union {r.hook} ELSE misled \ {r.hook}
    /\ optIn' = IF Awaited(r) THEN Idle ELSE optIn
    /\ UNCHANGED <<active, chain, pool, done>>

Arrives(r) == \E status \in GetOptInStatus(r.of, r.since) : ReadEnds(r, status)

\* Slip: after a failure the last status stays.
FailsKeepingStatus(r) == ReadEnds(r, hook[r.hook].status)

Fails(r) == ReadEnds(r, NoStatus)
--------------------------------------------------------------------------------
(* The opt-in. *)

\* The button.  The account is the one the page is rendered with.
Press ==
    /\ active # None /\ Gate = "button"
    /\ optIn' = [Idle EXCEPT !.at = "signing", !.of = active]
    /\ UNCHANGED <<active, chain, hook, reads, pool, done, misled>>

\* No suggested parameters, a refusal in the wallet, a rejected submission, or no
\* confirmation within four rounds: an error in plain words, and the button again.
OptInFails ==
    /\ optIn.at \in {"signing", "confirming"} /\ optIn' = Idle
    /\ UNCHANGED <<active, chain, hook, reads, pool, done, misled>>

\* Signed and sent.  A node takes it from an account that can pay.
Submit ==
    /\ optIn.at = "signing" /\ chain[optIn.of] # "insufficient-algo"
    /\ optIn' = [optIn EXCEPT !.at = "confirming"]
    /\ pool' = pool \union {optIn.of}
    /\ UNCHANGED <<active, chain, hook, reads, done, misled>>

\* A round commits it, whether anyone still waits or not.
Commit(a) ==
    /\ a \in pool /\ pool' = pool \ {a}
    /\ chain' = [chain EXCEPT ![a] = "none"]
    /\ UNCHANGED <<active, hook, reads, optIn, done, misled>>

\* Slip: the button is back before the account has been read again.
ConfirmedAtOnce ==
    /\ optIn.at = "confirming" /\ chain[optIn.of] = "none"
    /\ optIn' = Idle
    /\ done' = done \union {optIn.of}
    /\ UNCHANGED <<active, chain, hook, reads, pool, misled>>

\* Confirmed: the refresh() of the render that was pressed, so of its account, and
\* only in the gate.
Confirmed ==
    /\ optIn.at = "confirming" /\ chain[optIn.of] = "none"
    /\ hook["gate"].issued < MaxReads
    /\ LET no == hook["gate"].issued + 1 IN
       /\ optIn' = [optIn EXCEPT !.at = "refreshing", !.read = no]
       /\ reads' = reads \union {ReadOf("gate", no, optIn.of)}
       /\ hook' = [hook EXCEPT !["gate"].issued = no]
    /\ done' = done \union {optIn.of}
    /\ UNCHANGED <<active, chain, pool, misled>>

\* The dispenser.
Fund(a) ==
    /\ chain[a] = "insufficient-algo" /\ chain' = [chain EXCEPT ![a] = "not-opted-in"]
    /\ UNCHANGED <<active, hook, reads, optIn, pool, done, misled>>
--------------------------------------------------------------------------------
Next ==
    \/ \E a \in Account : Connect(a) \/ Switch(a) \/ Commit(a) \/ Fund(a)
    \/ Disconnect \/ Press \/ Submit \/ Confirmed \/ OptInFails
    \/ \E r \in reads : Arrives(r) \/ Fails(r)

Spec == Init /\ [][Next]_vars
--------------------------------------------------------------------------------
\* Every variable has its type; the wallet is at work for one opt-in at most, and a
\* hook without a wallet knows nothing.
TypeOK ==
    /\ active \in Account \union {None}
    /\ \A h \in Hook :
        /\ hook[h].status.address \in Account \union {None}
        /\ hook[h].status.blocker \in OptInBlocker /\ hook[h].issued \in 0 .. MaxReads
        /\ active = None => hook[h] = NewHook
    /\ \A r \in reads : r.of \in Account /\ r.no \in 1 .. hook[r.hook].issued
    /\ optIn.at \in {"idle", "signing", "confirming", "refreshing"}
    /\ optIn.at = "refreshing" => \E r \in reads : Awaited(r)
    /\ chain \in [Account -> OptInBlocker] /\ pool \subseteq Account /\ done \subseteq Account

\* What the page makes of an account goes wrong in one way only: an answer that was
\* overtaken, by a switch of accounts or by the answer of a later read.  Otherwise,
\* once nothing is being read, the form lets a run start only for an account that
\* holds the asset (useAssetOptIn.ts: "True only when a wallet is connected and
\* holds the asset"), and the button is never there for an account that was told it
\* has opted in.
OnlyOvertakenReadsMislead ==
    /\ \A h \in Hook \ misled : Quiet(h) /\ ready(h) => chain[active] = "none"
    /\ "gate" \notin misled /\ active # None /\ hook["gate"].status.address = active
       /\ Gate = "button" => active \notin done
================================================================================
