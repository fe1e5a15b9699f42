------------------------------- MODULE OptInProofs -------------------------------
(***************************************************************************)
(* Why an account's status misleads the page only when an answer was       *)
(* overtaken: for any accounts and any number of reads.                    *)
(***************************************************************************)
EXTENDS OptIn, TLAPS
--------------------------------------------------------------------------------
(* The inductive invariant. *)

Status == [address : Account \union {None}, blocker : OptInBlocker]

\* A hook numbers its reads from one.
HookState == [status : Status, issued : 0 .. MaxReads, latest : 0 .. MaxReads]
Read == [hook : Hook, no : 1 .. MaxReads, of : Account, since : OptInBlocker]
Attempt == [at : {"idle", "signing", "confirming", "refreshing"},
            of : Account \union {None}, read : 0 .. MaxReads]

Typed ==
    /\ active \in Account \union {None} /\ chain \in [Account -> OptInBlocker]
    /\ hook \in [Hook -> HookState] /\ reads \subseteq Read /\ optIn \in Attempt
    /\ pool \subseteq Account /\ done \subseteq Account

\* Without a wallet nothing is known and nothing is under way.
Connected ==
    /\ active = None => reads = {} /\ optIn = Idle /\ \A h \in Hook : hook[h] = NewHook
    /\ \A r \in reads : r.no <= hook[r.hook].issued
    /\ optIn.at # "idle" => optIn.of \in Account

\* The read an opt-in ends with began when the account already held the asset.
Refreshing ==
    optIn.at = "refreshing" =>
        /\ optIn.read <= hook["gate"].issued
        /\ \E r \in reads : Awaited(r)
        /\ \A r \in reads : Awaited(r) => r.since = "none"

\* Nobody is told of an opt-in that is not on chain, and no hook knows of one.
Truthful ==
    /\ \A a \in done : chain[a] = "none"
    /\ \A h \in Hook : LET s == hook[h].status IN
            s.address # None /\ s.blocker = "none" => chain[s.address] = "none"

\* A hook with nothing under way knows the active account or nothing, unless it was
\* misled.
Follows == \A h \in Hook \ misled : Quiet(h) => hook[h].status.address \in {None, active}

\* The gate's reads from before an account was told it has opted in are behind the
\* read that followed.
Overtaken ==
    \A r \in reads : r.hook = "gate" /\ r.of \in done /\ r.since # "none" =>
        \/ r.no < hook["gate"].latest
        \/ optIn.at = "refreshing" /\ r.no < optIn.read

\* So what the gate knows of such an account is behind only until that read is back.
Known ==
    LET s == hook["gate"].status IN
    "gate" \notin misled /\ s.address \in done /\ s.blocker # "none" => optIn.at = "refreshing"

OptInInv ==
    Typed /\ Connected /\ Refreshing /\ Truthful /\ Follows /\ Overtaken /\ Known
--------------------------------------------------------------------------------
(* What algod answers. *)

\* The stages tell the blockers apart, and the last one is the asset held.
LEMMA Stages == \A b \in OptInBlocker : Stage(b) \in 1 .. 3 /\ (Stage(b) = 3 <=> b = "none")
  BY DEF OptInBlocker, Stage

\* An answer is about the account asked for, and says that it holds the asset only if
\* it does, and always if it did when it was asked.
LEMMA AnswerIsTrue ==
    ASSUME Typed, NEW r \in reads, NEW status \in GetOptInStatus(r.of, r.since)
    PROVE  /\ status \in Status /\ status.address = r.of
           /\ status.blocker = "none" => chain[r.of] = "none"
           /\ r.since = "none" => status.blocker = "none"
<1>1. r.of \in Account /\ r.since \in OptInBlocker /\ chain[r.of] \in OptInBlocker
  BY DEF Typed, Read
<1>2. /\ status \in [address : {r.of}, blocker : OptInBlocker]
      /\ Stage(status.blocker) \in Stage(r.since) .. Stage(chain[r.of])
  BY DEF GetOptInStatus
<1>3. /\ Stage(status.blocker) \in 1 .. 3 /\ (Stage(status.blocker) = 3 <=> status.blocker = "none")
      /\ Stage(chain[r.of]) \in 1 .. 3 /\ (Stage(chain[r.of]) = 3 <=> chain[r.of] = "none")
      /\ Stage(r.since) \in 1 .. 3 /\ (Stage(r.since) = 3 <=> r.since = "none")
  BY <1>1, <1>2, Stages
<1>4. QED BY <1>1, <1>2, <1>3 DEF Status

\* What a hook starts with, and what a read starts with.
LEMMA StartTypes ==
    /\ NewHook \in HookState /\ [NewHook EXCEPT !.issued = 1] \in HookState
    /\ Idle \in Attempt /\ NoStatus \in Status
    /\ NewHook.status = NoStatus /\ NoStatus.address = None /\ NoStatus.blocker = "none"
  BY OptInAssumption
  DEF NewHook, NoStatus, Idle, HookState, Status, Attempt, OptInBlocker

LEMMA ReadTypes ==
    ASSUME Typed, NEW h \in Hook, NEW no \in 1 .. MaxReads, NEW a \in Account
    PROVE  /\ ReadOf(h, no, a) \in Read
           /\ LET r == ReadOf(h, no, a)
              IN  r.hook = h /\ r.no = no /\ r.of = a /\ r.since = chain[a]
  BY DEF Typed, ReadOf, Read
--------------------------------------------------------------------------------
(* The steps. *)

\* A new form, with new hooks, or none.
LEMMA ConnectKeeps ==
    ASSUME OptInInv, (\E a \in Account : Connect(a)) \/ Disconnect
    PROVE  OptInInv'
<1>1. optIn' = Idle /\ misled' = {} /\ pool' \subseteq Account /\ chain' = chain /\ done' = done
  BY DEF Connect, Disconnect, Vanish, OptInInv, Typed
<1>2. ASSUME NEW a \in Account, Connect(a) PROVE OptInInv'
  <2> DEFINE fresh == [NewHook EXCEPT !.issued = 1]
  <2>1. /\ fresh \in HookState /\ fresh.issued = 1 /\ fresh.latest = 0
        /\ fresh.status = NoStatus /\ NoStatus.address = None
    BY StartTypes DEF NewHook
  <2>2. active' = a /\ hook' = [h \in Hook |-> fresh] /\ reads' = {ReadOf(h, 1, a) : h \in Hook}
    BY <1>2 DEF Connect
  <2>3. \A r \in reads' : r \in Read /\ r.no = 1 /\ r.of = a /\ r.since = chain[a]
    <3>1. 1 \in 1 .. MaxReads
      BY OptInAssumption
    <3>2. QED BY <2>2, <3>1, ReadTypes DEF OptInInv
  <2> HIDE DEF fresh
  <2>4. Typed' /\ Connected' /\ Refreshing'
    BY <1>1, <2>1, <2>2, <2>3, StartTypes, OptInAssumption
    DEF OptInInv, Typed, Connected, Refreshing, Idle, Read
  <2>5. Truthful' /\ Follows'
    BY <1>1, <2>1, <2>2 DEF OptInInv, Truthful, Follows
  <2>6. Overtaken'
    BY <1>1, <2>3 DEF OptInInv, Truthful, Overtaken
  <2>7. Known'
    BY <1>1, <2>1, <2>2, OptInAssumption DEF OptInInv, Typed, Known, Hook
  <2>8. QED BY <2>4, <2>5, <2>6, <2>7 DEF OptInInv
<1>3. ASSUME Disconnect PROVE OptInInv'
  <2>1. active' = None /\ hook' = [h \in Hook |-> NewHook] /\ reads' = {}
    BY <1>3 DEF Disconnect
  <2>2. Typed' /\ Connected' /\ Refreshing'
    BY <1>1, <2>1, StartTypes DEF OptInInv, Typed, Connected, Refreshing, Idle
  <2>3. Truthful' /\ Follows' /\ Overtaken'
    BY <1>1, <2>1, StartTypes DEF OptInInv, Truthful, Follows, Overtaken
  <2>4. Known'
    BY <1>1, <2>1, StartTypes, OptInAssumption DEF OptInInv, Typed, Known, Hook
  <2>5. QED BY <2>2, <2>3, <2>4 DEF OptInInv
<1>4. QED BY <1>2, <1>3

\* A switch of accounts: both hooks read again.
LEMMA SwitchKeeps ==
    ASSUME OptInInv, NEW a \in Account, Switch(a)
    PROVE  OptInInv'
<1>1. /\ active # None /\ active' = a /\ UNCHANGED <<chain, optIn, pool, done, misled>>
      /\ hook' = [h \in Hook |-> [hook[h] EXCEPT !.issued = @ + 1]]
      /\ reads' = reads \union {ReadOf(h, hook[h].issued + 1, a) : h \in Hook}
      /\ \A h \in Hook : hook[h].issued < MaxReads
  BY DEF Switch
<1>2. \A h \in Hook :
        /\ hook[h] \in HookState /\ hook'[h] \in HookState
        /\ hook[h].issued \in Nat /\ hook'[h].issued = hook[h].issued + 1
        /\ hook'[h].status = hook[h].status /\ hook'[h].latest = hook[h].latest
        /\ hook[h].issued + 1 \in 1 .. MaxReads
  BY <1>1, OptInAssumption DEF OptInInv, Typed, HookState
<1>3. \A h \in Hook :
        LET r == ReadOf(h, hook[h].issued + 1, a)
        IN  /\ r \in Read /\ r.hook = h /\ r.no = hook[h].issued + 1 /\ r.of = a
            /\ r.since = chain[a]
  BY <1>2, ReadTypes DEF OptInInv
<1>4. \A h \in Hook : ~Quiet(h)'
  <2> SUFFICES ASSUME NEW h \in Hook PROVE \E r \in reads' : r.hook = h
    BY DEF Quiet
  <2>1. ReadOf(h, hook[h].issued + 1, a) \in reads'
    BY <1>1
  <2>2. QED BY <1>3, <2>1
<1>5. \A r \in reads' :
        \/ r \in reads
        \/ r.no = hook[r.hook].issued + 1 /\ r.hook \in Hook /\ r \in Read
           /\ r.of = a /\ r.since = chain[a]
  BY <1>1, <1>3
<1>6. Typed' /\ Connected'
  <2>1. hook' \in [Hook -> HookState] /\ reads' \subseteq Read
    BY <1>1, <1>2, <1>5 DEF OptInInv, Typed
  <2>2. \A r \in reads' : r.no <= hook'[r.hook].issued
    <3> SUFFICES ASSUME NEW r \in reads' PROVE r.no <= hook'[r.hook].issued
      OBVIOUS
    <3>1. CASE r \in reads
      <4>1. r.no <= hook[r.hook].issued /\ r.hook \in Hook /\ r.no \in Nat
        BY <3>1 DEF OptInInv, Connected, Typed, Read
      <4>2. QED BY <1>2, <4>1
    <3>2. CASE r \notin reads
      BY <1>2, <1>5, <3>2
    <3>3. QED BY <3>1, <3>2
  <2>3. QED BY <1>1, <2>1, <2>2, OptInAssumption DEF OptInInv, Typed, Connected
<1>7. Refreshing'
  <2> SUFFICES ASSUME optIn.at = "refreshing" PROVE Refreshing'
    BY <1>1 DEF Refreshing
  <2>1. /\ optIn.read <= hook["gate"].issued /\ optIn.read \in Nat /\ "gate" \in Hook
        /\ \E r \in reads : Awaited(r) /\ \A q \in reads : Awaited(q) => q.since = "none"
    BY DEF OptInInv, Refreshing, Typed, Attempt, Hook
  <2>2. optIn.read <= hook'["gate"].issued /\ optIn.read # hook["gate"].issued + 1
    BY <1>2, <2>1
  <2>3. \A r \in reads' : Awaited(r)' => r \in reads /\ r.since = "none"
    BY <1>1, <1>5, <2>1, <2>2 DEF Awaited
  <2>4. \E r \in reads' : Awaited(r)'
    BY <1>1, <2>1 DEF Awaited
  <2>5. QED BY <1>1, <2>2, <2>3, <2>4 DEF Refreshing, Awaited
<1>8. Truthful' /\ Follows'
  BY <1>1, <1>2, <1>4 DEF OptInInv, Truthful, Follows
<1>9. Overtaken'
  BY <1>1, <1>2, <1>5 DEF OptInInv, Overtaken, Truthful, Hook
<1>10. Known'
  BY <1>1, <1>2 DEF OptInInv, Known, Hook
<1>11. QED BY <1>6, <1>7, <1>8, <1>9, <1>10 DEF OptInInv

\* A read ends, with an answer or without.
LEMMA ReadKeeps ==
    ASSUME OptInInv, NEW r \in reads, NEW status \in Status, ReadEnds(r, status),
           status = NoStatus \/ status \in GetOptInStatus(r.of, r.since)
    PROVE  OptInInv'
<1> DEFINE h == r.hook
<1>1. h \in Hook /\ r.no \in 1 .. MaxReads /\ r.of \in Account /\ r \in Read
  BY DEF OptInInv, Typed, Read
<1>2. active # None /\ UNCHANGED <<active, chain, pool, done>> /\ reads' = reads \ {r}
  BY DEF ReadEnds, OptInInv, Connected
<1>3. /\ hook'[h].status = status /\ hook'[h].issued = hook[h].issued
      /\ hook'[h].latest = IF r.no > hook[h].latest THEN r.no ELSE hook[h].latest
      /\ hook'[h] \in HookState
      /\ \A x \in Hook \ {h} : hook'[x] = hook[x]
      /\ hook' \in [Hook -> HookState]
  <2>1. hook \in [Hook -> HookState] /\ hook[h].latest \in Nat
    BY <1>1 DEF OptInInv, Typed, HookState
  <2>2. PICK top \in 0 .. MaxReads :
            top = IF r.no > hook[h].latest THEN r.no ELSE hook[h].latest
    BY <1>1, <2>1 DEF HookState
  <2> DEFINE new == [hook[h] EXCEPT !.status = status, !.latest = top]
  <2>3. new \in HookState /\ new.status = status /\ new.issued = hook[h].issued /\ new.latest = top
    BY <1>1, <2>1 DEF HookState
  <2>4. hook' = [hook EXCEPT ![h] = new]
    BY <1>1, <2>1, <2>2 DEF ReadEnds, HookState
  <2> HIDE DEF new
  <2>5. QED BY <1>1, <2>1, <2>2, <2>3, <2>4
<1>4. /\ status.address \in {None, r.of}
      /\ status.address # None /\ status.blocker = "none" => chain[r.of] = "none"
      /\ r.since = "none" => status.blocker = "none"
  BY AnswerIsTrue, StartTypes DEF OptInInv
<1>5. optIn' = (IF Awaited(r) THEN Idle ELSE optIn)
  BY DEF ReadEnds
<1>6. misled' = IF r.of # active \/ r.no < hook[h].latest THEN misled \union {h} ELSE misled \ {h}
  BY DEF ReadEnds
<1> HIDE DEF h
<1>7. Typed' /\ Connected'
  <2>1. optIn' \in Attempt /\ (optIn'.at # "idle" => optIn'.of \in Account)
    BY <1>5, StartTypes DEF OptInInv, Typed, Connected, Idle
  <2>2. \A q \in reads' : q.no <= hook'[q.hook].issued
    BY <1>2, <1>3 DEF OptInInv, Connected, Typed, Read
  <2>3. QED BY <1>2, <1>3, <2>1, <2>2 DEF OptInInv, Typed, Connected
<1>8. Refreshing'
  <2>1. CASE Awaited(r)
    BY <1>5, <2>1 DEF Refreshing, Idle
  <2>2. CASE ~Awaited(r)
    <3>1. optIn' = optIn /\ hook'["gate"].issued = hook["gate"].issued
      BY <1>3, <1>5, <2>2 DEF Hook
    <3>2. QED BY <1>2, <2>2, <3>1 DEF OptInInv, Refreshing, Awaited
  <2>3. QED BY <2>1, <2>2
<1>9. Truthful'
  <2>1. \A x \in Hook : hook'[x].status = IF x = h THEN status ELSE hook[x].status
    BY <1>3
  <2>2. QED BY <1>2, <1>4, <2>1 DEF OptInInv, Truthful
<1>10. Follows'
  <2> SUFFICES ASSUME NEW x \in Hook \ misled', Quiet(x)'
               PROVE  hook'[x].status.address \in {None, active}
    BY <1>2 DEF Follows
  <2>1. CASE x = h
    BY <1>3, <1>4, <1>6, <2>1
  <2>2. CASE x # h
    <3>1. x \notin misled /\ hook'[x] = hook[x]
      BY <1>3, <1>6, <2>2
    <3>2. Quiet(x)
      BY <1>2, <2>2 DEF Quiet, h
    <3>3. QED BY <3>1, <3>2 DEF OptInInv, Follows
  <2>3. QED BY <2>1, <2>2
<1>11. Overtaken'
  <2> SUFFICES ASSUME NEW q \in reads \ {r}, q.hook = "gate", q.of \in done, q.since # "none"
               PROVE  \/ q.no < hook'["gate"].latest
                      \/ optIn'.at = "refreshing" /\ q.no < optIn'.read
    BY <1>2 DEF Overtaken
  <2>1. /\ q.no < hook["gate"].latest \/ (optIn.at = "refreshing" /\ q.no < optIn.read)
        /\ q.no \in Nat /\ "gate" \in Hook
    BY DEF OptInInv, Overtaken, Typed, Read, Hook
  <2>2. hook["gate"].latest \in Nat /\ hook'["gate"].latest \in Nat
    BY <1>3, <2>1 DEF OptInInv, Typed, HookState
  <2>3. hook["gate"].latest <= hook'["gate"].latest
    BY <1>1, <1>3, <2>1, <2>2
  <2>4. CASE q.no < hook["gate"].latest
    BY <2>1, <2>2, <2>3, <2>4
  <2>5. CASE optIn.at = "refreshing" /\ q.no < optIn.read /\ ~Awaited(r)
    BY <1>5, <2>5
  <2>6. CASE optIn.at = "refreshing" /\ q.no < optIn.read /\ Awaited(r)
    <3>1. h = "gate" /\ r.no = optIn.read
      BY <2>6 DEF Awaited, h
    <3>2. hook'["gate"].latest >= r.no
      BY <1>1, <1>3, <2>2, <3>1
    <3>3. QED BY <1>1, <2>1, <2>2, <2>6, <3>1, <3>2
  <2>7. QED BY <2>1, <2>4, <2>5, <2>6
<1>12. Known'
  <2> SUFFICES ASSUME "gate" \notin misled', hook'["gate"].status.address \in done,
                      hook'["gate"].status.blocker # "none"
               PROVE  optIn'.at = "refreshing"
    BY <1>2 DEF Known
  <2>1. CASE h = "gate"
    <3>1. /\ r.hook = "gate" /\ r.of \in done /\ r.since # "none" /\ ~(r.no < hook["gate"].latest)
          /\ None \notin done
      BY <1>1, <1>3, <1>4, <1>6, <2>1, OptInAssumption DEF h, OptInInv, Typed
    <3>2. optIn.at = "refreshing" /\ r.no < optIn.read
      BY <3>1 DEF OptInInv, Overtaken
    <3>3. ~Awaited(r)
      <4>1. r.no \in Nat /\ optIn.read \in Nat
        BY DEF OptInInv, Typed, Read, Attempt
      <4>2. QED BY <3>2, <4>1 DEF Awaited
    <3>4. QED BY <1>5, <3>2, <3>3
  <2>2. CASE h # "gate"
    <3>1. "gate" \notin misled /\ hook'["gate"] = hook["gate"] /\ ~Awaited(r)
      BY <1>3, <1>6, <2>2 DEF Awaited, h, Hook
    <3>2. QED BY <1>5, <3>1 DEF OptInInv, Known
  <2>3. QED BY <2>1, <2>2
<1>13. QED BY <1>7, <1>8, <1>9, <1>10, <1>11, <1>12 DEF OptInInv

\* Confirmed: from now on the account is one that was told, and its refresh is under way.
LEMMA ConfirmedKeeps ==
    ASSUME OptInInv, Confirmed
    PROVE  OptInInv'
<1> DEFINE no == hook["gate"].issued + 1
           a == optIn.of
<1>1. /\ optIn.at = "confirming" /\ chain[a] = "none" /\ a \in Account /\ active # None
      /\ UNCHANGED <<active, chain, pool, misled>> /\ done' = done \union {a}
  BY DEF Confirmed, OptInInv, Connected, Idle
<1>2. "gate" \in Hook /\ hook["gate"] \in HookState /\ no \in 1 .. MaxReads
  <2>1. "gate" \in Hook /\ hook["gate"] \in HookState
    BY DEF Hook, OptInInv, Typed
  <2>2. QED BY <2>1, OptInAssumption DEF Confirmed, HookState
<1>3. /\ ReadOf("gate", no, a) \in Read /\ ReadOf("gate", no, a).hook = "gate"
      /\ ReadOf("gate", no, a).no = no /\ ReadOf("gate", no, a).of = a
      /\ ReadOf("gate", no, a).since = "none"
  BY <1>1, <1>2, ReadTypes DEF OptInInv
<1>4. PICK new : new = ReadOf("gate", no, a)
  OBVIOUS
<1>5. /\ optIn' = [optIn EXCEPT !.at = "refreshing", !.read = no]
      /\ reads' = reads \union {new} /\ hook' = [hook EXCEPT !["gate"].issued = no]
  BY <1>4 DEF Confirmed
<1> HIDE DEF no, a
<1>6. optIn' \in Attempt /\ optIn'.at = "refreshing" /\ optIn'.of = a /\ optIn'.read = no
  <2>1. optIn \in Attempt /\ no \in 0 .. MaxReads
    BY <1>2, OptInAssumption DEF OptInInv, Typed
  <2>2. QED BY <1>5, <2>1 DEF Attempt, a
<1>7. /\ hook' \in [Hook -> HookState] /\ hook'["gate"].issued = no
      /\ \A x \in Hook : hook'[x].status = hook[x].status /\ hook'[x].latest = hook[x].latest
      /\ \A x \in Hook \ {"gate"} : hook'[x] = hook[x]
  BY <1>2, <1>5 DEF OptInInv, Typed, HookState
<1>8. \A r \in reads : r \in Read /\ (r.hook = "gate" => r.no \in Nat /\ r.no < no)
  <2> SUFFICES ASSUME NEW r \in reads PROVE r \in Read /\ (r.hook = "gate" => r.no \in Nat /\ r.no < no)
    OBVIOUS
  <2>1. r \in Read /\ r.no <= hook[r.hook].issued
    BY DEF OptInInv, Typed, Connected
  <2>2. hook["gate"].issued \in Nat /\ r.no \in Nat
    BY <1>2, <2>1 DEF HookState, Read
  <2>3. QED BY <2>1, <2>2 DEF no
<1>9. Typed' /\ Connected'
  <2>1. \A r \in reads' : r.no <= hook'[r.hook].issued
    <3> SUFFICES ASSUME NEW r \in reads' PROVE r.no <= hook'[r.hook].issued
      OBVIOUS
    <3>1. CASE r.hook = "gate"
      BY <1>2, <1>3, <1>4, <1>5, <1>7, <1>8, <3>1
    <3>2. CASE r.hook # "gate"
      BY <1>3, <1>4, <1>5, <1>7, <3>2 DEF OptInInv, Typed, Connected, Read
    <3>3. QED BY <3>1, <3>2
  <2>2. reads' \subseteq Read
    BY <1>3, <1>4, <1>5, <1>8
  <2>3. QED BY <1>1, <1>6, <1>7, <2>1, <2>2 DEF OptInInv, Typed, Connected
<1>10. Refreshing'
  <2>1. Awaited(new)' /\ new \in reads'
    BY <1>3, <1>4, <1>5, <1>6 DEF Awaited
  <2>2. \A r \in reads' : Awaited(r)' => r.since = "none"
    BY <1>2, <1>3, <1>4, <1>5, <1>6, <1>8 DEF Awaited
  <2>3. QED BY <1>2, <1>6, <1>7, <2>1, <2>2 DEF Refreshing
<1>11. Truthful'
  BY <1>1, <1>7 DEF OptInInv, Truthful
<1>12. Follows'
  <2> SUFFICES ASSUME NEW x \in Hook \ misled, Quiet(x)'
               PROVE  hook'[x].status.address \in {None, active}
    BY <1>1 DEF Follows
  <2>1. Quiet(x)
    BY <1>5 DEF Quiet
  <2>2. QED BY <1>7, <2>1 DEF OptInInv, Follows
<1>13. Overtaken' /\ Known'
  BY <1>3, <1>4, <1>5, <1>6, <1>8 DEF Overtaken, Known
<1>14. QED BY <1>9, <1>10, <1>11, <1>12, <1>13 DEF OptInInv

\* The steps that leave the hooks and their reads alone.
LEMMA QuietKeeps ==
    ASSUME OptInInv, UNCHANGED <<active, hook, reads, misled>>,
           done' = done, pool' \subseteq Account, chain' \in [Account -> OptInBlocker],
           \A a \in Account : chain[a] = "none" => chain'[a] = "none",
           optIn' \in Attempt, optIn'.at # "idle" => optIn'.of \in Account /\ active # None,
           active = None => optIn' = Idle,
           optIn' = optIn \/ "refreshing" \notin {optIn.at, optIn'.at}
    PROVE  OptInInv'
<1>1. Typed' /\ Connected'
  BY DEF OptInInv, Typed, Connected
<1>2. Refreshing' /\ Overtaken' /\ Known'
  BY DEF OptInInv, Refreshing, Overtaken, Known, Awaited
<1>3. Truthful'
  BY DEF OptInInv, Typed, Truthful, HookState, Status
<1>4. Follows'
  BY DEF OptInInv, Follows, Quiet
<1>5. QED BY <1>1, <1>2, <1>3, <1>4 DEF OptInInv

\* Pressing the button, signing, failing; and what the chain does meanwhile.
LEMMA ChainKeeps ==
    ASSUME OptInInv,
           Press \/ OptInFails \/ Submit \/ \E a \in Account : Commit(a) \/ Fund(a)
    PROVE  OptInInv'
<1>1. /\ optIn \in Attempt
      /\ optIn.at # "idle" => optIn.of \in Account /\ active # None
      /\ active = None => optIn = Idle
  BY DEF OptInInv, Typed, Connected, Idle
<1>2. CASE Press
  <2>1. optIn.at = "idle"
    <3>1. hook["gate"].status.blocker \in OptInBlocker
      BY DEF Hook, OptInInv, Typed, HookState, Status
    <3>2. QED BY <1>2, <3>1 DEF Press, Gate, OptInBlocker
  <2>2. optIn' \in Attempt /\ optIn'.at = "signing" /\ optIn'.of = active /\ active \in Account
    BY <1>2, StartTypes DEF Press, OptInInv, Typed, Attempt, Idle
  <2>3. QED BY <1>2, <2>1, <2>2, QuietKeeps DEF Press, OptInInv, Typed
<1>3. CASE OptInFails
  BY <1>3, StartTypes, QuietKeeps DEF OptInFails, OptInInv, Typed, Idle
<1>4. CASE Submit
  BY <1>1, <1>4, QuietKeeps DEF Submit, OptInInv, Typed, Attempt
<1>5. CASE \E a \in Account : Commit(a) \/ Fund(a)
  BY <1>1, <1>5, QuietKeeps DEF Commit, Fund, OptInInv, Typed, OptInBlocker
<1>6. QED BY <1>2, <1>3, <1>4, <1>5

\* Every step keeps the invariant.
LEMMA OptInInit == Init => OptInInv
<1> SUFFICES ASSUME Init PROVE OptInInv
  OBVIOUS
<1>1. \A h \in Hook : hook[h] = NewHook
  BY DEF Init
<1>2. Typed /\ Connected /\ Refreshing
  BY <1>1, StartTypes DEF Init, Typed, Connected, Refreshing, Idle
<1>3. Truthful /\ Follows /\ Overtaken /\ Known
  BY <1>1, StartTypes DEF Init, Truthful, Follows, Overtaken, Known
<1>4. QED BY <1>2, <1>3 DEF OptInInv

LEMMA OptInStep == OptInInv /\ [Next]_vars => OptInInv'
<1> SUFFICES ASSUME OptInInv, [Next]_vars PROVE OptInInv'
  OBVIOUS
<1>1. ASSUME NEW r \in reads, Arrives(r) \/ Fails(r) PROVE OptInInv'
  <2>1. PICK status \in Status : /\ ReadEnds(r, status)
                                 /\ status = NoStatus \/ status \in GetOptInStatus(r.of, r.since)
    BY <1>1, AnswerIsTrue, StartTypes DEF OptInInv, Arrives, Fails
  <2>2. QED BY <2>1, ReadKeeps
<1>2. CASE UNCHANGED vars
  BY <1>2, StartTypes
  DEF vars, OptInInv, Typed, Connected, Refreshing, Truthful, Follows, Overtaken, Known, Awaited,
      Quiet
<1>3. QED BY <1>1, <1>2, ConnectKeeps, SwitchKeeps, ConfirmedKeeps, ChainKeeps DEF Next

LEMMA OptInInvariance == Spec => []OptInInv
<1>1. QED BY OptInInit, OptInStep, PTL DEF Spec
--------------------------------------------------------------------------------
(* What follows from it. *)

\* Every variable of the page and of the chain has its type, a hook without a wallet
\* knows nothing, and an opt-in that waits for its read has one to wait for.
THEOREM OptInTypes == Spec => []TypeOK
<1>1. OptInInv => TypeOK
  <2> SUFFICES ASSUME OptInInv PROVE TypeOK
    OBVIOUS
  <2>1. \A h \in Hook : /\ hook[h].status.address \in Account \union {None}
                        /\ hook[h].status.blocker \in OptInBlocker
                        /\ hook[h].issued \in 0 .. MaxReads
                        /\ active = None => hook[h] = NewHook
    BY DEF OptInInv, Typed, Connected, HookState, Status
  <2>2. \A r \in reads : r.of \in Account /\ r.no \in 1 .. hook[r.hook].issued
    <3> SUFFICES ASSUME NEW r \in reads PROVE r.of \in Account /\ r.no \in 1 .. hook[r.hook].issued
      OBVIOUS
    <3>1. r \in Read /\ r.no <= hook[r.hook].issued /\ hook[r.hook].issued \in Nat
      BY DEF OptInInv, Typed, Connected, Read, HookState
    <3>2. QED BY <3>1 DEF Read
  <2>3. QED BY <2>1, <2>2 DEF OptInInv, Typed, Refreshing, Attempt, TypeOK
<1>2. QED BY <1>1, OptInInvariance, PTL

\* Whoever was told that the opt-in is done holds the asset, and so does an account of
\* which a hook has stored that nothing stands in its way, however late the answers.
THEOREM ToldTheorem == Spec => []Truthful
<1>1. OptInInv => Truthful
  BY DEF OptInInv
<1>2. QED BY <1>1, OptInInvariance, PTL

\* Only an answer that was overtaken makes the form start a run for an account that
\* does not hold the asset, or offers the opt-in again to an account that was told.
THEOREM MisleadTheorem == Spec => []OnlyOvertakenReadsMislead
<1>1. OptInInv => OnlyOvertakenReadsMislead
  <2> SUFFICES ASSUME OptInInv PROVE OnlyOvertakenReadsMislead
    OBVIOUS
  <2>1. ASSUME NEW h \in Hook \ misled, Quiet(h), ready(h) PROVE chain[active] = "none"
    <3>1. /\ active # None /\ hook[h].status # NoStatus /\ hook[h].status.blocker = "none"
          /\ hook[h].status \in Status
      BY <2>1 DEF ready, OptInInv, Typed, HookState
    <3>2. hook[h].status.address # None
      BY <3>1 DEF Status, NoStatus
    <3>3. hook[h].status.address = active
      BY <2>1, <3>2 DEF OptInInv, Follows
    <3>4. QED BY <3>1, <3>2, <3>3 DEF OptInInv, Truthful
  <2>2. ASSUME "gate" \notin misled, active # None, hook["gate"].status.address = active,
               Gate = "button", active \in done
        PROVE  FALSE
    <3>1. hook["gate"].status.blocker \in OptInBlocker
      BY DEF Hook, OptInInv, Typed, HookState, Status
    <3>2. hook["gate"].status.blocker # "none" /\ optIn.at = "idle"
      BY <2>2, <3>1 DEF Gate, OptInBlocker
    <3>3. QED BY <2>2, <3>2 DEF OptInInv, Known
  <2>3. QED BY <2>1, <2>2 DEF OnlyOvertakenReadsMislead
<1>2. QED BY <1>1, OptInInvariance, PTL
================================================================================
