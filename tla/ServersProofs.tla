----------------------------- MODULE ServersProofs -----------------------------
(***************************************************************************)
(* That a deploy cuts only what was given the whole grace, that the        *)
(* orchestrator serves only with a fee payer, and that nobody is limited   *)
(* on account of another caller, for any number of servers, buyers and     *)
(* requests and for any limits.                                            *)
(*                                                                         *)
(* The last one rests on Witnessed: what a limiter has counted of a client *)
(* is never more than the requests of that client, through that limiter,   *)
(* that the log still holds and that are no older than the window.         *)
(***************************************************************************)
EXTENDS Servers, FiniteSetTheorems, TLAPS

State == {"down", "loading", "pinging", "listening", "closing"}

Process == [at : State, waited : 0 .. GRACE - 1]

Serve == [server : Server \union {None},
          route : {"none", "quote", "discover", "verify", "settle", "health", "check"}]

Hit == [n : Nat, left : 0 .. WINDOW]

Entry == [server : Server, client : Client, ago : 0 .. WINDOW - 1, limiters : SUBSET Limiter]

\* A log: requests under positive numbers, finitely many.
IsLog(L) ==
    /\ L \in [DOMAIN L -> Entry]
    /\ DOMAIN L \in SUBSET (Nat \ {0})
    /\ IsFiniteSet(DOMAIN L)

Typed ==
    /\ process \in [Server -> Process]
    /\ cached \in BOOLEAN
    /\ hits \in [Server -> [Limiter -> [Client -> Hit]]]
    /\ request \in [Request -> Serve]
    /\ IsLog(log)
    /\ Cardinality(DOMAIN log) <= MaxSent

\* Requests are under way only where they are served, and the orchestrator gets as
\* far as its pings only with a fee payer.
Serving ==
    /\ \A q \in Request : Open(q) => process[request[q].server].at \in {"listening", "closing"}
    /\ process[Orchestrator].at \in {"pinging", "listening", "closing"} => cached

\* The requests in log L of client c through limiter l of server s, up to an age.
Recent(L, s, c, l, age) ==
    {n \in DOMAIN L : /\ L[n].server = s /\ L[n].client = c /\ l \in L[n].limiters
                      /\ L[n].ago <= age}

\* What was counted, the log L bears out.
BorneOut(h, L, s, c, l) ==
    h.n > 0 => /\ h.left \in 1 .. WINDOW
               /\ h.n <= Cardinality(Recent(L, s, c, l, WINDOW - h.left))

Witnessed ==
    \A s \in Server, l \in Limiter, c \in Client : BorneOut(hits[s][l][c], log, s, c, l)

ServersInv == Typed /\ Serving /\ Witnessed

--------------------------------------------------------------------------------
(* The limiters and the log. *)

\* Every limiter lets somebody in: its floor is at least one.
LEMMA LimitsArePositive ==
  ASSUME NEW l \in Limiter
  PROVE  Limit(l) \in Nat \ {0}
<1>1. ASSUME NEW floor \in Nat \ {0}, NEW share \in Nat \ {0}
      PROVE  AtLeast(floor, MAX_REQUESTS \div share) \in Nat \ {0}
  <2>1. MAX_REQUESTS \div share \in Int
    BY <1>1, ServersAssumption
  <2>2. QED BY <2>1, <1>1 DEF AtLeast
<1>2. /\ quoteLimiter \in Nat \ {0} /\ settleLimiter \in Nat \ {0} /\ checkLimiter \in Nat \ {0}
  BY <1>1, ServersAssumption DEF quoteLimiter, settleLimiter, checkLimiter
<1>3. QED BY <1>2, ServersAssumption DEF Limit, Limiter

\* The chain of a route is made of limiters.
LEMMA ChainsAreLimiters ==
  ASSUME NEW s \in Server, NEW route \in Route(s), NEW i \in DOMAIN Limiters(route)
  PROVE  Limiters(route)[i] \in Limiter
<1>1. route \in {"quote", "discover", "verify", "settle", "health", "check"}
  BY DEF Route
<1>2. CASE route \in {"verify", "health"}
  BY <1>2 DEF Limiters, Limiter
<1>3. CASE route \in {"quote", "discover"}
  BY <1>3 DEF Limiters, Limiter
<1>4. CASE route \in {"settle", "check"}
  BY <1>4 DEF Limiters, Limiter
<1>5. QED BY <1>1, <1>2, <1>3, <1>4

\* What is recent is a finite part of the log, and all of it belongs to the client.
LEMMA RecentIsFinite ==
  ASSUME NEW L, IsLog(L), NEW s, NEW c, NEW l, NEW age
  PROVE  /\ IsFiniteSet(Recent(L, s, c, l, age))
         /\ Cardinality(Recent(L, s, c, l, age)) \in Nat
         /\ Cardinality(Recent(L, s, c, l, age)) <= Cardinality(DOMAIN L)
         /\ Cardinality(DOMAIN L) \in Nat
<1>1. Recent(L, s, c, l, age) \in SUBSET DOMAIN L
  BY DEF Recent
<1>2. QED BY <1>1, FS_Subset, FS_CardinalityType DEF IsLog

\* Counting from two is counting from one.
LEMMA Shifted ==
  ASSUME NEW S \in SUBSET (Nat \ {0}), IsFiniteSet(S)
  PROVE  LET T == {n + 1 : n \in S}
         IN  IsFiniteSet(T) /\ Cardinality(T) = Cardinality(S) /\ 1 \notin T
<1> DEFINE T == {n + 1 : n \in S}
           f == [n \in S |-> n + 1]
<1>1. f \in Bijection(S, T)
  <2>1. f \in [S -> T] /\ \A t \in T : \E n \in S : f[n] = t
    OBVIOUS
  <2>2. \A m, n \in S : f[m] = f[n] => m = n
    OBVIOUS
  <2>3. QED BY <2>1, <2>2 DEF Bijection, Injection, Surjection, IsInjective
<1>2. ExistsBijection(S, T)
  BY <1>1 DEF ExistsBijection
<1>3. IsFiniteSet(T) /\ Cardinality(T) = Cardinality(S)
  BY <1>2, FS_Bijection
<1>4. 1 \notin T
  OBVIOUS
<1>5. QED BY <1>3, <1>4

\* One more request in front: the log is a log, longer by one, and what was recent
\* is, with the new request if that is the client's.
LEMMA InFront ==
  ASSUME NEW L, IsLog(L), NEW entry \in Entry, entry.ago = 0, NEW M,
         M = [n \in {1} \union {m + 1 : m \in DOMAIN L} |-> IF n = 1 THEN entry ELSE L[n - 1]]
  PROVE  /\ IsLog(M) /\ M[1] = entry
         /\ Cardinality(DOMAIN M) = Cardinality(DOMAIN L) + 1
         /\ \A s \in Server, c \in Client, l \in Limiter : \A age \in Nat :
               Cardinality(Recent(M, s, c, l, age)) =
                  Cardinality(Recent(L, s, c, l, age)) +
                     (IF entry.server = s /\ entry.client = c /\ l \in entry.limiters
                      THEN 1 ELSE 0)
<1> DEFINE T == {m + 1 : m \in DOMAIN L}
<1>1. DOMAIN L \in SUBSET (Nat \ {0}) /\ IsFiniteSet(DOMAIN L) /\ \A n \in DOMAIN L : L[n] \in Entry
  BY DEF IsLog
<1>2. IsFiniteSet(T) /\ Cardinality(T) = Cardinality(DOMAIN L) /\ 1 \notin T
  BY <1>1, Shifted
<1>3. IsFiniteSet(T \union {1}) /\ Cardinality(T \union {1}) = Cardinality(DOMAIN L) + 1
  <2>1. Cardinality(DOMAIN L) \in Nat
    BY <1>1, FS_CardinalityType
  <2> HIDE DEF T
  <2>2. QED BY <1>2, <2>1, FS_AddElement
<1>4. DOMAIN M = T \union {1}
  OBVIOUS
<1>5. M[1] = entry /\ \A m \in DOMAIN L : M[m + 1] = L[m]
  BY <1>1
<1>6. M \in [DOMAIN M -> Entry]
  <2>1. \A n \in DOMAIN M : M[n] \in Entry
    BY <1>1, <1>4, <1>5
  <2>2. QED BY <2>1
<1>7. IsLog(M)
  BY <1>1, <1>3, <1>4, <1>6 DEF IsLog
<1>8. ASSUME NEW s \in Server, NEW c \in Client, NEW l \in Limiter, NEW age \in Nat
      PROVE  Cardinality(Recent(M, s, c, l, age)) =
                Cardinality(Recent(L, s, c, l, age)) +
                   (IF entry.server = s /\ entry.client = c /\ l \in entry.limiters THEN 1 ELSE 0)
  <2> DEFINE R == Recent(L, s, c, l, age)
             U == {n + 1 : n \in R}
  <2>1. R \in SUBSET (Nat \ {0}) /\ IsFiniteSet(R) /\ Cardinality(R) \in Nat
    <3>1. R \in SUBSET DOMAIN L
      BY DEF Recent
    <3>2. IsFiniteSet(R) /\ Cardinality(R) \in Nat
      BY RecentIsFinite
    <3>3. QED BY <3>1, <3>2, <1>1
  <2>2. IsFiniteSet(U) /\ Cardinality(U) = Cardinality(R) /\ 1 \notin U
    BY <2>1, Shifted
  <2>3. IsFiniteSet(U \union {1}) /\ Cardinality(U \union {1}) = Cardinality(R) + 1
    <3> HIDE DEF R, U
    <3>1. QED BY SMTT(30), <2>1, <2>2, FS_AddElement
  <2>4. \A n : n \in Recent(M, s, c, l, age) <=>
                  \/ n \in U
                  \/ n = 1 /\ entry.server = s /\ entry.client = c /\ l \in entry.limiters
    BY <1>1, <1>2, <1>4, <1>5 DEF Recent
  <2>5. CASE entry.server = s /\ entry.client = c /\ l \in entry.limiters
    <3>1. Recent(M, s, c, l, age) = U \union {1}
      BY <2>4, <2>5
    <3>2. QED BY <3>1, <2>3, <2>5
  <2>6. CASE ~(entry.server = s /\ entry.client = c /\ l \in entry.limiters)
    <3>1. Recent(M, s, c, l, age) = U
      BY <2>4, <2>6
    <3>2. Cardinality(Recent(M, s, c, l, age)) = Cardinality(R) + 0
      <4> HIDE DEF R, U
      <4>1. QED BY <3>1, <2>1, <2>2
    <3>3. QED BY <3>2, <2>6
  <2>7. QED BY <2>5, <2>6
<1>9. QED BY <1>2, <1>3, <1>4, <1>5, <1>7, <1>8

\* One tick later: what drops out of the log is older than the window, and what was
\* recent is recent for an age one tick greater.
LEMMA OneTickOlder ==
  ASSUME NEW L, IsLog(L), NEW M,
         M = [n \in {n \in DOMAIN L : L[n].ago + 1 < WINDOW} |-> [L[n] EXCEPT !.ago = @ + 1]]
  PROVE  /\ IsLog(M) /\ DOMAIN M \subseteq DOMAIN L
         /\ Cardinality(DOMAIN M) <= Cardinality(DOMAIN L)
         /\ \A s \in Server, c \in Client, l \in Limiter : \A age \in Nat :
               age + 1 < WINDOW =>
                  Cardinality(Recent(L, s, c, l, age)) <= Cardinality(Recent(M, s, c, l, age + 1))
<1>1. DOMAIN L \in SUBSET (Nat \ {0}) /\ IsFiniteSet(DOMAIN L) /\ \A n \in DOMAIN L : L[n] \in Entry
  BY DEF IsLog
<1>2. DOMAIN M = {n \in DOMAIN L : L[n].ago + 1 < WINDOW} /\ DOMAIN M \in SUBSET DOMAIN L
  OBVIOUS
<1>3. IsFiniteSet(DOMAIN M) /\ Cardinality(DOMAIN M) <= Cardinality(DOMAIN L)
  BY <1>1, <1>2, FS_Subset
<1>4. ASSUME NEW n \in DOMAIN M
      PROVE  /\ M[n] \in Entry /\ M[n].ago = L[n].ago + 1 /\ M[n].server = L[n].server
             /\ M[n].client = L[n].client /\ M[n].limiters = L[n].limiters
  <2>1. n \in DOMAIN L /\ L[n] \in Entry /\ L[n].ago + 1 < WINDOW
    BY <1>1, <1>2
  <2>2. M[n] = [L[n] EXCEPT !.ago = @ + 1]
    BY <1>2
  <2>3. L[n].ago + 1 \in 0 .. WINDOW - 1
    BY <2>1, ServersAssumption DEF Entry
  <2>4. QED BY <2>1, <2>2, <2>3 DEF Entry
<1>5. IsLog(M)
  <2>1. M \in [DOMAIN M -> Entry]
    BY <1>4
  <2>2. QED BY <2>1, <1>1, <1>2, <1>3 DEF IsLog
<1>6. ASSUME NEW s \in Server, NEW c \in Client, NEW l \in Limiter, NEW age \in Nat,
             age + 1 < WINDOW
      PROVE  Cardinality(Recent(L, s, c, l, age)) <= Cardinality(Recent(M, s, c, l, age + 1))
  <2>1. ASSUME NEW n \in Recent(L, s, c, l, age)
        PROVE  n \in Recent(M, s, c, l, age + 1)
    <3>1. n \in DOMAIN L /\ L[n].ago <= age /\ L[n].ago \in 0 .. WINDOW - 1
      BY <1>1 DEF Recent, Entry
    <3>2. n \in DOMAIN M
      BY <3>1, <1>2, <1>6, ServersAssumption
    <3>3. M[n].ago <= age + 1
      BY <3>1, <3>2, <1>4
    <3>4. QED BY <3>2, <3>3, <1>4 DEF Recent
  <2>2. Recent(L, s, c, l, age) \in SUBSET Recent(M, s, c, l, age + 1)
    BY <2>1
  <2>3. QED BY <2>2, <1>5, RecentIsFinite, FS_Subset
<1>7. QED BY <1>2, <1>3, <1>5, <1>6

--------------------------------------------------------------------------------
(* Every step keeps every variable in its type. *)

LEMMA BecomesTyped ==
  ASSUME Typed, NEW s \in Server, NEW at \in State, Becomes(s, at)
  PROVE  /\ process' \in [Server -> Process]
         /\ process'[s].at = at
         /\ \A t \in Server \ {s} : process'[t] = process[t]
<1>1. [at |-> at, waited |-> 0] \in Process
  BY ServersAssumption DEF Process
<1>2. QED BY <1>1 DEF Typed, Becomes

LEMMA ExitTyped ==
  ASSUME Typed, NEW S \in SUBSET Server, Exit(S)
  PROVE  /\ cached' \in BOOLEAN
         /\ request' \in [Request -> Serve]
<1>1. Ended \in Serve
  BY DEF Ended, Serve
<1>2. QED BY <1>1 DEF Typed, Exit

LEMMA NoHitsTyped == NoHits \in [Limiter -> [Client -> Hit]]
  BY ServersAssumption DEF NoHits, NoHit, Hit

\* What a request is counted as, and what it is refused for.
LEMMA CountedIs ==
  ASSUME Typed, NEW s \in Server, NEW l \in Limiter, NEW c \in Client
  PROVE  /\ hits[s][l][c] \in Hit
         /\ Counted(s, l, c) \in Hit /\ Counted(s, l, c).n = hits[s][l][c].n + 1
         /\ Counted(s, l, c).left = (IF hits[s][l][c].n = 0 THEN WINDOW ELSE hits[s][l][c].left)
<1>1. hits[s][l][c] \in Hit
  BY DEF Typed
<1>2. QED BY <1>1, ServersAssumption DEF Counted, Key, Hit

\* What arrives is logged, for all the limiters of its route.
LEMMA ArriveLogs ==
  ASSUME Typed, NEW q \in Request, NEW c \in Client, NEW s \in Server, NEW route \in Route(s),
         Arrive(q, c, s, route)
  PROVE  \E entry \in Entry :
            /\ entry.server = s /\ entry.client = c /\ entry.ago = 0
            /\ entry.limiters = {Limiters(route)[i] : i \in DOMAIN Limiters(route)}
            /\ log' = Logged(entry)
<1> DEFINE chain == Limiters(route)
           entry == [server |-> s, client |-> c, ago |-> 0,
                     limiters |-> {chain[i] : i \in DOMAIN chain}]
<1>1. \A i \in DOMAIN chain : chain[i] \in Limiter
  BY ChainsAreLimiters
<1>2. entry \in Entry
  BY <1>1, ServersAssumption DEF Entry
<1>3. log' = Logged(entry)
  BY DEF Arrive
<1>4. QED BY <1>2, <1>3

\* A counter is left alone, or counts one more request of the client who sent it, and
\* then the log shows it.
LEMMA ArriveCounts ==
  ASSUME Typed, NEW q \in Request, NEW c \in Client, NEW s \in Server, NEW route \in Route(s),
         Arrive(q, c, s, route)
  PROVE  /\ hits' \in [Server -> [Limiter -> [Client -> Hit]]]
         /\ \A t \in Server, l \in Limiter, d \in Client :
               \/ hits'[t][l][d] = hits[t][l][d]
               \/ /\ t = s /\ d = c /\ hits'[t][l][d] = Counted(t, l, d)
                  /\ l \in {Limiters(route)[i] : i \in DOMAIN Limiters(route)}
<1> DEFINE chain == Limiters(route)
<1>1. PICK seen : /\ seen \subseteq {chain[i] : i \in DOMAIN chain}
                  /\ hits' = [hits EXCEPT ![s] = [l \in Limiter |->
                        IF l \in seen THEN [@[l] EXCEPT ![c] = Counted(s, l, c)] ELSE @[l]]]
  <2> DEFINE over == {i \in DOMAIN chain : OverLimit(s, chain[i], c)}
             seen == {chain[i] : i \in {i \in DOMAIN chain : \A j \in over : i <= j}}
  <2>1. seen \subseteq {chain[i] : i \in DOMAIN chain}
    OBVIOUS
  <2>2. hits' = [hits EXCEPT ![s] = [l \in Limiter |->
                        IF l \in seen THEN [@[l] EXCEPT ![c] = Counted(s, l, c)] ELSE @[l]]]
    BY DEF Arrive, Key
  <2>3. QED BY <2>1, <2>2
<1>2. \A t \in Server, l \in Limiter : hits[t][l] \in [Client -> Hit]
  BY DEF Typed
<1>3. \A l \in Limiter : Counted(s, l, c) \in Hit
  BY CountedIs
<1>4. \A t \in Server \ {s} : hits'[t] = hits[t]
  BY <1>1 DEF Typed
<1>5. hits'[s] = [l \in Limiter |-> IF l \in seen THEN [hits[s][l] EXCEPT ![c] = Counted(s, l, c)]
                                    ELSE hits[s][l]]
  BY <1>1 DEF Typed
<1>6. hits' \in [Server -> [Limiter -> [Client -> Hit]]]
  <2>1. hits'[s] \in [Limiter -> [Client -> Hit]]
    BY <1>2, <1>3, <1>5
  <2>2. QED BY <2>1, <1>1 DEF Typed
<1>7. \A t \in Server, l \in Limiter, d \in Client :
         \/ hits'[t][l][d] = hits[t][l][d]
         \/ t = s /\ d = c /\ hits'[t][l][d] = Counted(t, l, d) /\ l \in seen
  BY <1>2, <1>4, <1>5
<1>8. QED BY <1>1, <1>6, <1>7

LEMMA TypedArrive ==
  ASSUME Typed, NEW q \in Request, NEW c \in Client, NEW s \in Server, NEW route \in Route(s),
         Arrive(q, c, s, route)
  PROVE  Typed'
<1>1. process' = process /\ cached' = cached
  BY DEF Arrive
<1>2. request' \in [Request -> Serve]
  <2>1. [server |-> s, route |-> route] \in Serve
    BY DEF Route, Serve
  <2>2. request' = request \/ request' = [request EXCEPT ![q] = [server |-> s, route |-> route]]
    BY DEF Arrive
  <2>3. QED BY <2>1, <2>2 DEF Typed
<1>3. IsLog(log') /\ Cardinality(DOMAIN log') <= MaxSent
  <2>1. PICK entry \in Entry : entry.ago = 0 /\ log' = Logged(entry)
    BY ArriveLogs
  <2>0. IsLog(log)
    BY DEF Typed
  <2>2. IsLog(log') /\ Cardinality(DOMAIN log') = Cardinality(DOMAIN log) + 1
    BY <2>0, <2>1, InFront DEF Logged
  <2>3. Cardinality(DOMAIN log) < MaxSent /\ Cardinality(DOMAIN log) \in Nat
    BY <2>0, FS_CardinalityType DEF Arrive, IsLog
  <2>4. QED BY <2>2, <2>3, ServersAssumption
<1>4. QED BY <1>1, <1>2, <1>3, ArriveCounts DEF Typed

LEMMA TickProcess ==
  ASSUME Typed, Tick, NEW s \in Server
  PROVE  /\ process'[s] \in Process
         /\ process'[s].at = (IF s \in Overdue THEN "down" ELSE process[s].at)
<1>1. process[s] \in Process
  BY DEF Typed
<1>2. CASE s \in Overdue
  <2>1. process'[s] = [at |-> "down", waited |-> 0]
    BY <1>2 DEF Tick
  <2>2. QED BY <1>2, <2>1, ServersAssumption DEF Process, State
<1>3. CASE s \notin Overdue /\ process[s].at = "closing"
  <2>1. process'[s] = [process[s] EXCEPT !.waited = @ + 1]
    BY <1>3 DEF Tick
  <2>2. process[s].waited + 1 \in 0 .. GRACE - 1
    BY <1>1, <1>3, ServersAssumption DEF Overdue, Process
  <2>3. QED BY <1>1, <1>3, <2>1, <2>2 DEF Process
<1>4. CASE s \notin Overdue /\ process[s].at # "closing"
  <2>1. process'[s] = process[s]
    BY <1>4 DEF Tick
  <2>2. QED BY <1>1, <1>4, <2>1
<1>5. QED BY <1>2, <1>3, <1>4

LEMMA AgedIs ==
  ASSUME NEW h \in Hit
  PROVE  /\ Aged(h) \in Hit
         /\ Aged(h).n > 0 => /\ Aged(h).n = h.n /\ h.left > 1
                             /\ Aged(h).left = h.left - 1
  BY ServersAssumption DEF Aged, NoHit, Hit

LEMMA TickHits ==
  ASSUME Typed, Tick, NEW s \in Server, NEW l \in Limiter, NEW c \in Client
  PROVE  hits'[s][l][c] = (IF s \in Overdue THEN NoHit ELSE Aged(hits[s][l][c]))
  BY DEF Typed, Tick, NoHits

LEMMA TypedTick ==
  ASSUME Typed, Tick
  PROVE  Typed'
<1>1. process' \in [Server -> Process]
  <2>1. process' = [s \in Server |-> process'[s]]
    BY DEF Tick
  <2>2. QED BY <2>1, TickProcess
<1>2. /\ cached' \in BOOLEAN
      /\ request' \in [Request -> Serve]
  BY ExitTyped DEF Tick, Overdue
<1>3. hits' \in [Server -> [Limiter -> [Client -> Hit]]]
  <2>1. \A s \in Server, l \in Limiter, c \in Client : Aged(hits[s][l][c]) \in Hit
    BY AgedIs DEF Typed
  <2>2. QED BY <2>1, NoHitsTyped DEF Tick
<1>4. IsLog(log') /\ Cardinality(DOMAIN log') <= MaxSent
  <2>1. /\ IsLog(log') /\ Cardinality(DOMAIN log') <= Cardinality(DOMAIN log)
    BY OneTickOlder DEF Typed, Tick
  <2>2. Cardinality(DOMAIN log) \in Nat /\ Cardinality(DOMAIN log') \in Nat
    BY <2>1, FS_CardinalityType DEF Typed, IsLog
  <2>3. QED BY <2>1, <2>2, ServersAssumption DEF Typed
<1>5. QED BY <1>1, <1>2, <1>3, <1>4 DEF Typed

LEMMA TypedInit ==
  ASSUME Init
  PROVE  Typed
<1>1. process \in [Server -> Process]
  BY ServersAssumption DEF Init, Process, State
<1>2. hits \in [Server -> [Limiter -> [Client -> Hit]]]
  BY NoHitsTyped DEF Init
<1>3. request \in [Request -> Serve]
  BY DEF Init, Ended, Serve
<1>4. IsLog(log) /\ Cardinality(DOMAIN log) <= MaxSent
  <2>1. DOMAIN log = {} /\ log \in [DOMAIN log -> Entry]
    BY DEF Init
  <2>2. QED BY <2>1, FS_EmptySet, ServersAssumption DEF IsLog
<1>5. QED BY <1>1, <1>2, <1>3, <1>4 DEF Typed, Init

LEMMA TypedStep ==
  ASSUME Typed, [Next]_vars
  PROVE  Typed'
<1> USE DEF Typed
<1>0. Orchestrator \in Server /\ {"down", "loading", "pinging", "listening", "closing"} = State
  BY DEF Server, State
<1>1. ASSUME Start PROVE Typed'
  BY <1>0, <1>1, BecomesTyped DEF Start
<1>2. ASSUME LoadFacilitatorCapabilities PROVE Typed'
  BY <1>0, <1>2, BecomesTyped DEF LoadFacilitatorCapabilities
<1>3. ASSUME PingServices PROVE Typed'
  BY <1>0, <1>3, BecomesTyped DEF PingServices
<1>4. ASSUME NEW s \in Server, StartService(s) PROVE Typed'
  BY <1>0, <1>4, BecomesTyped DEF StartService
<1>5. ASSUME NEW s \in Server, Shutdown(s) PROVE Typed'
  BY <1>0, <1>5, BecomesTyped DEF Shutdown
<1>6. ASSUME NEW s \in Server, Becomes(s, "down"), Exit({s}), hits' = [hits EXCEPT ![s] = NoHits],
             log' = log
      PROVE  Typed'
  <2>1. process' \in [Server -> Process]
    BY <1>0, <1>6, BecomesTyped
  <2>2. /\ cached' \in BOOLEAN
        /\ request' \in [Request -> Serve]
    BY <1>6, ExitTyped
  <2>3. QED BY <1>6, <2>1, <2>2, NoHitsTyped
<1>7. ASSUME KilledEarly PROVE Typed'
  BY <1>0, <1>6, <1>7 DEF KilledEarly
<1>8. ASSUME NEW s \in Server, CloseCleanly(s) PROVE Typed'
  BY <1>6, <1>8 DEF CloseCleanly
<1>9. ASSUME NEW q \in Request, Respond(q) PROVE Typed'
  <2>1. Ended \in Serve
    BY DEF Ended, Serve
  <2>2. QED BY <1>9, <2>1 DEF Respond
<1>10. CASE UNCHANGED vars
  BY <1>10 DEF vars
<1>11. QED BY <1>1, <1>2, <1>3, <1>4, <1>5, <1>7, <1>8, <1>9, <1>10, TypedTick, TypedArrive DEF Next

--------------------------------------------------------------------------------
(* Requests are served only by a process that can. *)

LEMMA ServingInit ==
  ASSUME Init
  PROVE  Serving
<1>1. Orchestrator \in Server
  BY DEF Server
<1>2. QED BY <1>1 DEF Init, Serving, Open, Ended

\* A process that ends takes its requests with it, and no other one's.
LEMMA ServingEnds ==
  ASSUME Typed, Serving, NEW s \in Server, Becomes(s, "down"), Exit({s})
  PROVE  Serving'
<1>1. process'[s].at = "down" /\ \A t \in Server \ {s} : process'[t] = process[t]
  BY BecomesTyped DEF State
<1>2. ASSUME NEW q \in Request, Open(q)'
      PROVE  process'[request'[q].server].at \in {"listening", "closing"}
  <2>1. request'[q] = request[q] /\ Open(q) /\ request[q].server # s
    BY <1>2 DEF Exit, Open, Ended
  <2>2. request[q].server \in Server
    BY <2>1 DEF Typed, Open, Serve
  <2>3. QED BY <1>1, <2>1, <2>2 DEF Serving
<1>3. process'[Orchestrator].at \in {"pinging", "listening", "closing"} => cached'
  BY <1>1 DEF Serving, Exit, Server
<1>4. QED BY <1>2, <1>3 DEF Serving

\* A process with no request under way may become anything that the cache allows, and
\* a listening one may start to close.
LEMMA ServingBecomes ==
  ASSUME Typed, Serving, NEW s \in Server, NEW at \in State, Becomes(s, at), request' = request,
         \/ at \in {"listening", "closing"}
         \/ process[s].at \notin {"listening", "closing"},
         cached => cached',
         s = Orchestrator /\ at \in {"pinging", "listening", "closing"} => cached'
  PROVE  Serving'
<1>1. process'[s].at = at /\ \A t \in Server \ {s} : process'[t] = process[t]
  BY BecomesTyped
<1>2. ASSUME NEW q \in Request, Open(q)'
      PROVE  process'[request'[q].server].at \in {"listening", "closing"}
  <2>1. Open(q) /\ request[q].server \in Server
    BY <1>2 DEF Typed, Open, Serve
  <2>2. process[request[q].server].at \in {"listening", "closing"}
    BY <2>1 DEF Serving
  <2>3. QED BY <1>1, <2>1, <2>2
<1>3. process'[Orchestrator].at \in {"pinging", "listening", "closing"} => cached'
  BY <1>1 DEF Serving, Server
<1>4. QED BY <1>2, <1>3 DEF Serving

LEMMA ServingTick ==
  ASSUME Typed, Serving, Tick
  PROVE  Serving'
<1>1. Exit(Overdue)
  BY DEF Tick
<1>2. ASSUME NEW q \in Request, Open(q)'
      PROVE  process'[request'[q].server].at \in {"listening", "closing"}
  <2>1. request'[q] = request[q] /\ Open(q) /\ request[q].server \notin Overdue
    BY <1>1, <1>2 DEF Exit, Open, Ended
  <2>2. request[q].server \in Server
    BY <2>1 DEF Typed, Open, Serve
  <2>3. process'[request[q].server].at = process[request[q].server].at
    BY <2>1, <2>2, TickProcess
  <2>4. QED BY <2>1, <2>3 DEF Serving
<1>3. process'[Orchestrator].at \in {"pinging", "listening", "closing"} => cached'
  <2>1. Orchestrator \in Server
    BY DEF Server
  <2>2. QED BY <1>1, <2>1, TickProcess DEF Serving, Exit
<1>4. QED BY <1>2, <1>3 DEF Serving

LEMMA ServingStep ==
  ASSUME Typed, Serving, [Next]_vars
  PROVE  Serving'
<1>0. Orchestrator \in Server /\ Orchestrator \notin Service
  BY ServersAssumption DEF Server
<1>1. ASSUME Start PROVE Serving'
  BY <1>0, <1>1, ServingBecomes DEF Start, State
<1>2. ASSUME LoadFacilitatorCapabilities PROVE Serving'
  BY <1>0, <1>2, ServingBecomes DEF LoadFacilitatorCapabilities, State
<1>3. ASSUME PingServices PROVE Serving'
  <2>1. cached
    BY <1>3 DEF PingServices, Serving
  <2>2. QED BY <1>0, <1>3, <2>1, ServingBecomes DEF PingServices, State
<1>4. ASSUME NEW s \in Server, StartService(s) PROVE Serving'
  BY <1>0, <1>4, ServingBecomes DEF StartService, State
<1>5. ASSUME NEW s \in Server, Shutdown(s) PROVE Serving'
  <2>1. s = Orchestrator => cached
    BY <1>5 DEF Shutdown, Listening, Serving
  <2>2. QED BY <1>5, <2>1, ServingBecomes DEF Shutdown, State
<1>6. ASSUME KilledEarly PROVE Serving'
  BY <1>0, <1>6, ServingEnds DEF KilledEarly
<1>7. ASSUME NEW s \in Server, CloseCleanly(s) PROVE Serving'
  BY <1>7, ServingEnds DEF CloseCleanly
<1>8. ASSUME NEW q \in Request, Respond(q) PROVE Serving'
  <2>1. \A p \in Request : Open(p)' => Open(p) /\ request'[p] = request[p]
    BY <1>8 DEF Respond, Typed, Open, Ended
  <2>2. process' = process /\ cached' = cached
    BY <1>8 DEF Respond
  <2>3. QED BY <2>1, <2>2 DEF Serving
<1>9. ASSUME NEW q \in Request, NEW c \in Client, NEW s \in Server, NEW route \in Route(s),
             Arrive(q, c, s, route)
      PROVE  Serving'
  <2>1. process' = process /\ cached' = cached /\ process[s].at = "listening"
    BY <1>9 DEF Arrive, Listening
  <2>2. \A p \in Request : \/ request'[p] = request[p]
                           \/ request'[p] = [server |-> s, route |-> route]
    BY <1>9 DEF Arrive, Typed
  <2>3. \A p \in Request : Open(p)' => process'[request'[p].server].at \in {"listening", "closing"}
    BY <2>1, <2>2 DEF Serving, Open
  <2>4. QED BY <2>1, <2>3 DEF Serving
<1>10. CASE UNCHANGED vars
  BY <1>10 DEF vars, Serving, Open
<1>11. QED BY <1>1, <1>2, <1>3, <1>4, <1>5, <1>6, <1>7, <1>8, <1>9, <1>10, ServingTick DEF Next
--------------------------------------------------------------------------------
(* What is counted is borne out by the log. *)

LEMMA NoHitBorneOut ==
  ASSUME NEW L, NEW s, NEW c, NEW l
  PROVE  BorneOut(NoHit, L, s, c, l)
  BY DEF BorneOut, NoHit

LEMMA WitnessedInit ==
  ASSUME Init
  PROVE  Witnessed
<1>1. \A s \in Server, l \in Limiter, c \in Client : hits[s][l][c] = NoHit
  BY DEF Init, NoHits
<1>2. QED BY <1>1, NoHitBorneOut DEF Witnessed

\* A process that ends has counted nothing.
LEMMA WitnessedEnds ==
  ASSUME Typed, Witnessed, NEW s \in Server, hits' = [hits EXCEPT ![s] = NoHits], log' = log
  PROVE  Witnessed'
<1>1. \A t \in Server, l \in Limiter, c \in Client :
         hits'[t][l][c] = (IF t = s THEN NoHit ELSE hits[t][l][c])
  BY DEF Typed, NoHits
<1>2. QED BY <1>1, NoHitBorneOut DEF Witnessed

LEMMA WitnessedArrive ==
  ASSUME Typed, Witnessed, NEW q \in Request, NEW c \in Client, NEW s \in Server,
         NEW route \in Route(s), Arrive(q, c, s, route)
  PROVE  Witnessed'
<1>1. PICK entry \in Entry : /\ entry.server = s /\ entry.client = c /\ entry.ago = 0
                             /\ entry.limiters = {Limiters(route)[i] : i \in DOMAIN Limiters(route)}
                             /\ log' = Logged(entry)
  BY ArriveLogs
<1>2. IsLog(log)
  BY DEF Typed
<1>3. \A t \in Server, d \in Client, l \in Limiter : \A age \in Nat :
         Cardinality(Recent(log', t, d, l, age)) =
            Cardinality(Recent(log, t, d, l, age)) +
               (IF entry.server = t /\ entry.client = d /\ l \in entry.limiters THEN 1 ELSE 0)
  BY <1>1, <1>2, InFront DEF Logged
<1>4. SUFFICES ASSUME NEW t \in Server, NEW l \in Limiter, NEW d \in Client
               PROVE  BorneOut(hits'[t][l][d], log', t, d, l)
  BY DEF Witnessed
<1>5. BorneOut(hits[t][l][d], log, t, d, l) /\ hits[t][l][d] \in Hit
  BY DEF Witnessed, Typed
<1>6. \A age \in Nat : Cardinality(Recent(log, t, d, l, age)) \in Nat
  BY <1>2, RecentIsFinite
<1>7. CASE hits'[t][l][d] = hits[t][l][d]
  <2>1. SUFFICES ASSUME hits[t][l][d].n > 0
                 PROVE  /\ hits[t][l][d].left \in 1 .. WINDOW
                        /\ hits[t][l][d].n <= Cardinality(Recent(log', t, d, l,
                                                             WINDOW - hits[t][l][d].left))
    BY <1>7 DEF BorneOut
  <2>2. WINDOW - hits[t][l][d].left \in Nat /\ hits[t][l][d].n \in Nat
    BY <1>5, ServersAssumption DEF Hit
  <2>3. QED BY <1>3, <1>5, <1>6, <2>1, <2>2 DEF BorneOut
<1>8. CASE /\ t = s /\ d = c /\ hits'[t][l][d] = Counted(t, l, d)
           /\ l \in {Limiters(route)[i] : i \in DOMAIN Limiters(route)}
  <2> DEFINE h == hits[t][l][d]
             k == Counted(t, l, d)
  <2>1. k.n = h.n + 1 /\ k.left = (IF h.n = 0 THEN WINDOW ELSE h.left) /\ h.n \in Nat
    BY <1>5, CountedIs DEF Hit
  <2>2. \A age \in Nat : Cardinality(Recent(log', t, d, l, age)) =
                            Cardinality(Recent(log, t, d, l, age)) + 1
    BY <1>1, <1>3, <1>8
  <2>3. k.left \in 1 .. WINDOW
    BY <1>5, <2>1, ServersAssumption DEF BorneOut
  <2>4. WINDOW - k.left \in Nat
    BY <2>3, ServersAssumption
  <2>5. h.n <= Cardinality(Recent(log, t, d, l, WINDOW - k.left))
    BY <1>5, <1>6, <2>1, <2>4 DEF BorneOut
  <2>6. k.n <= Cardinality(Recent(log', t, d, l, WINDOW - k.left))
    BY <1>6, <2>1, <2>2, <2>4, <2>5
  <2>7. QED BY <1>8, <2>3, <2>6 DEF BorneOut
<1>9. QED BY <1>7, <1>8, ArriveCounts

LEMMA WitnessedTick ==
  ASSUME Typed, Witnessed, Tick
  PROVE  Witnessed'
<1>1. IsLog(log)
  BY DEF Typed
<1>2. \A s \in Server, c \in Client, l \in Limiter : \A age \in Nat :
         age + 1 < WINDOW =>
            Cardinality(Recent(log, s, c, l, age)) <= Cardinality(Recent(log', s, c, l, age + 1))
  BY <1>1, OneTickOlder DEF Tick
<1>3. IsLog(log')
  BY TypedTick DEF Typed
<1>4. SUFFICES ASSUME NEW s \in Server, NEW l \in Limiter, NEW c \in Client
               PROVE  BorneOut(hits'[s][l][c], log', s, c, l)
  BY DEF Witnessed
<1>5. CASE s \in Overdue
  BY <1>5, TickHits, NoHitBorneOut
<1>6. CASE s \notin Overdue
  <2> DEFINE h == hits[s][l][c]
             k == Aged(h)
  <2>1. hits'[s][l][c] = k
    BY <1>6, TickHits
  <2>2. h \in Hit /\ BorneOut(h, log, s, c, l)
    BY DEF Typed, Witnessed
  <2>3. k \in Hit /\ (k.n > 0 => k.n = h.n /\ h.left > 1 /\ k.left = h.left - 1)
    BY <2>2, AgedIs
  <2> HIDE DEF h, k
  <2>4. ASSUME k.n > 0
        PROVE  k.left \in 1 .. WINDOW /\ k.n <= Cardinality(Recent(log', s, c, l, WINDOW - k.left))
    <3>1. /\ h.n = k.n /\ h.left > 1 /\ k.left = h.left - 1
          /\ h.left \in 1 .. WINDOW /\ h.n \in Nat
          /\ h.n <= Cardinality(Recent(log, s, c, l, WINDOW - h.left))
      BY <2>2, <2>3, <2>4, ServersAssumption DEF BorneOut, Hit
    <3>2. WINDOW - h.left \in Nat /\ WINDOW - h.left + 1 < WINDOW
          /\ WINDOW - k.left = WINDOW - h.left + 1
      BY <3>1, ServersAssumption
    <3>3. Cardinality(Recent(log, s, c, l, WINDOW - h.left)) <=
             Cardinality(Recent(log', s, c, l, WINDOW - k.left))
      BY <1>2, <3>2
    <3>4. /\ Cardinality(Recent(log, s, c, l, WINDOW - h.left)) \in Nat
          /\ Cardinality(Recent(log', s, c, l, WINDOW - k.left)) \in Nat
      BY <1>1, <1>3, RecentIsFinite
    <3>5. QED BY <3>1, <3>3, <3>4, ServersAssumption
  <2>5. QED BY <2>1, <2>4 DEF BorneOut
<1>7. QED BY <1>5, <1>6

LEMMA WitnessedStep ==
  ASSUME Typed, Witnessed, [Next]_vars
  PROVE  Witnessed'
<1>1. ASSUME hits' = hits, log' = log PROVE Witnessed'
  BY <1>1 DEF Witnessed
<1>2. ASSUME KilledEarly PROVE Witnessed'
  <2>1. Orchestrator \in Server
    BY DEF Server
  <2>2. QED BY <1>2, <2>1, WitnessedEnds DEF KilledEarly
<1>3. ASSUME NEW s \in Server, CloseCleanly(s) PROVE Witnessed'
  BY <1>3, WitnessedEnds DEF CloseCleanly
<1>4. CASE \/ Start \/ LoadFacilitatorCapabilities \/ PingServices \/ UNCHANGED vars
           \/ \E s \in Server : StartService(s) \/ Shutdown(s)
           \/ \E q \in Request : Respond(q)
  BY <1>1, <1>4 DEF Start, LoadFacilitatorCapabilities, PingServices, StartService, Shutdown,
     Respond, vars
<1>5. QED BY <1>2, <1>3, <1>4, WitnessedTick, WitnessedArrive DEF Next

--------------------------------------------------------------------------------
(* The theorems. *)

THEOREM ServersInvariance == Spec => []ServersInv
<1>1. Init => ServersInv
  BY TypedInit, ServingInit, WitnessedInit DEF ServersInv
<1>2. ServersInv /\ [Next]_vars => ServersInv'
  BY TypedStep, ServingStep, WitnessedStep DEF ServersInv
<1>3. QED BY <1>1, <1>2, PTL DEF Spec

\* The variables have their types, no limiter counts more than what was sent, and the
\* orchestrator serves only once loadFacilitatorCapabilities has cached a fee payer.
THEOREM ServersTypes == Spec => []TypeOK
<1>1. ServersInv => TypeOK
  <2>1. SUFFICES ASSUME ServersInv PROVE TypeOK
    OBVIOUS
  <2>2. ASSUME NEW s \in Server
        PROVE  /\ process[s].at \in {"down", "loading", "pinging", "listening", "closing"}
               /\ process[s].waited \in 0 .. GRACE - 1
    BY <2>1, <2>2 DEF ServersInv, Typed, Process, State
  <2>3. ASSUME NEW s \in Server, NEW l \in Limiter, NEW c \in Client
        PROVE  hits[s][l][c].n \in 0 .. MaxSent /\ hits[s][l][c].left \in 0 .. WINDOW
    <3> DEFINE h == hits[s][l][c]
               R == Recent(log, s, c, l, WINDOW - h.left)
    <3>1. h \in Hit /\ BorneOut(h, log, s, c, l)
      BY <2>1 DEF ServersInv, Typed, Witnessed
    <3>2. IsLog(log) /\ Cardinality(DOMAIN log) <= MaxSent
      BY <2>1 DEF ServersInv, Typed
    <3>3. /\ Cardinality(R) \in Nat /\ Cardinality(DOMAIN log) \in Nat
          /\ Cardinality(R) <= Cardinality(DOMAIN log)
      BY <3>2, RecentIsFinite
    <3>4. h.n > 0 => h.n <= Cardinality(R)
      BY <3>1 DEF BorneOut
    <3>5. h.n \in Nat /\ h.left \in 0 .. WINDOW
      BY <3>1 DEF Hit
    <3> HIDE DEF h, R
    <3>6. h.n \in 0 .. MaxSent
      BY <3>2, <3>3, <3>4, <3>5, ServersAssumption
    <3>7. QED BY <3>5, <3>6 DEF h
  <2>4. ASSUME NEW q \in Request
        PROVE  /\ Open(q) => process[request[q].server].at \in {"listening", "closing"}
               /\ Open(q) /\ request[q].server = Orchestrator => cached
    BY <2>1 DEF ServersInv, Serving
  <2>5. cached \in BOOLEAN
    BY <2>1 DEF ServersInv, Typed
  <2>6. QED BY <2>2, <2>3, <2>4, <2>5 DEF TypeOK
<1>2. QED BY <1>1, ServersInvariance, PTL

\* Shutdown's promise: a request that its process took down with it had the whole
\* grace to finish; one under way is cut by nothing else.
THEOREM ResetsTheorem == Spec => ResetsOnlyAfterTheGrace
<1>1. ASSUME ServersInv, [Next]_vars, NEW q \in Request, Open(q),
             process'[request[q].server].at = "down"
      PROVE  /\ process[request[q].server].at = "closing"
             /\ process[request[q].server].waited + 1 = GRACE
  <2> DEFINE t == request[q].server
  <2>1. Typed /\ t \in Server /\ process[t].at \in {"listening", "closing"}
    BY <1>1 DEF ServersInv, Typed, Serving, Open, Serve
  <2>0. Orchestrator \in Server
    BY DEF Server
  <2>2. ASSUME NEW s \in Server, NEW at \in State, Becomes(s, at),
               at = "down" => s # t
        PROVE  process'[t].at # "down"
    <3>1. process'[s].at = at /\ \A r \in Server \ {s} : process'[r] = process[r]
      BY <2>1, <2>2, BecomesTyped
    <3>2. QED BY <2>1, <2>2, <3>1
  <2>3. ~Start /\ ~LoadFacilitatorCapabilities /\ ~PingServices
    BY <1>1, <2>0, <2>2 DEF Start, LoadFacilitatorCapabilities, PingServices, State
  <2>4. \A s \in Server : ~StartService(s) /\ ~Shutdown(s)
    BY <1>1, <2>2 DEF StartService, Shutdown, State
  <2>5. ~KilledEarly
    <3>1. SUFFICES ASSUME KilledEarly PROVE FALSE
      OBVIOUS
    <3>2. t # Orchestrator
      BY <2>1, <3>1 DEF KilledEarly
    <3>3. QED BY <1>1, <2>0, <2>2, <3>1, <3>2 DEF KilledEarly, State
  <2>6. \A s \in Server : ~CloseCleanly(s)
    <3>1. SUFFICES ASSUME NEW s \in Server, CloseCleanly(s) PROVE FALSE
      OBVIOUS
    <3>2. t # s
      BY <1>1, <3>1 DEF CloseCleanly, OpenAt
    <3>3. QED BY <1>1, <2>2, <3>1, <3>2 DEF CloseCleanly, State
  <2>7. process' # process
    BY <1>1, <2>1
  <2>8. Tick
    BY ZenonT(60), <1>1, <2>3, <2>4, <2>5, <2>6, <2>7 DEF Next, Respond, Arrive, vars
  <2>9. t \in Overdue
    BY <1>1, <2>1, <2>8, TickProcess
  <2>10. QED BY <2>9 DEF Overdue
<1>2. ServersInv /\ [Next]_vars =>
         [\A q \in Request : Open(q) /\ process'[request[q].server].at = "down" =>
            LET p == process[request[q].server] IN p.at = "closing" /\ p.waited + 1 = GRACE]_vars
  BY <1>1
<1>3. QED BY <1>2, ServersInvariance, PTL DEF Spec, ResetsOnlyAfterTheGrace

\* createRateLimit keyed by req.ip behind a trusted proxy: who is refused has used up
\* the limit himself within the window, whatever the others sent.
THEOREM OwnLimitTheorem == Spec => OwnLimit
<1>1. ASSUME ServersInv, [Next]_vars, ~(DOMAIN log' \subseteq DOMAIN log), request' = request
      PROVE  \E l \in log'[1].limiters :
                Cardinality(Own(log'[1].server, log'[1].client, l)) >= Limit(l)
  <2>1. Typed /\ Witnessed /\ IsLog(log)
    BY <1>1 DEF ServersInv, Typed
  <2>2. ~Tick
    BY <1>1, <2>1, OneTickOlder DEF Tick
  <2>3. log' # log
    BY <1>1
  <2>4. PICK q \in Request, c \in Client, s \in Server : \E route \in Route(s) : Arrive(q, c, s, route)
    BY <1>1, <2>2, <2>3 DEF Next, Start, LoadFacilitatorCapabilities, PingServices, KilledEarly,
       StartService, Shutdown, CloseCleanly, Respond, vars
  <2>5. PICK route \in Route(s) : Arrive(q, c, s, route)
    BY <2>4
  <2>6. PICK entry \in Entry :
           /\ entry.server = s /\ entry.client = c /\ entry.ago = 0
           /\ entry.limiters = {Limiters(route)[i] : i \in DOMAIN Limiters(route)}
           /\ log' = Logged(entry)
    BY <2>1, <2>5, ArriveLogs
  <2>7. log'[1] = entry
    BY <2>1, <2>6, InFront DEF Logged
  <2>8. PICK i \in DOMAIN Limiters(route) : OverLimit(s, Limiters(route)[i], c)
    <3>1. SUFFICES ASSUME \A i \in DOMAIN Limiters(route) : ~OverLimit(s, Limiters(route)[i], c)
                   PROVE  FALSE
      OBVIOUS
    <3>2. request' = [request EXCEPT ![q] = [server |-> s, route |-> route]]
      BY <2>5, <3>1 DEF Arrive
    <3>3. request[q].server = s
      BY <1>1, <2>1, <3>2 DEF Typed
    <3>4. request[q].server = None
      BY <2>5 DEF Arrive, Open
    <3>5. QED BY <3>3, <3>4, ServersAssumption
  <2> DEFINE l == Limiters(route)[i]
             h == hits[s][l][c]
             R == Recent(log, s, c, l, WINDOW - h.left)
  <2>9. l \in Limiter
    BY ChainsAreLimiters
  <2>10. h.n >= Limit(l) /\ h.n > 0
    <3>1. Counted(s, l, c).n = h.n + 1 /\ h.n \in Nat
      BY <2>1, <2>9, CountedIs DEF Hit
    <3>2. Limit(l) \in Nat \ {0}
      BY <2>9, LimitsArePositive
    <3>3. h.n + 1 > Limit(l)
      BY <2>8, <3>1 DEF OverLimit
    <3> HIDE DEF h, l
    <3>4. QED BY <3>1, <3>2, <3>3
  <2>11. h.n <= Cardinality(R) /\ h.n \in Nat
    BY <2>1, <2>9, <2>10 DEF Witnessed, BorneOut, Typed, Hit
  <2>12. /\ Cardinality(R) <= Cardinality(Own(s, c, l))
         /\ Cardinality(R) \in Nat /\ Cardinality(Own(s, c, l)) \in Nat
    <3>1. Own(s, c, l) \in SUBSET DOMAIN log /\ R \in SUBSET Own(s, c, l)
      BY DEF Own, Recent
    <3>2. IsFiniteSet(Own(s, c, l))
      BY <2>1, <3>1, FS_Subset DEF IsLog
    <3>3. IsFiniteSet(R) /\ Cardinality(R) <= Cardinality(Own(s, c, l))
      BY <3>1, <3>2, FS_Subset
    <3>4. QED BY <3>2, <3>3, FS_CardinalityType
  <2>13. Cardinality(Own(s, c, l)) >= Limit(l)
    <3>1. Limit(l) \in Nat
      BY <2>9, LimitsArePositive
    <3> HIDE DEF h, R, l
    <3>2. QED BY <3>1, <2>10, <2>11, <2>12
  <2>14. l \in entry.limiters
    BY <2>6
  <2>15. QED BY <2>6, <2>7, <2>13, <2>14
<1>2. ServersInv /\ [Next]_vars =>
         [LET last == log'[1]
          IN  ~(DOMAIN log' \subseteq DOMAIN log) /\ request' = request =>
                 \E l \in last.limiters :
                    Cardinality(Own(last.server, last.client, l)) >= Limit(l)]_vars
  BY <1>1
<1>3. QED BY <1>2, ServersInvariance, PTL DEF Spec, OwnLimit
================================================================================
