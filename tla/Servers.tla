--------------------------------- MODULE Servers ---------------------------------
(***************************************************************************)
(* The processes: the orchestrator and the check services start, count     *)
(* their callers' requests, serve them, and are shut down by a deploy.     *)
(*                                                                         *)
(* What a request does is the matter of the other modules; here it is      *)
(* counted, served, refused, or cut off with its process.  The services    *)
(* see one caller only, the orchestrator, whoever the buyer is.            *)
(***************************************************************************)
EXTENDS Integers, FiniteSets

CONSTANTS
    Buyer, Service,
    Orchestrator,
    Request,           \* requests that can be under way at once
    MaxSent,           \* bound: requests sent in WINDOW ticks
    MAX_REQUESTS,      \* env.rateLimit.max
    QuoteShare, SettleShare, CheckShare,   \* what a route's limiter divides it by
    QuoteFloor, SettleFloor, CheckFloor,   \* and what it leaves at least
    WINDOW, GRACE,     \* windowMs and the 10 s of shutdown, in ticks
    None

Server == {Orchestrator} \union Service
Client == Buyer \union {Orchestrator}

ASSUME ServersAssumption ==
    /\ Orchestrator \notin Service \union Buyer /\ None \notin Server \union Client
    /\ MAX_REQUESTS \in Nat \ {0} /\ MaxSent \in Nat
    /\ {QuoteShare, SettleShare, CheckShare} \subseteq Nat \ {0}
    /\ {QuoteFloor, SettleFloor, CheckFloor} \subseteq Nat \ {0}
    /\ WINDOW \in Nat \ {0} /\ GRACE \in Nat \ {0}

VARIABLES
    process,   \* process[s]: what it is doing, and for how long it has been closing
    cached,    \* does the orchestrator have a fee payer
    hits,      \* hits[s][l][c]: what limiter l of s counted of c, and how much longer
    request,   \* the requests
    log        \* history: log[n] is the n-th last request, if it came in the last WINDOW ticks

vars == <<process, cached, hits, request, log>>
--------------------------------------------------------------------------------
(* The limiters. *)

Limiter == {"global", "quote", "settle", "check"}

AtLeast(floor, n) == IF n > floor THEN n ELSE floor

quoteLimiter == AtLeast(QuoteFloor, MAX_REQUESTS \div QuoteShare)
settleLimiter == AtLeast(SettleFloor, MAX_REQUESTS \div SettleShare)
checkLimiter == AtLeast(CheckFloor, MAX_REQUESTS \div CheckShare)

Limit(l) ==
    CASE l = "global" -> MAX_REQUESTS
      [] l = "quote" -> quoteLimiter
      [] l = "settle" -> settleLimiter
      [] l = "check" -> checkLimiter

Route(s) == IF s = Orchestrator THEN {"quote", "discover", "verify", "settle", "health"}
            ELSE {"check", "health"}

\* What a route is limited by, in order: the global limiter stands before them all,
\* quotes and discoveries share one.
Limiters(route) ==
    CASE route \in {"verify", "health"} -> <<"global">>
      [] route \in {"quote", "discover"} -> <<"global", "quote">>
      [] OTHER -> <<"global", route>>

\* Slip: without `trust proxy` every caller has the address of the proxy.
KeyOfProxy(c) == Orchestrator

\* req.ip
Key(c) == c

NoHit == [n |-> 0, left |-> 0]
NoHits == [l \in Limiter |-> [c \in Client |-> NoHit]]

\* One more request of a client; its window begins with the first, and is over,
\* with all it counted, WINDOW ticks later.
Counted(s, l, c) ==
    LET h == hits[s][l][Key(c)] IN
    IF h.n = 0 THEN [n |-> 1, left |-> WINDOW] ELSE [h EXCEPT !.n = @ + 1]

Aged(h) == IF h.left <= 1 THEN NoHit ELSE [h EXCEPT !.left = @ - 1]

OverLimit(s, l, c) == Counted(s, l, c).n > Limit(l)
--------------------------------------------------------------------------------
(* Start-up. *)

\* A request that was never sent, was answered, or was cut.
Ended == [server |-> None, route |-> "none"]

Init ==
    /\ process = [s \in Server |-> [at |-> "down", waited |-> 0]]
    /\ cached = FALSE
    /\ hits = [s \in Server |-> NoHits]
    /\ request = [q \in Request |-> Ended]
    /\ log = [n \in {} |-> None]

Becomes(s, at) == process' = [process EXCEPT ![s] = [at |-> at, waited |-> 0]]

Listening(s) == process[s].at = "listening"

StartService(s) ==
    /\ s \in Service /\ process[s].at = "down" /\ Becomes(s, "listening")
    /\ UNCHANGED <<cached, hits, request, log>>

\* Slip: the server listens while it still asks for the capabilities.
StartListening ==
    /\ process[Orchestrator].at = "down" /\ Becomes(Orchestrator, "listening")
    /\ UNCHANGED <<cached, hits, request, log>>

\* start(): first the capabilities ...
Start ==
    /\ process[Orchestrator].at = "down" /\ Becomes(Orchestrator, "loading")
    /\ UNCHANGED <<cached, hits, request, log>>

\* ... from the facilitator or, whatever goes wrong, the fallback (CheckCalls) ...
LoadFacilitatorCapabilities ==
    /\ process[Orchestrator].at = "loading"
    /\ cached' = TRUE
    /\ Becomes(Orchestrator, "pinging")
    /\ UNCHANGED <<hits, request, log>>

\* ... then the services are pinged, and reached or not, it listens.
PingServices ==
    /\ process[Orchestrator].at = "pinging" /\ Becomes(Orchestrator, "listening")
    /\ UNCHANGED <<cached, hits, request, log>>
--------------------------------------------------------------------------------
(* Requests. *)

Open(q) == request[q].server # None
OpenAt(s) == {q \in Request : Open(q) /\ request[q].server = s}

\* Buyers call the orchestrator.  It calls services: for a check when it has a quote
\* or a verify open, for their health when asked for its own or starting.
Calls(c, s, route) ==
    IF s = Orchestrator THEN c \in Buyer
    ELSE /\ c = Orchestrator
         /\ \/ \E q \in OpenAt(Orchestrator) :
                 request[q].route \in IF route = "check" THEN {"quote", "verify"} ELSE {"health"}
            \/ route = "health" /\ process[Orchestrator].at = "pinging"

\* The log with one more request in front.
Logged(entry) ==
    [n \in {1} \union {m + 1 : m \in DOMAIN log} |-> IF n = 1 THEN entry ELSE log[n - 1]]

\* Client c's request comes in at a listening server: the limiters of its route
\* count it one after the other, up to one that refuses it.
Arrive(q, c, s, route) ==
    /\ ~Open(q) /\ Listening(s) /\ Calls(c, s, route) /\ Cardinality(DOMAIN log) < MaxSent
    /\ LET chain == Limiters(route)
           over == {i \in DOMAIN chain : OverLimit(s, chain[i], c)}
           seen == {chain[i] : i \in {i \in DOMAIN chain : \A j \in over : i <= j}}
       IN  /\ hits' = [hits EXCEPT ![s] = [l \in Limiter |->
                          IF l \in seen THEN [@[l] EXCEPT ![Key(c)] = Counted(s, l, c)] ELSE @[l]]]
           /\ request' = IF over # {} THEN request
                         ELSE [request EXCEPT ![q] = [server |-> s, route |-> route]]
           /\ log' = Logged([server |-> s, client |-> c, ago |-> 0,
                            limiters |-> {chain[i] : i \in DOMAIN chain}])
    /\ UNCHANGED <<process, cached>>

Respond(q) ==
    /\ Open(q) /\ request' = [request EXCEPT ![q] = Ended]
    /\ UNCHANGED <<process, cached, hits, log>>
--------------------------------------------------------------------------------
(* Shutdown. *)

\* The processes of S end: their counters and the cache go, open requests are cut.
Exit(S) ==
    /\ cached' = (cached /\ Orchestrator \notin S)
    /\ request' = [q \in Request |-> IF Open(q) /\ request[q].server \in S
                                     THEN Ended ELSE request[q]]

\* Slip: the process exits on the signal.
ExitOnSignal(s) ==
    /\ Listening(s) /\ Becomes(s, "down") /\ Exit({s})
    /\ hits' = [hits EXCEPT ![s] = NoHits] /\ UNCHANGED log

\* SIGTERM or SIGINT, once the handler is there: no more connections.
Shutdown(s) ==
    /\ Listening(s) /\ Becomes(s, "closing")
    /\ UNCHANGED <<cached, hits, request, log>>

\* Before start() has got that far, a signal simply ends the process.
KilledEarly ==
    /\ process[Orchestrator].at \in {"loading", "pinging"}
    /\ Becomes(Orchestrator, "down") /\ Exit({Orchestrator})
    /\ hits' = [hits EXCEPT ![Orchestrator] = NoHits] /\ UNCHANGED log

\* server.close has called back.
CloseCleanly(s) ==
    /\ process[s].at = "closing" /\ OpenAt(s) = {}
    /\ Becomes(s, "down") /\ Exit({s})
    /\ hits' = [hits EXCEPT ![s] = NoHits] /\ UNCHANGED log

\* The servers that have been closing for the whole grace at the next tick.
Overdue == {s \in Server : process[s].at = "closing" /\ process[s].waited + 1 = GRACE}

\* Time passes: windows run out, and overdue servers exit with what they have open.
Tick ==
    /\ (\E s \in Server : process[s].at = "closing") \/ DOMAIN log # {}
    /\ \A s \in Server : process[s].waited <= GRACE
    /\ process' = [s \in Server |->
          IF s \in Overdue THEN [at |-> "down", waited |-> 0]
          ELSE IF process[s].at = "closing" THEN [process[s] EXCEPT !.waited = @ + 1]
          ELSE process[s]]
    /\ Exit(Overdue)
    /\ hits' = [s \in Server |-> IF s \in Overdue THEN NoHits ELSE
                   [l \in Limiter |-> [c \in Client |-> Aged(hits[s][l][c])]]]
    /\ log' = [n \in {n \in DOMAIN log : log[n].ago + 1 < WINDOW} |->
                  [log[n] EXCEPT !.ago = @ + 1]]
--------------------------------------------------------------------------------
Next ==
    \/ Start \/ LoadFacilitatorCapabilities \/ PingServices \/ KilledEarly \/ Tick
    \/ \E s \in Server : StartService(s) \/ Shutdown(s) \/ CloseCleanly(s)
    \/ \E q \in Request : Respond(q)
    \/ \E q \in Request, c \in Client, s \in Server : \E route \in Route(s) : Arrive(q, c, s, route)

Spec == Init /\ [][Next]_vars
--------------------------------------------------------------------------------
\* Every variable has its type; a server is done closing within the grace, and the
\* orchestrator handles nothing before it has a fee payer (index.ts: "capabilities
\* must load BEFORE the server accepts requests").
TypeOK ==
    /\ \A s \in Server : /\ process[s].at \in {"down", "loading", "pinging", "listening", "closing"}
                         /\ process[s].waited \in 0 .. GRACE - 1
                         /\ \A l \in Limiter, c \in Client : /\ hits[s][l][c].n \in 0 .. MaxSent
                                                           /\ hits[s][l][c].left \in 0 .. WINDOW
    /\ cached \in BOOLEAN
    /\ \A q \in Request :
        /\ Open(q) => process[request[q].server].at \in {"listening", "closing"}
        /\ Open(q) /\ request[q].server = Orchestrator => cached

\* A request is cut only by a process that gave it the whole grace: a deploy lets
\* every shorter request finish (the fan-out, at 25 s, and settlement, at 20 s, may
\* well be longer).
ResetsOnlyAfterTheGrace ==
    [][\A q \in Request : Open(q) /\ process'[request[q].server].at = "down" =>
        LET p == process[request[q].server] IN p.at = "closing" /\ p.waited + 1 = GRACE]_vars

\* The requests of client c that limiter l of server s saw.
Own(s, c, l) ==
    {n \in DOMAIN log : log[n].server = s /\ log[n].client = c /\ l \in log[n].limiters}

\* Who is refused has made as many requests as the limit himself, within the last
\* window: no caller is limited on account of another one (`trust proxy`: otherwise
\* the limiter "rate-limits all users as one").
OwnLimit ==
    [][LET last == log'[1]
       IN  ~(DOMAIN log' \subseteq DOMAIN log) /\ request' = request =>
               \E l \in last.limiters :
                   Cardinality(Own(last.server, last.client, l)) >= Limit(l)]_vars
================================================================================
