# A verification of AtomicAgent

AtomicAgent lets an agent buy three checks of a purchase order (price,
availability, seller) from three paid services, and pay the checks and the order
in **one atomic Algorand group**: either everything is paid or nothing is.  The
checks are bought at three tiers; an uncertain cheap answer is replaced by a
deeper one as long as a budget allows, and each deeper round needs a new
signature of the buyer.

This directory holds TLA+ modules of that system, the TLC configurations that
check them, and theorems about them proved with TLAPS.  `PROJECT.json` maps every
definition to the lines it models and lists the hazards the properties are for.

## Inventory

| part of the system | state | operations | interacts with |
|---|---|---|---|
| run store (`agent/runStore.ts`) | the `Map` of runs: phase, tiers, verdicts, ledger, groups, lock | `createRun` (evicts first), `getRun`, `transition`, `claimSettleLock`, `abortRun` | called by the routes only |
| run routes (`routes/runs.ts`) | suspended requests, with what they captured before an await | quote, verify, settle, read | everything below |
| spend planner and policy (`agent/spendPlanner.ts`, `shared/types/tiers.ts`) | the ledger of a run | opening plan, escalation, record a round | quote and verify |
| quote collector, fan-out (`agent/quoteCollector.ts`, `agent/verifier.ts`, `clients/serviceClient.ts`) | calls under way | collect three quotes, each tried twice; verify three checks and the external services in parallel | services, over HTTP |
| group builder (`agent/groupBuilder.ts`), Algorand client | none | build a group at the current tiers, check the wallet's holding | node |
| settler (`agent/settler.ts`) | none | submit the group, raced against a timeout | facilitator |
| service registry and discovery (`routes/services.ts`, `agent/serviceDiscovery.ts`) | the registered external services and their slots | discover, delete, reset | snapshotted by quote |
| facilitator capabilities (`config/facilitator.ts`) | one cached address | load at start, read | group builder |
| check services (price, availability, verification, carbon) | none that changes | a payment gate (402, facilitator verify), then a pure domain function | facilitator |
| front end (`hooks/useSourcingRun.ts`, `store/useRunStore.ts`, `App.tsx`, the cards, the ledger panel, the binding, the outcome) | the phase the user sees, the screen that is still fading out | the loop quote, sign, verify, sign again, settle | routes, over HTTP; wallet |
| wallet and opt-in (`hooks/useAssetOptIn.ts`, `components/OptInGate.tsx`) | what the page knows of the connected account | read, opt in | node, wallet |
| servers (`index.ts` of each, `middleware/rateLimit.ts`) | limiter counters, open requests | start, count, shut down | |

Where it is hard:

* The routes are single-threaded JavaScript with awaits.  Two requests on one run,
  or a request and the eviction of its run, interleave at the awaits.
* The verdicts on file are those of the *last finished* round.  While a new round is
  in flight they must not open the gate.
* The facilitator call is raced against a timer and is not cancelled when it loses;
  neither is a call to a service that timed out, nor a loop of the page, nor a read
  of an account.
* Everything is in memory: a restart forgets runs whose groups are on their way.
* The verify route takes any group of the run's size: one of an earlier round, of another
  run, or one the client put together.  Only the payment checks of the services tell it
  from the group that was built, and each of them looks at its own slot.
* An escalation advances tiers and ledger before it builds the new group, which can fail.
* The three checks share one budget and are charged in listing order.
* Slots of external services are computed before an await and used after it.
* What a run pays was quoted at its start; accounts, fees and keys change meanwhile.
* Cheap tiers answer from caches that the live data has left behind.

What makes each part correct: the store never brings a run back; the routes submit
a group only by consent, once, and only one that pays the tiers of the last round; the planner leaves the
reserve and covers the fees; an order gets ready only when a deep look would agree;
the registry's slots stay in order and every service of a run is paid; a gate
answers only what was paid for; a verdict is of the round that asked for it; the
screens say what happened; a deploy and a limiter cut only those they should.

## Modules

| module | models |
|---|---|
| `SpendPolicy` | the tier ladder, `decideEscalation`, `planEscalation`, `recordRound`, and the confirmation test |
| `CheckAnswers` | which verdicts each service can give for each tier, read off the branches of its domain function |
| `RunLifecycle` | the store, the handlers, what they wait for, the registry's membership, the facilitator and the chain |
| `AtomicSettlement` | the abstract promise: a purchase has its parties, they agree to a group, one all agreed to may be submitted, once for the purchase, and a submitted group may be paid as a whole |
| `CheckCalls` | the HTTP calls below `RunLifecycle`'s awaits: quotes and their retry, the fan-out, each service's gate, the facilitator's verify, the fee payer found at start-up |
| `ServiceRegistry` | discovery, slots, deletion, the snapshot of a run, the group's transactions, the external services' gate |
| `Sourcing` | one run seen from its order: real data, real answers, the spend policy, passing days |
| `PriceEngine`, `StockLedger`, `SellerRegistry`, `Gstin` | the domain functions of the three checks, with their data |
| `CarbonEngine` | the carbon service's estimate |
| `WebRun` | the page: the loop, the store, the screens; the orchestrator seen from outside |
| `OptIn` | the two hooks that read the connected account, and the opt-in transaction |
| `Servers` | start, rate limits, shutdown of the orchestrator and the services |
| `MC...` | instances for TLC, and what the repository's texts say and the code does not do |
| `SpendPolicyProofs` | what is true of the planner: its lemmas serve every module that plans |
| `RunLifecycleProofs`, `CheckCallsProofs`, `ServiceRegistryProofs`, `SourcingProofs`, `WebRunProofs`, `OptInProofs`, `ServersProofs` | the theorems about the module of that name; those of `Sourcing` cover the domain functions |

How they fit together.  `RunLifecycle` is the centre and implements
`AtomicSettlement`.  What it takes for granted of its surroundings is the subject of
other modules: that an answer is of the round and the tier it was paid for
(`VerdictsAreOfTheRound` in `CheckCalls`), which answers exist (`AnswersAreCovered` in
`Sourcing`), and what each service's part of a group is (`ServiceRegistry`).
`RunLifecycle`, `CheckCalls` and `Sourcing` share `SpendPolicy`.  `WebRun` has the
orchestrator's promises as its environment: a run is ready, deeper or aborted.
These last are stated again in the other module rather than refined by TLC: the
product of any two of them is beyond it.

### `RunLifecycle`

An action is what one handler does from one await to the next.  `calls[h]` is the
await at which request `h` is suspended: `quoting` (the three quotes), `building`
and `escalating` (`rebuildGroup`, for quote and for verify), `verifying` (the
fan-out), `settling` (the facilitator).  It keeps what the code captured before the
await: the tiers passed to the fan-out and the signed group.  `runs[r]` is the run
object, `store` the ids in the `Map`, `newer` the order of `updatedAt`, in which
capacity eviction removes runs.  An evicted object still exists for the request that
holds it, and so does its entry in `runs`.

`agreed`, `sent` and `paid` are history: who accepted its payment in which group,
what was handed to the facilitator and what the chain committed.  They are what the
safety properties speak of.

* Of a group it matters who built it, what it pays each check, and which external
  services it pays.  A verify request carries any group that was ever offered to a buyer,
  for whatever run, or one of `ClientGroups`, and passes `ValidateSignedGroup` by its
  size, as in the code: nothing compares it with the group of the run.
* The facilitator, which is not in this repository, accepts a check's slot only if it
  pays the required tier's fee (`Reply`).  The services ask it on every request.
* A request is over long before the 30 minutes of the TTL, so time-based eviction
  never meets a run a request is working on (`Expirable`).  Eviction by capacity does.
* `updatedAt` is taken to be distinct for distinct updates.
* A restart loses everything in memory.  The id of a forgotten run is unknown, but the
  signed group a client still has can be brought to another run of its size.
* `agreed` and `sent` tell the run that asked, or submitted, from the run its group was
  built for.  The chain takes a built group once (`FacilitatorSettles`); the groups of a
  client stand for as many as it cares to sign.

### `CheckCalls`

`calls[c]` is the orchestrator's present call to check `c`; a request it sent stays on
`wire`, numbered, until the service answers it, whether anyone waits or not.  `Challenge`,
`Refuse`, `Admit` and `Conclude` are what a service does with one: 402 with its offer,
any other status, gate passed and payment verified, verdict.  `Reconfigure` brings a
service back with another account, asset or slot, `ChangeKey` gives the facilitator
another address.  `run.groups` are the groups built so far; a signature names one by
number.  One run only: the calls of two runs share nothing but the service.

### `ServiceRegistry`

`registry` is the `Map` in insertion order; `probes[h]` a discovery that waits, with the
slot it computed before.  `snapshot`, `group` and `accepted` belong to a run: the services
it took on, the transactions built for them, and who accepted which terms.
`Transactions` places services by their position, `VerifyExternal` shows each one the slot
it was told.  `Reprice` changes what a service asks for after discovery.

### `Sourcing` and the domain functions

Data tables are the code's, in full.  A day is a number (0 is 1 January 1970, so that
weekdays come out right); the time of day is left out.  A round asks the three checks at
once at the current tiers; `unreached` ones give no answer, the government registry replies
or does not, and a night can pass between rounds.  The request bodies and the limits of
both sides are modelled, wording and identifiers of answers are not.

### `WebRun`

`ui` is the store, `screen` what is still shown while it fades out, `loop[l]` one call of
`start()`, `request[l]` its last request and the answer, `run[l]` the orchestrator's run.
Verdicts, tiers and ledgers stand for the run and round they are of, so that a property can
say that a card or a panel mixes two rounds.  Of a ledger the model also has how many
decisions it holds, since the panel tells the round of one by its index (`RoundOf`): a round
adds as many as there were verdicts, and `VerdictCounts` are the numbers that can come back.
`Reset` and `Start` act on the screen that is
still shown.  The answer to any request can come late, or never; `CallFails` is the
page's own ceiling and can strike before or after the orchestrator acted.

### `OptIn`

`hook[h]` is one `useAssetOptIn`; `reads` are the account reads under way, each with the
account it is of and what stood in that account's way when it began: the node may have
looked at any moment since.  Accounts never opt out and opt in only on this page.

### `Servers`

`hits` are the counters of the limiter library (fixed windows, external).  `log` is history:
the requests of the last window, the newest under 1, each with the limiters of its route.  The orchestrator listens only after it has a fee payer.  A `Tick` is a
unit of time for windows and the shutdown grace.  Malformed JSON is answered before the
limiters and left out.

## Runs

| run | instance | shows |
|---|---|---|
| `lifecycle` | 1 run, 2 requests, 1 external service, the code's policy (budget 500000, threshold 85%, reserve 20%, 3 rounds) and the services' real answers | consent before submission, one submission, of a group that pays the round it ended on, whichever group the client presents; requests own their runs; the ledger; which tiers a settled run ends on; the lifecycle implements `AtomicSettlement` |
| `store` | 3 runs, 2 requests, a store made for one, any run's group presented to any other | forgotten runs stay forgotten, finished runs stay as they are, also those only a request still holds |
| `progress` | 1 run, 2 requests, slow services, a client that plays along | every run ends |
| `nothing_settled` | 1 run, 1 request | divergence below |
| `registry` | 4 endpoints, two with one id, 2 discoveries, 1 run, room for 2 services | the limit is exceeded by at most one; slots go wrong by a stale discovery only; every service of a run has its transfer, accepts only what covers its fee, and the wallet covers the group |
| `orders` | orders at every boundary of the data, and the form's presets | which orders get ready, and that they are good ones; a refusal is final; mistyped tax numbers are ruled out |
| `uncertain` | as `orders` | divergence below |
| `distances` | all city pairs | divergence below |
| `calls` | 1 run of 2 rounds, 2 quote attempts, one change of the world | verdicts are of their round; services work only for a group that pays them; no payment is presented twice; every collection and fan-out ends |
| `web` | 2 calls of `start()`, 3 rounds with or without silent checks | screens tell the truth; what is shown is what is signed; requests follow the run; every loop ends |
| `servers` | 2 buyers, the orchestrator, 1 service, 2 requests | requests are cut only after the grace; callers are limited on their own account |
| `optin` | 2 accounts, 3 reads of each hook | a page is wrong about an account only by an answer that was overtaken |

Why the bounds are enough.

* `lifecycle`, `store`, `progress`.  A property of one run needs two requests to be raced:
  the code has no step that involves three.  Three rounds are the code's limit and the real
  budget makes every branch of the planner reachable.  Two runs are what it takes for one
  to evict the other, three for the evicted one to be distinct from the newest and the one
  left.  One external service suffices for consent, membership and refusal.  `store` has
  services that are sure of their answer and one round: rounds are `lifecycle`'s question.
  `MaxRuns` is 1 instead of 500, the smallest store in which eviction, and the overshoot by
  one, happen.  In `lifecycle` and `progress` a client can put together groups with any set of
  services, for the opening tiers or for those a run settles at: one that fits the round and
  one that does not, at either end (`ComposedGroups`).  In `store`, where all groups pay the
  same, those of the other runs are enough.  `Run` also bounds the number of runs ever created: when all ids are used up
  no more runs are quoted.
* `registry`.  Two discoveries are a race; the overshoot for more of them is a theorem.
  `MAX_GROUP_SIZE` is 7 instead of 16, which leaves room for two services: a gap, a
  collision and a full group need no more.  The wallet holds 16: that pays some groups of
  some snapshots and not others.
* `orders`.  For goods on file the orders are on both sides of each figure the domain
  functions compare, one figure at a time.  A run starts on Tuesday 30 March 2027, the day
  before a licence ends, and can last two nights; the presets also start on 9 September
  2026, in time for their fixed deadline.
* `calls`.  With two rounds, an answer of the first can arrive in the second; a third adds
  nothing a request's number does not tell apart.  One change, of any service or of the key,
  at any point of the run.
* `web`.  Two loops are a double start.  Three rounds are the orchestrator's limit; the
  hook's own is four, so that its error for an endless escalation is out of reach, which is
  part of `ScreensTellTheTruth`.  `VerdictCounts` is `{1, 3}`: two verdicts have the effect of
  one, decisions that fall short of three (the theorem is for any numbers up to three).
* `servers`.  The limit is 2 for the global limiter and 1 for the others, the window and the
  grace are 2 ticks, and 3 requests per window reach every limit.
* `optin`.  Three reads: the first, one for a switch or an opt-in, and one that overtakes it.

Symmetry: requests in `lifecycle` and `registry`, runs and requests in `store`, accounts in `optin`, buyers and requests
in `servers`; never in a run with a liveness property.  `orders`, `calls`, `web` and the runs
`uncertain` and `distances` turn the deadlock check off, because a run, a loop or an
estimate really is over; in the others something can always happen.

### Fairness

* `progress`: `FairSpec` makes a suspended request continue.  Every await of a handler ends:
  quotes after 6 s (twice), a check after 25 s, settlement after 20 s, external services
  after their own abort timer.  Node queries end when the transport gives up, although they
  have no timeout of their own; each then counts as a failure, for which the model has a
  step.  There is no fairness for the facilitator, the chain, the registry or restarts.
  `CooperativeSpec` adds a client that signs what is offered and settles when told it may, as
  the loop of `useSourcingRun` does; nothing in the orchestrator moves a run by itself.
* `calls`: the orchestrator's timers, and nothing of the services: `NothingHangs` holds
  however silent they are.
* `web`: timers, and a buyer who answers every prompt of the wallet; nothing of the
  orchestrator.

### Divergences found

* `nothing_settled`.  `GET /runs/:id` reports `nothingSettled: true` for every aborted
  run and `abortRun` says its signatures "were never broadcast and never will be".  A
  settlement that times out aborts its run while the call is still under way, and the
  chain may commit the group later.  The route's own comment says so.
* `uncertain`.  "Spending real money on an uncertain verification is precisely the failure
  mode this project exists to prevent."  A check that gives no answer in one round is not
  escalated with the others; when it then confirms from its cache at 68% and the others
  confirm too, the run is ready to settle, although the threshold is 85%.
* `distances`.  Three keys of the carbon table (`pune-hyderabad`, `pune-delhi`,
  `hyderabad-delhi`) are not in the alphabetical order in which `routeKey` builds them, so
  shipments between these cities are estimated at the fallback distance of 500 km.

* `web`, which passes.  Of the ledger panel `SpendLedger.tsx:92` says: "Decisions arrive in
  rounds of three, so integer division recovers which round each belongs to."  There is one decision for each check that answered.  After a round with a silent
  check the panel labels, and highlights, later decisions as of a round before theirs.  What
  `ScreensTellTheTruth` can say of the panel is that no older decision is highlighted, and that
  all of the round are if every check has always answered.
* `lifecycle`, which passes.  Of the opening at the shallow tier `spendPlanner.ts:84` says that
  "for most runs the shallow answers are sufficient".  With the default policy and the services
  of the repository they are for none: a seller is confirmed at the deep tier only, so every
  run that settles has bought three rounds (`OnlyVerificationGoesDeep`).

Seen while modelling, and not checked by a run of their own.  In the orchestrator:

* `validateSignedGroup` compares the number of transactions, though its comment names "a
  different group" and a swapped slot as what it is for, and nothing compares a presented
  group with the one the run built; `settler.ts` only logs `groupId`.  So a run can settle on
  a group built for another run, or on one whose order slot pays somebody else: what is
  asked of the facilitator names check slots alone.  What does hold is
  `SubmittedPaysTheRound`.

* A run whose quotes or first build fail stays in `quoting`, one whose rebuild fails in
  `verifying` with no way on.  GET does not return the unsigned group, so a lost response
  strands a run.
* A refuted check does not stop another one from being escalated, so a round is bought that
  cannot settle; a check confirmed at 68% is bought again, though "never revisited".
* An external service is told the slot it has in the registry and paid at its position in
  the group.  After a stale discovery these differ; the service then refuses and the run
  cannot settle, since no service accepts what does not pay it (`AcceptedArePaidInFull`).
  When the registry has overshot its limit every later build throws.
* The ledger counts every round while the group pays the current tiers only;
  `totalPaidAtomic` leaves out the external services' fees; `maxPerCheckFraction` and
  `FEE_PRICE` are read and used by nothing.
* A fee payer that is out of date fails at verification, not at settlement as
  `facilitator.ts` has it, and the fallback is never refreshed.
* `DELETE` of a service sends no response, and CORS allows GET and POST only.  Comments give
  the external slots as beginning at 5, the code at 4.
* `/discover` shares the limiter of `/quote`; `/verify` has only the global one.  A service's
  limiter sees the orchestrator as one client, so all buyers share its checks.  Shutdown cuts
  requests after 10 s, a fan-out may take 25 s.  The carbon service's `/health` is called
  unguarded and stands behind the global limiter.

In the page:

* Nothing refuses a second `start()` while the form fades out; the store then mixes two
  runs.  `ShownIsSigned` and most of `ScreensTellTheTruth` hold without one.
* When the answer to settle is lost the page shows an error although the order may be paid.
* While an escalation is held for the reader, the store still has the round before; the phase
  stays `verifying` during the hold before an abort.  A card shows the tier of the new round
  with the verdict of the old one, and keeps its old answer while it is verified again.
* After the gate's opt-in the form's own hook is not read again, so its button stays disabled
  until it is mounted anew; after a switch of accounts `ready` can be the old account's for
  as long as its read takes, or for good when that read is overtaken.
* The presets have the fixed deadline of 15 September 2026; from then on the one that "settles"
  aborts.

## Proofs

TLC shows the properties on the instances above; these theorems hold for every value of
the constants that satisfies the assumptions of the modules, which TLC evaluates in every
run:

* `PolicyAssumption`: budget and reserve are numbers, and the opening round leaves the reserve.
* `LifecycleAssumption`: services answer at the tier they were asked for, an external
  service is not named like a check, and what a client puts together is a group.
* `CallsAssumption`: configurations are of the type the services' start-up check demands,
  answers are of the tier asked for, a collection and a run are tried at least once.
* `RegistryAssumption`: endpoints have ids, requests are finitely many, offers are lists of
  options, fees, the order and the balance are numbers, and the buyer does not pay the fees.
* `SourcingAssumption`: orders are of the schema's type and start on days; a run has a round.
* `WebAssumption`: the orchestrator's limit of rounds is not above the page's, and a round that
  goes on brought back one to three verdicts.
* `OptInAssumption` and `ServersAssumption`: positive numbers, and sentinels that are not data.

Every safety invariant and every action property a run checks, and the refinement, is a
theorem.

| theorem | says |
|---|---|
| `TypeCorrect`, `CallTypes`, `RegistryTypes`, `SourcingTypes`, `PageTypes`, `OptInTypes`, `ServersTypes` | the `TypeOK` of each module; in the registry, that a registered service has terms our groups can meet, in `Servers`, that nothing is handled without a fee payer |
| `Invariance` | `IInv` of `RunLifecycle` is invariant |
| `Consent`, `Once`, `PaysTheRound`, `Ownership` | the four safety invariants of settlement |
| `Final`, `ForgottenTheorem` | `FinishedRunsAreFinal`, `ForgottenStaysForgotten` |
| `Refinement` | `Spec => SettlementSpec` |
| `LedgerSound` | `LedgerWithinBudget` |
| `OneWayTheorem` | `OnlyVerificationGoesDeep`, if `OneDeepAnswer` |
| `RoundTheorem`, `PaidTheorem`, `OnceTheorem` | `VerdictsAreOfTheRound`, `WorkIsPaidFor`, `OnePaymentPerRound` |
| `OvershootTheorem`, `SlotsTheorem` | `OvershootBounded`, for any number of overlapping discoveries, and `OnlyStaleDiscoveryBreaksSlots` |
| `TransferTheorem`, `FundedTheorem`, `AcceptedTheorem` | `EachServiceHasItsTransfer`, `GroupIsFunded`, `AcceptedArePaidInFull`, for any number of services |
| `CoveredTheorem` | `AnswersAreCovered` |
| `RefusedTheorem`, `GoodTheorem` | `RefusedNeverReady`, if there are at most three rounds, and `ReadyOrdersAreGood`, if moreover `Discerning` |
| `WorkingDaysTheorem` | `addWorkingDays` ends that many weekdays later, and not earlier for a later start |
| `SubstitutionIsCaught`, `TranspositionIsCaught`, `MistypedTheorem` | the check digit of any GSTIN changes with any of its first fourteen characters, and when two neighbours other than 0 and Z are exchanged; `MistypedNumbersAreRejected` |
| `InStepTheorem`, `ShownTheorem`, `TruthTheorem` | `RequestsFollowTheRun`, `ShownIsSigned`, `ScreensTellTheTruth`, for any number of loops |
| `ToldTheorem`, `MisleadTheorem` | `Truthful`: who was told of an opt-in holds the asset; and `OnlyOvertakenReadsMislead`, for any accounts and reads |
| `ResetsTheorem`, `OwnLimitTheorem` | `ResetsOnlyAfterTheGrace`, `OwnLimit`, for any number of servers, callers and requests |

Three theorems have a hypothesis about the policy, because what they say is not true of
every one.  For the figures of the two named ones a lemma shows that the code's defaults are
of that kind.

* `OneDeepAnswer`: only a deep verification confirms a seller, the reserve leaves less than
  two deep answers and a shallow one cost, and there are at most three rounds.
  `CodeBuysOneDeepAnswer` derives it from the services' answers (`CheckAnswers`), a budget of
  500000, a reserve of 20% and `MAX_ROUNDS` of 3.
* `Discerning`: the threshold is between 69% and 90% and the budget has room for both cheap
  checks to go one tier down.  Below 69% an answer from the cache, at 68%, is good enough;
  above 90% the price check goes on to the deep tier, where a rebate counts and the price that
  is then paid is not the one that was compared.  `CodeIsDiscerning` has the code's figures.
* At most three rounds (`MAX_ROUNDS`, `runs.ts:72`), for both properties of orders: with a fourth
  one a seller that was refused could be looked up again at the deep tier and confirmed.

The settlement gate.  None of the safety invariants is inductive.  That a submitted
group had everyone's consent depends on what the gate reads, and that on who may still
write it.  `IInv` has a part for each run and one for each request.  `Alone`: a suspended
request has its run to itself, in the phase it left it in.  `Asking` and `Shut`: until a
round has confirmed everything the verdicts on file do not open the gate; so an open gate
means that nobody works on the run.  `Presenting`: what the fan-out presents is
the signature on file, as large as the group built last, which `Built` says is of the run's
tiers.  Whoever built the signed group, if all three services answer, each was paid its tier,
so that it pays what the group built last pays: `Settleable`, which `Open` has of the group
behind an open gate.  `Submitted`: a submission carries that over and its run never comes
back to the gate.

A step of request `h` on run `r` leaves every other run and request alone; `OnlyKeeps`
settles these once, and each action's lemma only argues about its own run and request.
The refinement maps the start of a quote to `Begin`, the return of a fan-out to `Agree`, `SettleStart` to `Submit` and
the chain's commit to `Pay`; everything else is a stutter.  `LedgerInv` adds to `IInv`
that a ledger is opened once, and `PlanPaid` that what a plan charges covers what
it adds to the group's fees.  `DepthInv` adds that a check at the standard tier took two
rounds and one at the deep tier three, so a settled run, which needs the deep verification,
has used all of them; a second deep answer would be more than the ledger may hold.

The store.  Eviction keeps the runs with fewer than `MaxRuns` newer ones.  That at most
`MaxRuns` of them are kept is not evident, since `newer` is any relation: `StoreInv` says
that the store is finite and that among any of its runs there is an oldest one
(`OldestFirst`), so the oldest run kept has all the others above it.  A run that is written
becomes the newest, if it is stored; `OnlyStoredRuns` shows that a request which holds
a forgotten run writes to it without putting it back.

The check calls.  `CallsInv` follows a request from its call to its answer.  `Open`: a call is
open only while a collection or a fan-out goes on, or after a collection that failed.
`Presented`: in a fan-out each call presents its check's payment in the signed group.
`Counted`: the calls of a collection are numbered by its attempts, and after that there is one
per round.  `CarriesPayment`: a request with the latest number shows the present payment, and
one that is worked on is paid by the transaction it points at.  Hence an answer that is awaited
is of this round; what an earlier round left on the wire answers nobody.

The registry.  `OvershootBounded` is inductive as it stands, since every discovery counts as
a service from the moment it is let in; what needs work is that removing a service shortens
the list and that a stable sort loses none.  `SlotsStep` goes through the actions: deletion
renumbers, reset empties, and a discovery that is not stale appends at the next slot.
`GroupInv` says that a group is that of its run's snapshot at fees the wallet could meet
(`OfItsServices`), and that what was accepted was asked by a service of the run, once, and for
no more than the run had declared (`WithinTheTerms`).  The rest is about sums over sets of
slots.  A fold takes its elements in an order nobody knows and induction is out of reach, so
the lemmas on sums (an element more, a set that covers another) are proved by the smallest
counterexample: a smallest set for which the lemma fails would be left by one element, and the
lemma holds there.

The order.  `Sound` is `TypeOK` with `AnswersAreCovered`; `RoundIs` says once what a round asks
and gets.  `Refusals` is why a refusal is final although a refused check does not end a run
that has something else to escalate: price and availability go on refusing what they refused
at that tier, and a seller check, which may change its mind with the registry, stays a tier
behind the rounds, so that none is left when the deep tier could answer.  `Bought` says that
after the opening round price and availability have left the cache behind, if they answered
without refusing, and that price never goes deep.  What they then confirm is what `Affordable`,
`Suppliable` and `Reliable` say of the data (`LivePrice`, `FreeStock`, `SellerOutcome`).
Dispatch is the part with arithmetic: `addWorkingDays` loops over days, and the model has a
recursive function.  `AddWorkingDaysIs` gives its closed form by weeks: a first case in which
the two differ would have a nearer one.

The check digit.  `Contribution` is one-to-one on the 36 characters for either weight, and
two contributions differ by less than 36, so that a change of one of them cannot vanish
modulo 36.  For a transposition what matters is `a - b` against the difference of their doubled
contributions, where the double of `c` counts as `2c`, or `2c - 35` with its carry
(`ExchangeIsSeen`).

The page.  `InStep` says for each place a loop can be at what its run is waiting for and what
answer is on the way; no other loop's step touches it (`OthersKeepInStep`), so the number of
loops does not matter.  `Single` adds the store: as long as no loop was started beside
another one at most one runs, and store and screen show where it is.  `Reset` is why the
screen is part of it: it needs a terminal screen, which a loop that runs alone never shows.
`TruthInv` adds what an answer says of payment (`Honest`), what a loop has taken from it (`Holds`,
`Told`), that a round adds at most three decisions to a ledger (`PanelOfTheRound`),
that the store is of one run and one round as long as `Single` holds (`OneStory`), and
that a settled run is paid for good (`SettledIsSettled`).

The wallet.  `Truthful`, itself a theorem: nobody is told of an opt-in that is not on chain.  `Follows`: a hook with
nothing under way knows the active account or nothing, unless it was misled.  `Overtaken` and
`Known`: the gate's reads that began before an opt-in are behind the one that followed it.

The servers.  `ResetsOnlyAfterTheGrace` follows from `Serving`: requests are open only where a
process serves or closes.  `OwnLimit` needs `Witnessed`: what a limiter has counted of a client is
at most the number of that client's requests in the log that are no older than the window
that is counted.  A tick ages both sides by one, a request adds one to both, and a window that
ends counts from zero while the log may still hold more.

Only model-checked are the three liveness properties, `RunEnds`, `NothingHangs` and `LoopEnds`:
fairness and `ENABLED` are outside the prover's reach.  So is induction over data by the library's
theorems, which take an operator; the sums and `addWorkingDays` are reached by a smallest
counterexample instead, since that there is one is first-order.  What the three runs that
expect a violation find are counterexamples to a text; there is nothing to prove of them.

## Plan

Everything planned at first is modelled, and the properties planned for a proof have one.
What is left is what holds the modules together, which is stated in each of them and not yet
between them:

1. `RunLifecycle` and `CheckCalls`: that `VerdictsAreOfTheRound` is what `Reply` takes for granted
   of a fan-out, as a lemma from an answer of the one to an answer of the other.
2. `RunLifecycle` and `Sourcing`: that a run of `Sourcing` takes the branches of
   `VerifyStep`, with `AnswersAreCovered` for its answers.

## Not modelled

* Encodings, group ids, signatures as bytes and the validity window of a transaction: a
  group is compared as a whole, and a late group is one the facilitator refuses.
* The wallet library, and the signer from a mnemonic, which no page uses: a wallet signs
  what it is shown or declines.
* The landing page, motion, layout and wording, other than what a card, a heading, a
  caption or a screen says of a run and of money.
* Parsing of the environment, string formats of the schemas, logging.
* The operator's scripts and probes, which are run by hand.

`PROJECT.json` says for each component what is left out.
