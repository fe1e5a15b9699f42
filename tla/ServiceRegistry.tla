----------------------------- MODULE ServiceRegistry -----------------------------
(***************************************************************************)
(* Services that join at run time: discovery from a 402 challenge, the     *)
(* registry and its slots, the snapshot a run takes, the atomic group      *)
(* built from it, and the external services' check of their own slot.      *)
(*                                                                         *)
(* A discovery computes its slot, waits for the probe, and writes the      *)
(* registry when the answer is there; deletions, resets and other          *)
(* discoveries run in between.                                             *)
(***************************************************************************)
EXTENDS Integers, Sequences, FiniteSetsExt, Functions

CONSTANTS
    Url, Id,           \* endpoints, and the ids they are keyed by
    IdOf,              \* serviceIdFromUrl: protocol, port and query are dropped
    Handler,           \* discoveries that can be open at the same time
    Run,
    Offers,            \* Offers[u]: the `accepts` arrays the service at u can present
    Account,           \* who can be paid
    Fees,              \* what a group can owe the three checks: <<f1, f2, f3>>
    Checks,            \* the accounts of the three checks
    Buyer, Supplier,
    FeePayer,          \* the facilitator's account, never the buyer's
    OrderTotal,
    Balance,           \* what the buyer's wallet holds
    MAX_GROUP_SIZE,
    Network, Asset,    \* what our groups are on and pay in
    NotAtomic,         \* in place of an amount that is not a whole number
    None

FIRST_EXTERNAL_SLOT == 4
MAX_EXTERNAL_SERVICES == MAX_GROUP_SIZE - FIRST_EXTERNAL_SLOT - 1

\* DiscoveredOption, as it stands in a challenge.
Option == [scheme : STRING, network : STRING, asset : STRING,
           amount : Nat \union {NotAtomic}, payTo : Account]

ASSUME RegistryAssumption ==
    /\ IdOf \in [Url -> Id]
    /\ IsFiniteSet(Handler) /\ Handler # {}
    /\ MAX_GROUP_SIZE \in Nat /\ MAX_EXTERNAL_SERVICES >= 0
    /\ None \notin Url
    /\ Offers \in [Url -> SUBSET Seq(Option)]
    /\ Fees \subseteq [1 .. 3 -> Nat] /\ OrderTotal \in Nat /\ Balance \in Nat
    /\ Buyer # FeePayer

VARIABLES
    registry,    \* the registered services, in the Map's insertion order
    probes,      \* probes[h]: the URL request h is probing and the slot it computed
    offers,      \* offers[u]: what the service at u asks for now
    snapshot,    \* the services a run took on, in slot order
    group,       \* the transactions of its current group, by slot
    accepted     \* <<i, option>>: the i-th service accepted, asking for that option

vars == <<registry, probes, offers, snapshot, group, accepted>>
runVars == <<snapshot, group, accepted>>
--------------------------------------------------------------------------------
(* Reading a challenge. *)

\* parseOption drops an entry without a whole amount in atomic units.
ParsedOptions(offer) == {i \in DOMAIN offer : offer[i].amount # NotAtomic}

\* Slip: an option on another network will do.
CompatibleAnywhere(offer) ==
    {i \in ParsedOptions(offer) : offer[i].scheme = "exact" /\ offer[i].asset = Asset}

Compatible(offer) ==
    {i \in ParsedOptions(offer) : /\ offer[i].scheme = "exact"
                                  /\ offer[i].network = Network
                                  /\ offer[i].asset = Asset}

\* chooseOption: the cheapest compatible option, the first of equals.
ChooseOption(offer) ==
    offer[CHOOSE i \in Compatible(offer) : \A j \in Compatible(offer) :
              \/ offer[i].amount < offer[j].amount
              \/ offer[i].amount = offer[j].amount /\ i <= j]

CanJoin(offer) == Compatible(offer) # {}
--------------------------------------------------------------------------------
(* The registry. *)

nextSlot == FIRST_EXTERNAL_SLOT + Len(registry)

Registered(id) == {i \in DOMAIN registry : registry[i].id = id}

\* Map.set: an id that is there keeps its place.
Put(service) ==
    IF Registered(service.id) = {} THEN Append(registry, service)
    ELSE [i \in DOMAIN registry |-> IF registry[i].id = service.id THEN service ELSE registry[i]]

\* The order by slot; the sort is stable.
Precedes(services, j, i) ==
    \/ services[j].paymentIndex < services[i].paymentIndex
    \/ services[j].paymentIndex = services[i].paymentIndex /\ j < i

Before(services, S, i) == {j \in S : Precedes(services, j, i)}

\* registeredServices, of those at the places in S.
InSlotOrder(services, S) ==
    [k \in 1 .. Cardinality(S) |->
        services[CHOOSE i \in S : Cardinality(Before(services, S, i)) = k - 1]]

\* Slip: the others keep their slots.
ReslotNothing(services) == services

Reslot(services) ==
    [k \in 1 .. Len(services) |->
        [services[k] EXCEPT !.paymentIndex = FIRST_EXTERNAL_SLOT + k - 1]]

IdleProbe == [url |-> None, slot |-> 0]

Probing == {h \in Handler : probes[h] # IdleProbe}

\* group_full: the service at this slot is one the group still has room for.
RoomFor(slot) == slot - FIRST_EXTERNAL_SLOT + 1 <= MAX_EXTERNAL_SERVICES

\* The service a good answer of the endpoint describes.
Discovered(u, slot) ==
    [id |-> IdOf[u], url |-> u, chosen |-> ChooseOption(offers[u]),
     paymentIndex |-> slot]

\* Slip: group_full is not checked.
DiscoverStartUnbounded(h, u) ==
    /\ probes[h] = IdleProbe
    /\ \A i \in DOMAIN registry : registry[i].url # u
    /\ probes' = [probes EXCEPT ![h] = [url |-> u, slot |-> nextSlot]]
    /\ UNCHANGED <<registry, offers, runVars>>

\* POST /discover up to the probe.  A URL that is registered is answered from the
\* registry, a malformed one and a full group are refused: nothing changes.
DiscoverStart(h, u) ==
    /\ probes[h] = IdleProbe
    /\ \A i \in DOMAIN registry : registry[i].url # u
    /\ RoomFor(nextSlot)
    /\ probes' = [probes EXCEPT ![h] = [url |-> u, slot |-> nextSlot]]
    /\ UNCHANGED <<registry, offers, runVars>>

\* The probe brought a 402 with an option that can join: the service is
\* registered at the slot computed before the probe.
DiscoverAnswered(h) ==
    /\ probes[h] # IdleProbe /\ CanJoin(offers[probes[h].url])
    /\ registry' = Put(Discovered(probes[h].url, probes[h].slot))
    /\ probes' = [probes EXCEPT ![h] = IdleProbe]
    /\ UNCHANGED <<offers, runVars>>

\* Unreachable, timed out, not a 402, nothing usable, another network or asset.
DiscoverFails(h) ==
    /\ probes[h] # IdleProbe
    /\ probes' = [probes EXCEPT ![h] = IdleProbe]
    /\ UNCHANGED <<registry, offers, runVars>>

\* DELETE /:id removes one service and gives the others new, contiguous slots.
Deregister(id) ==
    /\ Registered(id) # {}
    /\ registry' = Reslot(InSlotOrder(registry, (DOMAIN registry) \ Registered(id)))
    /\ UNCHANGED <<probes, offers, runVars>>

\* POST /reset
Reset ==
    /\ registry # <<>>
    /\ registry' = <<>>
    /\ UNCHANGED <<probes, offers, runVars>>

\* A service changes its terms; what was read at discovery is not read again.
Reprice(u, offer) ==
    /\ offers' = [offers EXCEPT ![u] = offer]
    /\ UNCHANGED <<registry, probes, runVars>>
--------------------------------------------------------------------------------
(* Runs and their groups. *)

\* POST /quote: the run takes on the services registered now.
QuoteRun(r) ==
    /\ snapshot[r] = None
    /\ snapshot' = [snapshot EXCEPT ![r] = InSlotOrder(registry, DOMAIN registry)]
    /\ UNCHANGED <<registry, probes, offers, group, accepted>>

MIN_TXN_FEE == 1000

\* buildPayment, as slot 0 is: nothing to itself, and the network fee of everybody.
FeePayment(size) ==
    [from |-> FeePayer, to |-> FeePayer, amount |-> 0, fee |-> MIN_TXN_FEE * size]

\* buildAssetTransfer: from the buyer, who pays no network fee.
Transfer(to, amount) == [from |-> Buyer, to |-> to, amount |-> amount, fee |-> 0]

GroupSize(services) == 4 + Len(services) + 1

\* Slip: a service is placed at the slot it was told.
TransactionsBySlot(services, fees) ==
    LET at(slot) == {i \in DOMAIN services : services[i].paymentIndex = slot} IN
    [slot \in 0 .. GroupSize(services) - 1 |->
        CASE slot = 0 -> FeePayment(GroupSize(services))
          [] slot \in 1 .. 3 -> Transfer(Checks[slot], fees[slot])
          [] slot >= 4 /\ at(slot) # {} ->
                LET i == CHOOSE x \in at(slot) : \A y \in at(slot) : y <= x
                IN  Transfer(services[i].chosen.payTo, services[i].chosen.amount)
          [] OTHER -> Transfer(Supplier, OrderTotal)]

\* The fee payer, the three checks, the services in the order of the snapshot,
\* the order payment.
Transactions(services, fees) ==
    [slot \in 0 .. GroupSize(services) - 1 |->
        CASE slot = 0 -> FeePayment(GroupSize(services))
          [] slot \in 1 .. 3 -> Transfer(Checks[slot], fees[slot])
          [] slot \in 4 .. GroupSize(services) - 2 ->
                Transfer(services[slot - 3].chosen.payTo, services[slot - 3].chosen.amount)
          [] slot = GroupSize(services) - 1 -> Transfer(Supplier, OrderTotal)]

ExternalFees(services) == SumFunction([i \in DOMAIN services |-> services[i].chosen.amount])

\* Slip: the services' fees are left out of the total the wallet is asked for.
GrandTotalOfChecks(services, fees) == fees[1] + fees[2] + fees[3] + OrderTotal

\* grandTotalAtomic
GrandTotal(services, fees) == fees[1] + fees[2] + fees[3] + ExternalFees(services) + OrderTotal

\* checkAssetHolding, for a wallet that has opted in.
HoldingSuffices(required) == Balance >= required

\* buildAtomicGroup, at the quote or again for a deeper round.  It throws when
\* the group is too large or the wallet holds too little.
BuildGroup(r, fees) ==
    /\ snapshot[r] # None
    /\ GroupSize(snapshot[r]) <= MAX_GROUP_SIZE
    /\ HoldingSuffices(GrandTotal(snapshot[r], fees))
    /\ group' = [group EXCEPT ![r] = Transactions(snapshot[r], fees)]
    /\ accepted' = [accepted EXCEPT ![r] = {}]
    /\ UNCHANGED <<registry, probes, offers, snapshot>>

\* Slip: the declared amount is not compared with the fee.
CoversAnyAmount(declared, asked) ==
    /\ asked.network = declared.network /\ asked.asset = declared.asset
    /\ asked.payTo = declared.payTo
    /\ asked.amount # NotAtomic

\* The terms a service holds a declared payment to: the payee is the same and
\* the declared amount covers the fee.
Covers(declared, asked) ==
    /\ asked.network = declared.network /\ asked.asset = declared.asset
    /\ asked.payTo = declared.payTo
    /\ asked.amount # NotAtomic /\ declared.amount >= asked.amount

\* The gate of a service that takes any slot: it must exist, and the facilitator
\* finds the payment there.
GateAccepts(txns, slot, declared, asked) ==
    /\ slot \in DOMAIN txns
    /\ Covers(declared, asked)
    /\ txns[slot].to = asked.payTo /\ txns[slot].amount >= asked.amount

\* verifyExternal: the i-th service is shown the group and told its slot, and
\* answers 200.  A refusal and a timeout change nothing here.
VerifyExternal(r, i) ==
    LET service == snapshot[r][i] IN
    /\ group[r] # None /\ i \in DOMAIN snapshot[r]
    /\ \E n \in DOMAIN offers[service.url] :
        LET asked == offers[service.url][n] IN
        /\ GateAccepts(group[r], service.paymentIndex, service.chosen, asked)
        /\ \A a \in accepted[r] : a[1] # i
        /\ accepted' = [accepted EXCEPT ![r] = @ \union {<<i, asked>>}]
    /\ UNCHANGED <<registry, probes, offers, snapshot, group>>
--------------------------------------------------------------------------------
Init ==
    /\ registry = <<>> /\ probes = [h \in Handler |-> IdleProbe]
    /\ offers \in {f \in [Url -> UNION {Offers[u] : u \in Url}] : \A u \in Url : f[u] \in Offers[u]}
    /\ snapshot = [r \in Run |-> None] /\ group = [r \in Run |-> None]
    /\ accepted = [r \in Run |-> {}]

Next ==
    \/ \E h \in Handler :
        \/ \E u \in Url : DiscoverStart(h, u)
        \/ DiscoverAnswered(h) \/ DiscoverFails(h)
    \/ \E id \in Id : Deregister(id)
    \/ Reset
    \/ \E u \in Url : \E offer \in Offers[u] : Reprice(u, offer)
    \/ \E r \in Run :
        \/ QuoteRun(r)
        \/ \E fees \in Fees : BuildGroup(r, fees)
        \/ \E i \in 1 .. MAX_EXTERNAL_SERVICES : VerifyExternal(r, i)

Spec == Init /\ [][Next]_vars
--------------------------------------------------------------------------------
(* Properties. *)

Service == [id : Id, url : Url, chosen : [scheme : {"exact"}, network : {Network},
            asset : {Asset}, amount : Nat, payTo : Account], paymentIndex : Nat]

\* Every variable has its type; a registered service has terms our group can meet.
TypeOK ==
    /\ registry \in Seq(Service)
    /\ probes \in [Handler -> [url : Url, slot : Nat] \union {IdleProbe}]
    /\ \A u \in Url : offers[u] \in Offers[u]
    /\ snapshot \in [Run -> Seq(Service) \union {None}]
    /\ DOMAIN group = Run /\ accepted \in [Run -> SUBSET (Nat \X Option)]
    /\ \A r \in Run :
        /\ group[r] # None => snapshot[r] # None
        /\ accepted[r] # {} => group[r] # None

\* Every discovery that is probing was let in when there was room for one more,
\* so the registry exceeds the group's room by at most the other open requests.
OvershootBounded ==
    Len(registry) + Cardinality(Probing) <= MAX_EXTERNAL_SERVICES + Cardinality(Handler) - 1

\* The slots are contiguous and follow the order of registration.
InPlace(services) ==
    \A k \in DOMAIN services : services[k].paymentIndex = FIRST_EXTERNAL_SLOT + k - 1

\* A discovery brings home a slot that is not the next one any more, or a service
\* whose id is taken.
StaleDiscovery(h) ==
    /\ probes[h] # IdleProbe /\ probes'[h] = IdleProbe
    /\ \/ probes[h].slot # nextSlot
       \/ Registered(IdOf[probes[h].url]) # {}

\* Slots go wrong in one way only: by a discovery that computed its slot before
\* the registry changed, or whose id another URL has taken (services.ts, "a gap
\* would mean building a group with an empty index").
OnlyStaleDiscoveryBreaksSlots ==
    [][InPlace(registry) => InPlace(registry') \/ \E h \in Handler : StaleDiscovery(h)]_vars

\* How many transactions of a group, and how many services, pay account a this amount.
TransfersTo(txns, a, amount) ==
    Cardinality({slot \in DOMAIN txns : txns[slot] = Transfer(a, amount)})
ServicesAsking(services, a, amount) ==
    Cardinality({i \in DOMAIN services : /\ services[i].chosen.payTo = a
                                         /\ services[i].chosen.amount = amount})

\* However discoveries and deletions raced, a group has one transfer for each
\* service of its run, and the order payment is its last transaction
\* (pluggable.ts: a service once landed on the order's slot).
EachServiceHasItsTransfer ==
    \A r \in Run : group[r] # None =>
        /\ \A i \in DOMAIN snapshot[r] :
            LET terms == snapshot[r][i].chosen
            IN  TransfersTo(group[r], terms.payTo, terms.amount)
                    >= ServicesAsking(snapshot[r], terms.payTo, terms.amount)
        /\ group[r][Cardinality(DOMAIN group[r]) - 1] = Transfer(Supplier, OrderTotal)

\* What a group takes from the buyer is never more than the wallet was found to
\* hold, none of it a network fee, and the fees paid are those of a group its
\* size: a group that was signed does not fail for want of funds.
GroupIsFunded ==
    \A r \in Run : group[r] # None =>
        LET txns == group[r]
            buyers == {slot \in DOMAIN txns : txns[slot].from = Buyer}
        IN  /\ SumFunctionOnSet([slot \in DOMAIN txns |-> txns[slot].amount + txns[slot].fee],
                                buyers) <= Balance
            /\ SumFunction([slot \in DOMAIN txns |-> txns[slot].fee])
                    >= MIN_TXN_FEE * Cardinality(DOMAIN txns)

\* Services that accepted are paid in full: what goes to an account covers what
\* the services behind it asked for when they accepted, although two of them may
\* have been told the same slot and their prices may have changed.
AcceptedArePaidInFull ==
    \A r \in Run, a \in Account : group[r] # None =>
        SumFunctionOnSet([x \in accepted[r] |-> x[2].amount],
                         {x \in accepted[r] : x[2].payTo = a})
            <= SumFunctionOnSet([slot \in DOMAIN group[r] |-> group[r][slot].amount],
                                {slot \in DOMAIN group[r] : group[r][slot].to = a})
================================================================================
