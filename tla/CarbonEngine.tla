------------------------------- MODULE CarbonEngine -------------------------------
(***************************************************************************)
(* The carbon service's domain: the estimate it sells.  It keeps no state: *)
(* shipment is the request being served and estimate its answer.  Cities   *)
(* are compared by their names in lower case, so by their place in the     *)
(* alphabet.  Roundings and the summary are left out.                      *)
(***************************************************************************)
EXTENDS Integers, Sequences

CONSTANTS
    Unstated,    \* in place of a field the body does not have
    Units,       \* the numbers of units asked about, from 1
    Weight       \* the weights asked about, in kilograms, from 1

VARIABLES shipment, estimate

vars == <<shipment, estimate>>

EMISSIONS_FACTORS == [road |-> 62, rail |-> 22, sea |-> 8, air |-> 602]

\* The distances on file, by the literal keys of the table.
DISTANCES ==
    {<<"bengaluru", "chennai", 350>>, <<"bengaluru", "pune", 840>>,
     <<"bengaluru", "hyderabad", 570>>, <<"bengaluru", "delhi", 2150>>,
     <<"bengaluru", "mumbai", 980>>, <<"chennai", "pune", 1180>>,
     <<"chennai", "hyderabad", 630>>, <<"chennai", "delhi", 2180>>,
     <<"pune", "hyderabad", 560>>, <<"pune", "delhi", 1430>>,
     <<"hyderabad", "delhi", 1580>>}

City == {"bengaluru", "chennai", "delhi", "hyderabad", "mumbai", "pune", "salem"}

\* The order of strings on the cities' names.
Alphabet == <<"bengaluru", "chennai", "delhi", "hyderabad", "mumbai", "pune", "salem">>

Before(a, b) == \E i, j \in 1 .. Len(Alphabet) : i < j /\ Alphabet[i] = a /\ Alphabet[j] = b

RouteKey(from, to) == IF Before(from, to) THEN <<from, to>> ELSE <<to, from>>

\* The distance of the entry with that key, and 500 km when there is none.
DistanceOf(key) ==
    LET found == {d \in DISTANCES : <<d[1], d[2]>> = key}
    IN  IF found = {} THEN 500 ELSE (CHOOSE d \in found : TRUE)[3]

Default(value, default) == IF value = Unstated THEN default ELSE value

\* Grams of CO2e, for weights whose product with the distance is whole tonne-km.
Emission(weight, distance, mode) == ((weight * distance) \div 1000) * EMISSIONS_FACTORS[mode]

EstimateCarbon(s) ==
    LET units == Default(s.units, 500)
        weight == Default(s.weight, 8 * units)
        mode == Default(s.mode, "road")
        distance == DistanceOf(RouteKey(Default(s.origin, "bengaluru"),
                                        Default(s.destination, "chennai")))
        total == Emission(weight, distance, mode)
    IN  [distance |-> distance, total |-> total,
         cbamReportable |-> total > 1000000,
         railSaves |-> IF mode = "road" /\ distance > 400
                       THEN total - Emission(weight, distance, "rail") ELSE 0]

Shipment ==
    [origin : City \union {Unstated}, destination : City \union {Unstated},
     weight : Weight \union {Unstated}, units : Units \union {Unstated},
     mode : DOMAIN EMISSIONS_FACTORS \union {Unstated}]

Init == shipment \in Shipment /\ estimate = Unstated

\* POST /estimate, once paid for.
Serve ==
    /\ estimate = Unstated
    /\ estimate' = EstimateCarbon(shipment)
    /\ UNCHANGED shipment

Spec == Init /\ [][Serve]_vars
--------------------------------------------------------------------------------
\* "Normalises a city pair into a lookup key, order-independent" (routeKey): an
\* estimate between two cities of the table uses the distance the table has.
ListedDistanceIsUsed ==
    estimate # Unstated => \A d \in DISTANCES :
        {d[1], d[2]} = {Default(shipment.origin, "bengaluru"),
                        Default(shipment.destination, "chennai")}
            => estimate.distance = d[3]
================================================================================
