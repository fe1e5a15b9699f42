------------------------------- MODULE PriceEngine -------------------------------
(***************************************************************************)
(* The price service's domain: its catalogue and what a price check        *)
(* answers at the tier that was paid for.  Prices are per unit, in atomic  *)
(* units of the asset; the order total and the texts are left out.         *)
(***************************************************************************)
EXTENDS Integers

CatalogueEntry(sku, supplier, cached, age, live, discount) ==
    [sku |-> sku, supplier |-> supplier, cached |-> cached, age |-> age,
     live |-> live, discount |-> discount]

CATALOGUE ==
    {CatalogueEntry("4471", "BLR", 8000, 11, 7750, 0),
     CatalogueEntry("4472", "BLR", 8080, 14, 8580, 0),
     CatalogueEntry("9002", "PUN", 136000, 3, 136000, 0),
     CatalogueEntry("3310", "BLR", 250, 1, 250, 30),
     CatalogueEntry("4471", "CHN", 7200, 2, 7200, 0),
     CatalogueEntry("4471", "PUN", 7800, 2, 7800, 0)}

PricesOf(sku, supplier) == {e \in CATALOGUE : e.sku = sku /\ e.supplier = supplier}

\* Slip: every tier is served from the cache.
SeenPriceCached(entry, tier) == entry.cached

\* The price a tier sees: the cache, the live price, or that less the rebate.
SeenPrice(entry, tier) ==
    CASE tier = "shallow" -> entry.cached
      [] tier = "standard" -> entry.live
      [] tier = "deep" -> entry.live - entry.discount

\* The distance to the ceiling in thousandths of it, for a price below it.
Margin(price, ceiling) == IF ceiling > 0 THEN ((ceiling - price) * 1000) \div ceiling ELSE 0

\* Whether a cached price says too little: it is close to the ceiling, or old.
TooThin(entry, ceiling) == Margin(entry.cached, ceiling) < 80 \/ entry.age > 6

TierCertainty == [shallow |-> 68, standard |-> 90, deep |-> 99]

PriceVerdict(entry, ceiling, tier) ==
    LET answer(confidence, certainty) ==
            [tier |-> tier, confidence |-> confidence, certainty |-> certainty]
    IN  CASE SeenPrice(entry, tier) > ceiling -> answer("refuted", TierCertainty[tier])
          [] tier = "shallow" /\ SeenPrice(entry, tier) <= ceiling /\ TooThin(entry, ceiling) ->
                answer("ambiguous", 62)
          [] OTHER -> answer("confirmed", TierCertainty[tier])

\* runPriceCheck
RunPriceCheck(order, tier) ==
    IF PricesOf(order.sku, order.supplier) = {}
    THEN [tier |-> tier, confidence |-> "refuted", certainty |-> 100]
    ELSE PriceVerdict(CHOOSE e \in PricesOf(order.sku, order.supplier) : TRUE,
                      order.ceiling, tier)
================================================================================
