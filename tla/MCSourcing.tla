-------------------------------- MODULE MCSourcing --------------------------------
(***************************************************************************)
(* Orders chosen at the boundaries of the real data, for TLC.              *)
(***************************************************************************)
EXTENDS Sourcing

LOCAL Want(sku, supplier, quantity, ceiling, requiredBy) ==
    [sku |-> sku, supplier |-> supplier, quantity |-> quantity, ceiling |-> ceiling,
     requiredBy |-> requiredBy]

\* Ceilings on both sides of the prices of an entry, and of the margin its
\* cached price needs.
LOCAL Ceilings(e) ==
    {e.live - 1, e.live, e.live - e.discount, (e.cached * 1000) \div 919}

\* Quantities on both sides of what each tier sees as free.
LOCAL Quantities(r) ==
    UNION {{FreeUnits(r, t), FreeUnits(r, t) + 1} : t \in Tier}

\* Deadlines around the dispatch day of a run that starts on the Tuesday.
LOCAL Deadlines(r) == {DispatchDay(r, 20907) - 1, DispatchDay(r, 20907)}

\* For goods on file: a boundary of one figure at a time, the others generous.
\* And orders for goods or from suppliers that are not on file, at
\* the limits of the schema, and the form's own.
MCOrder ==
    UNION {{Want(e.sku, e.supplier, q, 10 * e.live, 20990) : q \in Quantities(r)}
           \union {Want(e.sku, e.supplier, 1, p, 20990) : p \in Ceilings(e)}
           \union {Want(e.sku, e.supplier, 1, 10 * e.live, d) : d \in Deadlines(r)} :
            <<e, r>> \in {x \in CATALOGUE \X LEDGER :
                            x[1].sku = x[2].sku /\ x[1].supplier = x[2].supplier}}
    \union {Want(sku, s, 1, 9000, 20990) :
                sku \in {"4471", "none"}, s \in {"BLR", "DEL", "HYD", "none"}}
    \union {Want("4471", "BLR", q, 9000, 20990) : q \in {0, 1000000, 1000001}}
    \union {p.request : p \in PRESETS}

\* Tuesday 30 March 2027: a licence ends on the Wednesday.  The form's orders are
\* also placed on Wednesday 9 September 2026, in time for their deadline.
MCToday ==
    [o \in MCOrder |-> IF o.requiredBy = 20711 THEN {20705, 20907} ELSE {20907}]
--------------------------------------------------------------------------------
\* What the code's own texts say, and the code does not do.

\* "A confirmed answer from a tier that is only 68% reliable is a 68%
\* confirmation, not a certainty" (tiers.ts), and "spending real money on an
\* uncertain verification is precisely the failure mode this project exists to
\* prevent" (spendPlanner.ts): no order is ready on an answer below the threshold.
NothingUncertainIsReady ==
    outcome = "ready" => \A c \in Check : verdicts[c].certainty >= EscalateBelow
================================================================================
