------------------------------- MODULE StockLedger -------------------------------
(***************************************************************************)
(* The availability service's domain: its warehouse ledger and what an     *)
(* availability check answers.  A date is its number of days since         *)
(* 1970-01-01; the time of day is left out, since a dispatch keeps the     *)
(* time of the request and a deadline is the end of its day.               *)
(***************************************************************************)
EXTENDS Integers

StockRecord(sku, supplier, counted, age, live, reserved, pending, lead, slotFree) ==
    [sku |-> sku, supplier |-> supplier, counted |-> counted, age |-> age, live |-> live,
     reserved |-> reserved, pending |-> pending, lead |-> lead, slotFree |-> slotFree]

LEDGER ==
    {StockRecord("4471", "BLR", 12000, 3, 11800, 1300, 0, 3, TRUE),
     StockRecord("4471", "CHN", 8400, 2, 8400, 400, 0, 5, TRUE),
     StockRecord("4471", "PUN", 6200, 9, 6050, 300, 5400, 4, FALSE),
     StockRecord("4472", "BLR", 900, 16, 640, 240, 0, 5, TRUE),
     StockRecord("9002", "PUN", 4000, 4, 3900, 200, 0, 7, TRUE),
     StockRecord("3310", "BLR", 250000, 1, 249400, 11800, 0, 2, TRUE)}

StockOf(sku, supplier) == {r \in LEDGER : r.sku = sku /\ r.supplier = supplier}

\* Slip: only Saturdays are skipped.
WorkingDaySixDayWeek(day) == (day + 4) % 7 # 6

\* Day 0 of the epoch was a Thursday; 0 is Sunday and 6 Saturday.
WorkingDay(day) == (day + 4) % 7 \notin {0, 6}

\* addWorkingDays(from, days), as AddWorkingDays[from][days]: one calendar day at a
\* time, and only a working day counts.
AddWorkingDays[from \in Nat] ==
    [days \in Nat |->
        IF days = 0 THEN from
        ELSE AddWorkingDays[from + 1][IF WorkingDay(from + 1) THEN days - 1 ELSE days]]

DispatchDay(record, today) == AddWorkingDays[today][record.lead]

\* Slip: a standard answer does not subtract the reservations.
FreeUnitsUnreserved(record, tier) ==
    CASE tier = "shallow" -> record.counted
      [] tier = "standard" -> record.live
      [] tier = "deep" -> record.live - record.pending

\* The units a tier sees as free: the last count; the live quantity less the
\* reservations; and less what is allocated but not confirmed.
FreeUnits(record, tier) ==
    CASE tier = "shallow" -> record.counted
      [] tier = "standard" -> record.live - record.reserved
      [] tier = "deep" -> record.live - record.reserved - record.pending

\* What a tier finds that rules the order out.
RuledOut(record, order, today, tier) ==
    \/ FreeUnits(record, tier) < order.quantity
    \/ DispatchDay(record, today) > order.requiredBy
    \/ tier = "deep" /\ ~record.slotFree

StockVerdict(record, order, today, tier) ==
    LET answer(confidence, certainty) ==
            [tier |-> tier, confidence |-> confidence, certainty |-> certainty]
        sure == [shallow |-> 68, standard |-> 90, deep |-> 99]
        ruledOut == RuledOut(record, order, today, tier)
    IN  CASE ruledOut -> answer("refuted", sure[tier])
          [] ~ruledOut /\ tier = "shallow" /\ record.age > 6 -> answer("ambiguous", 60)
          [] ~ruledOut /\ tier = "standard" /\ record.pending > 0 -> answer("ambiguous", 72)
          [] OTHER -> answer("confirmed", sure[tier])

\* runAvailabilityCheck
RunAvailabilityCheck(order, today, tier) ==
    IF StockOf(order.sku, order.supplier) = {}
    THEN [tier |-> tier, confidence |-> "refuted", certainty |-> 100]
    ELSE StockVerdict(CHOOSE r \in StockOf(order.sku, order.supplier) : TRUE,
                      order, today, tier)
================================================================================
