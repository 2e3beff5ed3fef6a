---------------------------- MODULE EntryLadder -----------------------------
(***************************************************************************)
(* The exit orders a BUY gets: _place_sl_tp_orders of                       *)
(* src/trade_executor.py, one request to the exchange per action.           *)
(*                                                                          *)
(* A small position gets one stop.  A larger one gets a take-profit for     *)
(* half of it and a stop for the rest (strategy B); if either is refused,   *)
(* an OCO over all of it; and if that is refused, a stop and a ladder of    *)
(* take-profits (strategy C).  A check at the end looks for units that got  *)
(* no order.                                                                *)
(***************************************************************************)
EXTENDS PositionState, Sequences

CONSTANTS SlPct,    \* stop distance, percent
          TpPct,    \* take-profit distance of each tier, percent
          TpSize    \* share of each tier in strategy C, percent

ASSUME LadderAssumption ==
    /\ SlPct \in 1 .. 99
    /\ TpPct \in Seq(Nat \ {0}) /\ TpPct # <<>>
    /\ TpSize \in [DOMAIN TpPct -> 0 .. 100]

VARIABLES rung,     \* the next step of the ladder, "idle" before and after it
          tries,    \* attempts of the current request, the next one included
          qty,      \* executed_qty
          slq, tpq, \* sl_placed_qty, tp_placed_qty
          left,     \* tiers still to be sent, or residue still to be cancelled
          placed,   \* take-profits placed so far, as the tracker names them
          slId,     \* id of the stop, 0 if none was placed
          alerted   \* somebody was told that a stop is missing

ladder == <<rung, tries, qty, slq, tpq, left, placed, slId, alerted>>

Rungs == {"idle", "bought", "smallSl", "tp1", "tierSl", "residue", "cancel", "oco",
          "cSl", "cTp", "cover", "extra", "dump", "done"}

StopPx == (Entry * (100 - SlPct)) \div 100
TpPx(k) == (Entry * (100 + TpPct[k])) \div 100

\* Strategy A below twice the smallest order; $10 is the same line.
IsSmall(q) == q * Entry < 2 * MinNotional

\* The single tranche of strategy B.
Tranche(q) == FloorStep(q \div 2)

FirstRung(q) ==
    IF IsSmall(q) THEN "smallSl"
    ELSE IF Tranche(q) < Step THEN "tierSl"
    ELSE IF Tranche(q) * TpPx(1) >= MinNotional THEN "tp1" ELSE "oco"

\* Take-profits of strategy C, at most 70% together; the rest is the stop's.
TierQty(q, k) == FloorStep((q * TpSize[k]) \div 100)
TierTotal(q) == SumFunction([k \in DOMAIN TpSize |-> TierQty(q, k)])
ScaledQty(q, k) ==
    IF 100 * TierTotal(q) > 70 * q
      THEN FloorStep((TierQty(q, k) * 70 * q) \div (100 * TierTotal(q)))
      ELSE TierQty(q, k)
CStop(q) == q - SumFunction([k \in DOMAIN TpSize |-> ScaledQty(q, k)])

Goto(r) == rung' = r /\ tries' = 1

\* A request that may be tried `limit` times: A after an accepted attempt, B
\* after the last refused one.
Try(Request(_), limit, A, B) ==
    \/ Request(TRUE) /\ A
    \/ /\ Request(FALSE)
       /\ IF tries < limit
            THEN tries' = tries + 1
                 /\ UNCHANGED <<rung, qty, slq, tpq, left, placed, slId, alerted, tracker>>
            ELSE B

\* _place_sl_with_1013_fallback: two stop-limit attempts, then a stop that
\* sells at market.
RequestStop(q, ok) ==
    IF tries <= 2 THEN Send(StopLoss(FloorStep(q), StopPx), ok)
                  ELSE SendMarketStop(StopLoss(FloorStep(q), StopPx), ok)

-----------------------------------------------------------------------------

\* The BUY is done.  What is free, less its fee, replaces the quantity of its
\* fills, unless the account cannot be read.
Begin ==
    /\ rung = "bought"
    /\ \/ qty' = (IF free \in 1 .. qty THEN free ELSE qty) /\ NoFault
       \/ UNCHANGED qty /\ Fault
    /\ slq' = 0 /\ tpq' = 0 /\ placed' = {} /\ slId' = 0 /\ alerted' = FALSE
    /\ left' = {}
    /\ Goto(FirstRung(qty'))
    /\ UNCHANGED <<exchange, issued, unbooked, moves, books>>

\* Mutant of SmallSl: a refused stop is left to the check at the end.
SmallSlQuiet ==
    /\ rung = "smallSl"
    /\ Try(LAMBDA ok : RequestStop(qty, ok), 3,
           slq' = qty /\ Goto("cover"),
           Goto("cover") /\ UNCHANGED slq)
    /\ UNCHANGED <<qty, tpq, left, placed, slId, alerted, books, moves>>

\* Strategy A.
SmallSl ==
    /\ rung = "smallSl"
    /\ Try(LAMBDA ok : RequestStop(qty, ok), 3,
           slq' = qty /\ Goto("cover") /\ UNCHANGED alerted,
           alerted' = TRUE /\ Goto("cover") /\ UNCHANGED slq)
    /\ UNCHANGED <<qty, tpq, left, placed, slId, books, moves>>

\* Mutant of Tp1: the tracker is saved before the stop is known to stand.
Tp1Saves ==
    /\ rung = "tp1"
    /\ Try(LAMBDA ok : Send(TakeProfit(Tranche(qty), TpPx(1)), ok), 2,
           /\ placed' = {[id |-> issued', tier |-> 1]} /\ Goto("tierSl")
           /\ tracker' = Tracker(qty, placed', 0),
           Goto("residue") /\ UNCHANGED <<placed, tracker>>)
    /\ UNCHANGED <<qty, slq, tpq, left, slId, alerted, row, banked, life, moves>>

\* Strategy B: the take-profit first, because a stop would lock the base.
Tp1 ==
    /\ rung = "tp1"
    /\ Try(LAMBDA ok : Send(TakeProfit(Tranche(qty), TpPx(1)), ok), 2,
           placed' = {[id |-> issued', tier |-> 1]} /\ Goto("tierSl"),
           Goto("residue") /\ UNCHANGED placed)
    /\ UNCHANGED <<qty, slq, tpq, left, slId, alerted, books, moves>>

BehindTp == IF placed = {} THEN 0 ELSE Tranche(qty)

\* Its stop, for what the take-profit leaves; only then is anything recorded.
TierSl ==
    /\ rung = "tierSl"
    /\ LET rest == FloorStep(qty - BehindTp)
       IN  Try(LAMBDA ok : RequestStop(rest, ok), 3,
               /\ slq' = rest /\ tpq' = BehindTp
               /\ slId' = issued'
               /\ tracker' = Tracker(qty, placed, issued')
               /\ Goto("cover"),
               UNCHANGED <<slq, tpq, slId, tracker>> /\ Goto("residue"))
    /\ UNCHANGED <<qty, left, placed, alerted, row, banked, life, moves>>

\* What strategy B left behind is looked up; stops are preserved.
Residue ==
    /\ rung = "residue"
    /\ \E legs \in {book, NoOrders} :
         /\ Listed(legs)
         /\ left' = {i \in DOMAIN legs : legs[i].kind # "sl"}
    /\ Goto("cancel")
    /\ UNCHANGED <<exchange, issued, unbooked, moves, qty, slq, tpq, placed, slId,
                   alerted, books>>

\* Every other order is cancelled; nobody looks at the answers.
CancelResidue ==
    /\ rung = "cancel"
    /\ \/ /\ left # {}
          /\ \E i \in left, ok \in BOOLEAN :
               (\A j \in left : i <= j) /\ CancelOrder(i, ok) /\ left' = left \ {i}
          /\ UNCHANGED <<rung, tries>>
       \/ /\ left = {} /\ Goto("oco")
          /\ UNCHANGED <<exchange, issued, unbooked, faults, left>>
    /\ placed' = {}
    /\ UNCHANGED <<qty, slq, tpq, slId, alerted, books, moves>>

\* One OCO over everything.
PlaceOco ==
    /\ rung = "oco"
    /\ Try(LAMBDA ok : Send(Oco(FloorStep(qty), TpPx(1), StopPx), ok), 1,
           slq' = qty /\ Goto("done"),
           Goto("cSl") /\ UNCHANGED slq)
    /\ UNCHANGED <<qty, tpq, left, placed, slId, alerted, books, moves>>

\* Strategy C: the stop first, then the tiers.  The tiers leave it 30%.
CSl ==
    /\ rung = "cSl"
    /\ LET tiers == left' = DOMAIN TpSize /\ Goto("cTp")
       IN  Try(LAMBDA ok : RequestStop(CStop(qty), ok), 3,
               slq' = CStop(qty) /\ slId' = issued' /\ tiers /\ UNCHANGED alerted,
               alerted' = TRUE /\ tiers /\ UNCHANGED <<slq, slId>>)
    /\ UNCHANGED <<qty, tpq, placed, books, moves>>

NextTier == CHOOSE k \in left : \A j \in left : k <= j
WorthATier(k) == ScaledQty(qty, k) >= Step /\ ScaledQty(qty, k) * TpPx(k) >= MinNotional

CTp ==
    /\ rung = "cTp" /\ left # {}
    /\ LET k == NextTier
           rest == /\ left' = left \ {k} /\ Goto("cTp")
       IN  \/ /\ WorthATier(k)
              /\ Try(LAMBDA ok : Send(TakeProfit(ScaledQty(qty, k), TpPx(k)), ok), 2,
                     /\ placed' = placed \cup {[id |-> issued', tier |-> k]}
                     /\ tpq' = tpq + ScaledQty(qty, k) /\ rest,
                     UNCHANGED <<placed, tpq>> /\ rest)
           \/ /\ ~WorthATier(k) /\ rest
              /\ UNCHANGED <<exchange, issued, unbooked, faults, placed, tpq>>
    /\ UNCHANGED <<qty, slq, slId, alerted, books, moves>>

CSave ==
    /\ rung = "cTp" /\ left = {}
    /\ tracker' = IF placed # {} THEN Tracker(qty, placed, slId) ELSE tracker
    /\ Goto("cover")
    /\ UNCHANGED <<qty, slq, tpq, left, placed, slId, alerted, row, banked, life, market>>

Uncovered == qty - slq - tpq

\* Mutant of Cover: uncovered units are sold whether a stop stands or not.
CoverBlind ==
    /\ rung = "cover"
    /\ IF Uncovered * Entry < 2 * MinNotional
         THEN Goto("done") /\ UNCHANGED alerted
         ELSE Goto("dump") /\ alerted' = TRUE
    /\ UNCHANGED <<qty, slq, tpq, left, placed, slId, books, market>>

\* Units no order covers: a second stop if there is a first one; without any
\* stop, an alert and a market sell, unless the position is below $10.
Cover ==
    /\ rung = "cover"
    /\ \/ Uncovered < Step /\ Goto("done") /\ UNCHANGED alerted
       \/ Uncovered >= Step /\ slq > 0 /\ Goto("extra") /\ UNCHANGED alerted
       \/ /\ Uncovered >= Step /\ slq = 0 /\ Uncovered * Entry < 2 * MinNotional
          /\ Goto("done") /\ UNCHANGED alerted
       \/ /\ Uncovered >= Step /\ slq = 0 /\ Uncovered * Entry >= 2 * MinNotional
          /\ alerted' = TRUE /\ Goto("dump")
    /\ UNCHANGED <<qty, slq, tpq, left, placed, slId, books, market>>

\* Mutant of Extra: the units count as covered although both requests failed.
ExtraCounted ==
    /\ rung = "extra"
    /\ Try(LAMBDA ok : Send(StopLoss(FloorStep(Uncovered), StopPx), ok), 2,
           slq' = slq + FloorStep(Uncovered) /\ Goto("done"),
           slq' = slq + FloorStep(Uncovered) /\ Goto("done"))
    /\ UNCHANGED <<qty, tpq, left, placed, slId, alerted, books, moves>>

\* The second stop, or nothing but a log line.
Extra ==
    /\ rung = "extra"
    /\ Try(LAMBDA ok : Send(StopLoss(FloorStep(Uncovered), StopPx), ok), 2,
           slq' = slq + FloorStep(Uncovered) /\ Goto("done"),
           Goto("done") /\ UNCHANGED slq)
    /\ UNCHANGED <<qty, tpq, left, placed, slId, alerted, books, moves>>

Dump ==
    /\ rung = "dump"
    /\ \E ok \in BOOLEAN : SellNow(FloorStep(Uncovered), ok)
    /\ Goto("done")
    /\ UNCHANGED <<qty, slq, tpq, left, placed, slId, alerted, books, moves>>

\* The position is recorded with everything that was bought.
Record ==
    /\ rung = "done"
    /\ row' = [qty |-> qty, sl |-> StopPx]
    /\ Goto("idle")
    /\ qty' = 0 /\ slq' = 0 /\ tpq' = 0 /\ placed' = {} /\ slId' = 0
    /\ alerted' = FALSE
    /\ UNCHANGED <<left, tracker, banked, life, market>>

LadderStep ==
    \/ Begin \/ SmallSl \/ Tp1 \/ TierSl \/ Residue \/ CancelResidue \/ PlaceOco
    \/ CSl \/ CTp \/ CSave \/ Cover \/ Extra \/ Dump \/ Record
=============================================================================
