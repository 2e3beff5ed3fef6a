--------------------------- MODULE PositionState ----------------------------
(***************************************************************************)
(* What the state database records about one position, apart from the       *)
(* exchange: the portfolio row, the tracker of its exit orders              *)
(* (src/tp_sl_tracker.py) and the mark that its first tranche is banked     *)
(* (kv "tp1_banked:<symbol>").  The order ladder writes the tracker, the    *)
(* reconciler folds it, the exit chain and the trailing check read it.      *)
(***************************************************************************)
EXTENDS OrderCalls, Functions, FiniteSetsExt

CONSTANTS Entry,    \* price the position is bought at
          Atr       \* average true range, in ticks

ASSUME EntryAssumption == Entry \in Prices /\ Atr \in Nat \ {0}

VARIABLES row,      \* portfolio row: [qty, sl], qty 0 when there is none
          tracker,  \* tp_sl_tracker record, or NoTracker
          banked,   \* position number the tp1_banked mark was written for; 0: none
          life      \* number of the position, counted from 1

books == <<row, tracker, banked, life>>

NoRow == [qty |-> 0, sl |-> 0]
NoTracker == [total |-> 0, tps |-> {}, done |-> {}, sl |-> 0, moved |-> 0]

\* save_state: the orders are those a ladder has just placed.
Tracker(total, tps, sl) ==
    [total |-> total, tps |-> tps, done |-> {}, sl |-> sl, moved |-> 0]

\* _collapse_tracker for every booked fill: the stop's fill or a total of
\* nothing removes the tracker, a take-profit's fill drops its tier.
Collapse(tr, sold) ==
    LET left == tr.total - SumFunction(sold)
        hit == {o \in tr.tps : o.id \in DOMAIN sold}
    IN  IF tr = NoTracker \/ tr.sl \in DOMAIN sold \/ left <= 0 THEN NoTracker
        ELSE [tr EXCEPT !.total = left,
                        !.tps = @ \ hit,
                        !.done = {},
                        !.moved = Max({@} \cup {o.tier : o \in hit})]

\* The wide band behind a banked position: 2.5 times the true range, as a
\* percentage of the price, within 2 and 12.
Width == Max({2, Min({12, (250 * Atr) \div price})})

\* A holding below a dollar is no position; the smallest order is five.
Dust(q) == 5 * q * price < MinNotional

\* sync_from_binance: the row takes the account's quantity and keeps its stop;
\* a holding without a row is adopted with the default stop.
Sync(default) ==
    \/ /\ row' = IF Dust(Held) THEN NoRow
                ELSE [qty |-> Held, sl |-> IF row.qty > 0 THEN row.sl ELSE default]
       /\ NoFault
    \/ Fault /\ UNCHANGED row

\* Mutant of BookFills: the sells the sync has taken in are subtracted again.
BookFillsTwice ==
    /\ unbooked # NoOrders
    /\ row' = IF row = NoRow THEN NoRow ELSE [row EXCEPT !.qty = @ - SumFunction(unbooked)]
    /\ tracker' = IF Held = 0 THEN NoTracker ELSE Collapse(tracker, unbooked)
    /\ unbooked' = NoOrders

\* reconcile_portfolio_drift and reconcile_exchange_fills: the sells nobody
\* recorded are booked, the row is trimmed to what the exchange holds and the
\* tracker is folded; a flat symbol keeps no tracker.
BookFills ==
    /\ unbooked # NoOrders
    /\ row' = IF Held = 0 \/ row = NoRow THEN NoRow ELSE [row EXCEPT !.qty = Held]
    /\ tracker' = IF Held = 0 THEN NoTracker ELSE Collapse(tracker, unbooked)
    /\ unbooked' = NoOrders

NothingToBook == UNCHANGED <<row, tracker, unbooked>>
=============================================================================
