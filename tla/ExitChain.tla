----------------------------- MODULE ExitChain ------------------------------
(***************************************************************************)
(* The exit chain of src/exit_check.py: a decision on one position          *)
(* (evaluate_one), then cancel the resting orders, sell at market, protect  *)
(* what is left, book, and remember it.  The scan's exit step runs it under *)
(* the scan lock; the control panel's forceexit runs it in another process  *)
(* and takes no lock.                                                       *)
(***************************************************************************)
EXTENDS PositionState

CONSTANTS TpExit,       \* take-profit exit, percent over the entry
          SlExit,       \* stop-loss exit, percent below the entry
          PartialAt     \* first tranche, percent over the entry (1.5 R)

ASSUME ExitAssumption ==
    /\ TpExit \in Nat /\ SlExit \in 0 .. 99 /\ PartialAt \in Nat

VARIABLES exit,     \* process -> its run of execute_exit
          cooling   \* the last exit is younger than EXIT_COOLDOWN_S

exits == <<exit, cooling>>

Procs == {"scan", "panel"}
ExitKinds == {"none", "hold", "tp_partial", "take_profit", "stop_loss", "momentum", "manual"}
Resting == [at |-> "rest", kind |-> "none", pct |-> 100, want |-> 0, px |-> 0,
            todo |-> {}, q |-> 0, end |-> "none"]

At(me, a) == exit[me].at = a
Go(me, a) == exit' = [exit EXCEPT ![me].at = a]
End(me, how) == exit' = [exit EXCEPT ![me] = [Resting EXCEPT !.end = how]]

Gained(p, pct) == 100 * (p - Entry) >= pct * Entry
Lost(p, pct) == 100 * (Entry - p) >= pct * Entry

-----------------------------------------------------------------------------
(* evaluate_one                                                             *)

\* In the order of the code; hold covers the hold expiry and the zombie exit,
\* whose clocks are not modelled, and momentum its two sizes.
Decides(kind, pct) ==
    \/ kind = "hold" /\ pct = 100
    \/ kind = "tp_partial" /\ pct = 50 /\ banked = 0 /\ Gained(price, PartialAt)
    \/ /\ kind = "take_profit" /\ pct = 100 /\ banked = 0
       /\ Gained(price, TpExit) /\ ~Gained(price, PartialAt)
    \/ kind = "stop_loss" /\ pct = 100 /\ (price <= row.sl \/ Lost(price, SlExit))
    \/ /\ kind = "momentum" /\ pct \in {50, 100}
       /\ price > Entry /\ price > row.sl
       /\ banked # 0 \/ ~Gained(price, TpExit)

\* The row and the price are read, a decision is made, and a position below
\* the smallest order is left alone, unless the filters that say so cannot be
\* read.  A human's command ignores the cooldown.
Choose(me) ==
    /\ At(me, "rest") /\ row.qty > 0
    /\ \/ row.qty * price >= MinNotional /\ NoFault
       \/ row.qty * price < MinNotional /\ Fault
    /\ \E kind \in ExitKinds, pct \in {50, 100} :
         /\ IF me = "scan" THEN ~cooling /\ Decides(kind, pct)
                           ELSE kind = "manual" /\ pct = 100
         /\ exit' = [exit EXCEPT ![me] = [Resting EXCEPT
                        !.at = IF kind = "tp_partial" THEN "sync" ELSE "list",
                        !.kind = kind, !.pct = pct, !.want = row.qty, !.px = price]]
    /\ UNCHANGED <<exchange, issued, unbooked, moves, books, cooling>>

-----------------------------------------------------------------------------
(* execute_exit                                                             *)

\* _tp1_exchange_filled_qty: has the tracked first take-profit filled?
Tp1Filled == \E o \in tracker.tps : o.tier = 1 /\ o.id \in filled

\* The tranche may be banked already; an unanswered question counts as no.
SyncTranche(me) ==
    /\ At(me, "sync")
    /\ \/ Tp1Filled /\ NoFault /\ banked' = life /\ End(me, "synced")
       \/ ~Tp1Filled /\ NoFault /\ UNCHANGED banked /\ Go(me, "list")
       \/ Tp1Filled /\ Fault /\ UNCHANGED banked /\ Go(me, "list")
    /\ UNCHANGED <<exchange, issued, unbooked, moves, row, tracker, life, cooling>>

\* _cancel_sell_legs: the open orders, an OCO list as one target.
ListLegs(me) ==
    /\ At(me, "list")
    /\ \E legs \in {book, NoOrders} :
         /\ Listed(legs)
         /\ exit' = [exit EXCEPT ![me].at = "cancel", ![me].todo = DOMAIN legs]
    /\ UNCHANGED <<exchange, issued, unbooked, moves, books, cooling>>

\* Three attempts count as one: once the order is gone every answer is None.
CancelLeg(me) ==
    /\ At(me, "cancel") /\ exit[me].todo # {}
    /\ \E i \in exit[me].todo, ok \in BOOLEAN :
         /\ \A j \in exit[me].todo : i <= j
         /\ CancelOrder(i, ok)
         /\ IF ok THEN exit' = [exit EXCEPT ![me].todo = @ \ {i}]
                  ELSE End(me, "kept")
    /\ UNCHANGED <<books, moves, cooling>>

\* What is sold: the decision's share, whole lots, never more than is free, if
\* it is worth an order.  Filters that cannot be read leave out the last, and
\* with the lot the share as well.
SizeSale(me) ==
    /\ At(me, "cancel") /\ exit[me].todo = {}
    /\ Settled
    /\ \E seen \in {free, 0}, read \in BOOLEAN :
         LET share == IF read THEN FloorStep((exit[me].want * exit[me].pct) \div 100)
                              ELSE exit[me].want
             q == IF seen < share THEN seen ELSE share
         IN  /\ IF read THEN SeenFree(seen) ELSE seen = free /\ Fault
             /\ IF q <= 0 \/ (read /\ q * exit[me].px < MinNotional)
                  THEN End(me, "untradable")
                  ELSE exit' = [exit EXCEPT ![me].at = "sell", ![me].q = q]
    /\ UNCHANGED <<exchange, issued, unbooked, moves, books, cooling>>

Sell(me) ==
    /\ At(me, "sell")
    /\ \E ok \in BOOLEAN :
         /\ SellNow(FloorStep(exit[me].q), ok)
         /\ Go(me, IF ~ok THEN "rescue" ELSE IF exit[me].pct < 100 THEN "relist" ELSE "book")
    /\ UNCHANGED <<books, moves, cooling>>

\* Mutant of Rescue: no stop after a failed sale.
RescueNot(me) ==
    /\ At(me, "rescue")
    /\ End(me, "failed")
    /\ UNCHANGED <<market, books, cooling>>

\* The sale failed: a stop 3% down, whatever becomes of it.
Rescue(me) ==
    /\ At(me, "rescue")
    /\ \E ok \in BOOLEAN :
         Send(StopLoss(FloorStep(exit[me].q), (97 * exit[me].px) \div 100), ok)
    /\ End(me, "failed")
    /\ UNCHANGED <<books, moves, cooling>>

\* The stop of the rest: just above the entry or in the wide band for the first
\* tranche, just below the entry for a momentum exit, 5% down if that is too
\* close to the price.
RestSl(me) ==
    LET want == IF exit[me].kind = "tp_partial" THEN Max({(10025 * Entry) \div 10000,
                          ((100 - Width) * exit[me].px) \div 100})
                ELSE (995 * Entry) \div 1000
    IN  IF 100 * want >= 98 * exit[me].px THEN (95 * exit[me].px) \div 100 ELSE want

Relist(me) ==
    /\ At(me, "relist")
    /\ LET rest == FloorStep(exit[me].want - exit[me].q)
       IN  \/ /\ rest * exit[me].px >= MinNotional
              /\ \E ok \in BOOLEAN : Send(StopLoss(rest, RestSl(me)), ok)
           \/ /\ rest * exit[me].px < MinNotional
              /\ UNCHANGED <<exchange, issued, unbooked, faults>>
    /\ Go(me, "book")
    /\ UNCHANGED <<books, moves, cooling>>

\* Mutant of Finish: the tranche is not remembered.
FinishForgets(me) ==
    /\ At(me, "book")
    /\ BookFills \/ NothingToBook
    /\ cooling' = TRUE
    /\ banked' = IF exit[me].pct >= 100 THEN 0 ELSE banked
    /\ End(me, "sold")
    /\ UNCHANGED <<exchange, issued, faults, moves, life>>

\* The fills are booked, the cooldown and the tranche are remembered; a full
\* exit forgets the tranche.
Finish(me) ==
    /\ At(me, "book")
    /\ BookFills \/ NothingToBook
    /\ cooling' = TRUE
    /\ banked' = IF exit[me].pct >= 100 THEN 0
                 ELSE IF exit[me].kind = "tp_partial" THEN life ELSE banked
    /\ End(me, "sold")
    /\ UNCHANGED <<exchange, issued, faults, moves, life>>

CoolOff == cooling /\ cooling' = FALSE /\ UNCHANGED <<market, books, exit>>

ExecuteExit(me) ==
    \/ SyncTranche(me) \/ ListLegs(me) \/ CancelLeg(me) \/ SizeSale(me) \/ Sell(me)
    \/ Rescue(me) \/ Relist(me) \/ Finish(me)
=============================================================================
