----------------------------- MODULE OrderCalls -----------------------------
(***************************************************************************)
(* The order endpoints of src/_binance_sdk_client.py as their callers see   *)
(* them: an answer, or None.                                                *)
(*                                                                          *)
(* None stands for a request the client's own filters or the exchange       *)
(* refuse, for a request that never arrived, and for one that was carried   *)
(* out although no answer came back.  In the last case the client repeats   *)
(* the request under the same client order id, the exchange refuses it as a *)
(* duplicate, and that refusal is what the caller sees.                     *)
(***************************************************************************)
EXTENDS SpotExchange

CONSTANTS MaxFaults,  \* failed or unheard requests in a behaviour
          MaxMoves    \* price moves in a behaviour

\* Orders are numbered from 1 in the order of their acceptance.
ASSUME CallAssumption ==
    /\ MaxFaults \in Nat /\ MaxMoves \in Nat
    /\ \A i \in OrderIds : i > 0 /\ 1 .. i \subseteq OrderIds

VARIABLES issued,    \* number of order ids the exchange has handed out
          unbooked,  \* order id -> quantity sold that no books show yet
          filled,    \* ids of the sell orders the exchange reports FILLED
          faults, moves

calls == <<issued, unbooked, faults>>
market == <<exchange, calls, moves>>

NoFault == UNCHANGED faults
Fault == faults < MaxFaults /\ faults' = faults + 1

NoOrders == [i \in {} |-> 0]
WithFill(i, q) == [j \in DOMAIN unbooked \cup {i} |-> IF j = i THEN q ELSE unbooked[j]]

\* A request that the exchange would carry out as `Effect` when it is `good`,
\* and what its caller hears.  Resting orders are served first.
Answer(good, Effect, ok) ==
    /\ Settled
    /\ \/ ok /\ good /\ Effect /\ NoFault
       \/ ~ok /\ good /\ Effect /\ Fault
       \/ ~ok /\ good /\ Fault /\ UNCHANGED <<exchange, issued, unbooked>>
       \/ ~ok /\ ~good /\ NoFault /\ UNCHANGED <<exchange, issued, unbooked>>

\* An accepted order takes the next id; one the market has passed is sold.
Accept(l) ==
    /\ Join(l, 1 .. issued)
    /\ issued' = issued + 1
    /\ unbooked' = IF Marketable(l) THEN WithFill(issued', l.qty) ELSE unbooked

\* place_order LIMIT and STOP_LOSS_LIMIT, place_stop_loss_market, place_oco.
Send(l, ok) == Answer(Placeable(l), Accept(l), ok)

\* place_order STOP_LOSS: it has no limit price the band could refuse.
MarketStopPlaceable(l) ==
    /\ l \in Leg
    /\ l.qty >= MinQty /\ l.qty <= free
    /\ Notional(l) >= MinNotional
    /\ l.sl < price

SendMarketStop(l, ok) == Answer(MarketStopPlaceable(l), Accept(l), ok)

\* place_market_sell.
SellNow(q, ok) ==
    Answer(/\ q >= MinQty /\ q <= free /\ q * price >= MinNotional,
           /\ free' = free - q
           /\ issued' = issued + 1
           /\ unbooked' = WithFill(issued', q)
           /\ UNCHANGED <<price, locked, book>>,
           ok)

\* cancel_order: -2011 for an order that is gone is None as well.
CancelOrder(i, ok) ==
    Answer(i \in DOMAIN book, Cancel(i) /\ UNCHANGED <<issued, unbooked>>, ok)

\* get_open_orders and the balance reads: a failed read shows nothing.
Listed(legs) ==
    \/ legs = book /\ NoFault
    \/ legs = NoOrders /\ DOMAIN book # {} /\ Fault

SeenFree(q) ==
    \/ q = free /\ NoFault
    \/ q = 0 /\ free # 0 /\ Fault

\* The market reaches a resting order, or moves to another price.
TradeOrder(i) == Fill(i) /\ unbooked' = WithFill(i, book[i].qty)
                 /\ UNCHANGED <<issued, faults, moves>>

MovePrice ==
    /\ moves < MaxMoves
    /\ \E p \in Prices : MoveTo(p)
    /\ moves' = moves + 1
    /\ UNCHANGED <<issued, unbooked, faults>>

TakeProfit(q, p) == [kind |-> "tp", qty |-> q, tp |-> p, sl |-> 0]
StopLoss(q, p) == [kind |-> "sl", qty |-> q, tp |-> 0, sl |-> p]
Oco(q, tp, sl) == [kind |-> "oco", qty |-> q, tp |-> tp, sl |-> sl]

StopCover == locked["sl"] + locked["oco"]
SlLegs(b) == {i \in DOMAIN b : HasSl(b[i])}
FloorStep(q) == (q \div Step) * Step
=============================================================================
