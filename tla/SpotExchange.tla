---------------------------- MODULE SpotExchange ----------------------------
(***************************************************************************)
(* One spot symbol at the exchange, as the trading code sees it: the last   *)
(* price, the free balance of the base asset and the resting SELL orders.   *)
(*                                                                          *)
(* Nothing here is code of the repository.  It is the part of the exchange  *)
(* that src/_binance_sdk_client.py talks to, with exactly the rules the     *)
(* protection code relies on and names in its comments: a resting SELL      *)
(* locks its base quantity (-2010 otherwise), a stop must lie below the     *)
(* market, the percent-price band refuses stops too far below it (-1013), *)
(* a limit SELL at or below the market executes at once, an OCO locks its   *)
(* quantity once and lists two member orders.                               *)
(*                                                                          *)
(* Quantities are in units of which Step make one lot (stepSize), prices    *)
(* are in ticks.                                                            *)
(***************************************************************************)
EXTENDS Integers, FiniteSets

CONSTANTS OrderIds,     \* order numbers the exchange may hand out
          Prices,       \* prices the market may trade at
          Step,         \* units per lot
          MinQty,       \* smallest order, in units
          MinNotional,  \* smallest order value, in ticks * units
          BandPct       \* a stop below this percentage of the price is refused

ASSUME ExchangeAssumption ==
    /\ OrderIds \subseteq Nat
    /\ Prices \subseteq Nat \ {0}
    /\ Step \in Nat \ {0}
    /\ MinQty \in Nat /\ Step <= MinQty
    /\ MinNotional \in Nat
    /\ BandPct \in Nat
    /\ \A p \in Prices : (Step - 1) * p < MinNotional   \* less than a lot is dust

VARIABLES price,   \* the last traded price
          free,    \* free balance of the base asset
          locked,  \* quantity behind resting orders, per kind of leg
          book     \* order number -> resting leg

exchange == <<price, free, locked, book>>

Kinds == {"tp", "sl", "oco"}

\* A protective SELL: a plain take-profit, a plain stop, or both as one OCO
\* list.  The price a kind does not have is 0.
Leg == [kind : Kinds, qty : Nat \ {0}, tp : Nat, sl : Nat]

HasTp(l) == l.kind # "sl"
HasSl(l) == l.kind # "tp"

\* The market has reached the leg's limit or its stop.
Reached(l) == \/ HasTp(l) /\ price >= l.tp
              \/ HasSl(l) /\ price <= l.sl

\* The matching engine serves the book before it serves a new request.
Settled == \A i \in DOMAIN book : ~Reached(book[i])

\* The value the notional filter judges: the lower leg for an OCO.
Notional(l) == l.qty * (IF HasSl(l) THEN l.sl ELSE l.tp)

\* The filters a new SELL passes; every violation is a business rejection.
Placeable(l) ==
    /\ l \in Leg
    /\ l.qty >= MinQty
    /\ l.qty <= free
    /\ Notional(l) >= MinNotional
    /\ HasSl(l) => l.sl < price /\ 100 * l.sl >= BandPct * price
    /\ l.kind = "oco" => price < l.tp

\* The next order number, never one in the set `taken`.
Fresh(taken) == {i \in OrderIds \ taken : \A j \in OrderIds \ taken : i <= j}

\* A placeable leg comes to rest and locks its quantity.
Rest(l, i) ==
    /\ book' = [j \in DOMAIN book \cup {i} |-> IF j = i THEN l ELSE book[j]]
    /\ free' = free - l.qty
    /\ locked' = [locked EXCEPT ![l.kind] = @ + l.qty]
    /\ UNCHANGED price

\* A plain limit SELL the market has run past is sold at once.
Execute(l) ==
    /\ free' = free - l.qty
    /\ UNCHANGED <<price, locked, book>>

Marketable(l) == l.kind = "tp" /\ l.tp <= price

Join(l, taken) ==
    \/ Marketable(l) /\ Execute(l)
    \/ ~Marketable(l) /\ \E i \in Fresh(DOMAIN book \cup taken) : Rest(l, i)

Enter(l, taken) == Placeable(l) /\ Join(l, taken)

Remove(i) == book' = [j \in DOMAIN book \ {i} |-> book[j]]

\* Order i is cancelled: its quantity is free again.
Cancel(i) ==
    /\ i \in DOMAIN book
    /\ Remove(i)
    /\ free' = free + book[i].qty
    /\ locked' = [locked EXCEPT ![book[i].kind] = @ - book[i].qty]
    /\ UNCHANGED price

\* The market reaches order i: its quantity is sold.
Fill(i) ==
    /\ i \in DOMAIN book
    /\ Reached(book[i])
    /\ Remove(i)
    /\ locked' = [locked EXCEPT ![book[i].kind] = @ - book[i].qty]
    /\ UNCHANGED <<price, free>>

MoveTo(p) ==
    /\ Settled
    /\ p # price
    /\ price' = p
    /\ UNCHANGED <<free, locked, book>>

\* Base asset held, free and locked together.
Held == free + locked["tp"] + locked["sl"] + locked["oco"]
=============================================================================
