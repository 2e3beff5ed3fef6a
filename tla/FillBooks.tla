----------------------------- MODULE FillBooks ------------------------------
(***************************************************************************)
(* How the sells of one symbol get into the books.                          *)
(*                                                                          *)
(* The exchange fills resting orders at any time; nobody is told.  Each     *)
(* scan compares the ledger with the account and books what is missing      *)
(* (src/portfolio_reconciler.py): first up to the gap between the two       *)
(* (reconcile_portfolio_drift), then order by order against the event log   *)
(* (reconcile_exchange_fills).  A sale the bot makes itself is either left  *)
(* to the reconciler (execute_exit) or booked by its seller                 *)
(* (PortfolioManager.close_position), which may know it under the client's  *)
(* order id.  The control panel sells and reconciles in a process of its    *)
(* own and takes no lock.                                                   *)
(*                                                                          *)
(* Books: the trades table, unique in its order key (trade_add), and the    *)
(* event log of src/ledger.py with the shadow position computed from it.    *)
(* An order is named by its place in the exchange's trade history.  The     *)
(* 24h the reconciler looks back are longer than a behaviour; prices appear *)
(* as the sign of a sale's profit.                                          *)
(***************************************************************************)
EXTENDS Integers, Sequences, FiniteSets, Functions, FiniteSetsExt, SequencesExt

CONSTANTS Legs,      \* quantities of the exit orders a position gets
          Stops,     \* those of them that sell at a loss
          Part,      \* what a leg may sell before its rest
          MaxBuys,   \* positions in a behaviour
          MaxTroubles  \* in a behaviour: legs that sell in parts, sales by the
                       \* panel, failed reads, dying processes

ASSUME BooksAssumption ==
    /\ Stops \subseteq DOMAIN Legs
    /\ Legs \in Seq(Nat \ {0}) /\ Legs # <<>>
    /\ Part \in Nat \ {0}
    /\ MaxBuys \in Nat /\ MaxTroubles \in Nat

VARIABLES held,    \* base asset in the account
          legs,    \* resting exit orders: quantity left, place in `sold`
          sold,    \* SELL orders with fills; old: before the latest BUY row
          bought,  \* quantity of the BUY rows in trades
          sells,   \* SELL rows in trades
          row,     \* quantity of the portfolio row, 0: none
          snap,    \* the symbol is in the snapshot of the last round
          events,  \* orders with a SELL event in the log, and their key
          shadow,  \* net quantity of the shadow position
          cool,    \* orders whose loss stamped the re-entry cooldown
          bot,     \* process -> what it is doing
          buys, troubles,
          seen     \* history: see Properties

exchange == <<held, legs, sold>>
ledger == <<bought, sells>>
log == <<events, shadow>>
vars == <<exchange, ledger, row, snap, log, cool, bot, buys, troubles, seen>>

Procs == {"scan", "panel"}
Keys == {"order", "client"}
Work == {"drift", "backfill", "full", "close"}
Rest == [at |-> "rest", work |-> "drift", ex |-> 0, gap |-> 0, cap |-> 0, pre |-> FALSE,
         pass |-> 1, todo |-> {}, fills |-> <<>>, order |-> 0, key |-> "order",
         qty |-> 0, main |-> FALSE]

Size == SumFunction(Legs)
NoLegs == [l \in DOMAIN Legs |-> [left |-> 0, order |-> 0]]
Orders == DOMAIN sold
SoldQty(o) == sold[o].old + sold[o].new
AllSold == SumFunction([o \in Orders |-> SoldQty(o)])
AllBooked == SumFunction([s \in sells |-> s.qty])

\* trades_net_qty
Net == bought - AllBooked

\* trades_order_booked: no client key ends in an order id.
Booked(o) == \E s \in sells : s.order = o /\ s.key = "order"

At(me, a) == bot[me].at = a
Go(me, a) == bot' = [bot EXCEPT ![me].at = a]
Trouble == troubles < MaxTroubles /\ troubles' = troubles + 1
Calm == UNCHANGED <<troubles, seen>>

-----------------------------------------------------------------------------
(* The exchange                                                             *)

\* A resting leg sells a part of itself, or what is left of it.
LegFills(l) ==
    \E q \in {Part, legs[l].left} :
        LET o == legs[l].order
            fill == [old |-> 0, new |-> q, loss |-> l \in Stops]
            listed(p) == bot[p].order = o \/ o \in DOMAIN bot[p].fills
        IN  /\ 0 < q /\ q <= legs[l].left
            /\ sold' = IF o = 0 THEN Append(sold, fill) ELSE [sold EXCEPT ![o].new = @ + q]
            /\ legs' = [legs EXCEPT ![l] = [left |-> @.left - q,
                                            order |-> IF o = 0 THEN Len(sold) + 1 ELSE o]]
            /\ held' = held - q
            /\ seen' = [seen EXCEPT !.calm = 0,
                                    !.torn = @ \/ (o # 0 /\ (Booked(o) \/ sold[o].old > 0 \/ \E p \in Procs : listed(p)))]
            /\ IF q < legs[l].left THEN Trouble ELSE UNCHANGED troubles
            /\ UNCHANGED <<ledger, row, snap, log, cool, bot, buys>>

\* cancel_all_orders or _cancel_sell_legs, and a market sale of the rest, here
\* at a loss.
SellAll ==
    /\ held > 0
    /\ legs' = NoLegs
    /\ sold' = Append(sold, [old |-> 0, new |-> held, loss |-> TRUE])
    /\ held' = 0

-----------------------------------------------------------------------------
(* record_fill                                                              *)

\* What follows once an order is dealt with; `counted` when it closed a gap.
Next1(b, counted) ==
    IF b.work = "close" THEN [Rest EXCEPT !.at = "ready"]
    ELSE LET d == [b EXCEPT !.todo = @ \ {b.order}, !.order = 0, !.qty = 0]
         IN  IF b.work = "drift"
               THEN [d EXCEPT !.at = "leg", !.gap = @ - b.qty, !.cap = IF counted THEN @ - b.qty ELSE @]
               ELSE [d EXCEPT !.at = IF counted THEN "fix" ELSE "order"]

\* Is the order in the log?  Read outside the transaction that appends to it.
CheckEvent(me) ==
    /\ At(me, "event")
    /\ LET b == bot[me]
       IN  bot' = [bot EXCEPT ![me] = IF <<b.order, b.key>> \in events
                                        THEN Next1(b, b.work # "backfill")
                                        ELSE [b EXCEPT !.at = "append"]]
    /\ UNCHANGED <<exchange, ledger, row, snap, log, cool, buys>> /\ Calm

\* Mutants of AppendEvent: without the shadow position; below nothing.
AppendEventOnly(me) ==
    /\ At(me, "append")
    /\ LET b == bot[me]
       IN  /\ events' = events \cup {<<b.order, b.key>>}
           /\ bot' = [bot EXCEPT ![me] = Next1(b, TRUE)]
    /\ UNCHANGED <<exchange, ledger, row, snap, shadow, cool, buys>> /\ Calm

AppendEventShort(me) ==
    /\ At(me, "append")
    /\ LET b == bot[me]
       IN  /\ events' = events \cup {<<b.order, b.key>>}
           /\ shadow' = shadow - b.qty
           /\ bot' = [bot EXCEPT ![me] = Next1(b, TRUE)]
    /\ UNCHANGED <<exchange, ledger, row, snap, cool, buys>> /\ Calm

\* _apply_shadow: event and shadow position in one transaction.  A shadow
\* position sold out, or never opened, is gone.
AppendEvent(me) ==
    /\ At(me, "append")
    /\ LET b == bot[me]
       IN  /\ events' = events \cup {<<b.order, b.key>>}
           /\ shadow' = Max({0, shadow - b.qty})
           /\ bot' = [bot EXCEPT ![me] = Next1(b, TRUE)]
    /\ UNCHANGED <<exchange, ledger, row, snap, cool, buys>> /\ Calm

-----------------------------------------------------------------------------
(* _book_sell_legs                                                          *)

\* An order fits the gap with 5% to spare; a larger one belongs to others.
FitsAny(q, gap) == gap > 0  \* a mutant: no order is too large
Fits(q, gap) == 100 * q <= 105 * gap

\* trade_add inserts the row or ignores it; only an insert goes on.
AddTrade(me) ==
    /\ At(me, "add")
    /\ LET b == bot[me]
       IN  \/ /\ ~Booked(b.order)
              /\ sells' = sells \cup {[order |-> b.order, key |-> "order", qty |-> b.qty]}
              /\ Go(me, "note")
           \/ /\ Booked(b.order)
              /\ bot' = [bot EXCEPT ![me] = Next1(b, FALSE)]
              /\ UNCHANGED sells
    /\ UNCHANGED <<exchange, bought, row, snap, log, cool, buys>> /\ Calm

\* Mutant of NoteLoss: a loss stamps nothing.
NoteNothing(me) ==
    /\ At(me, "note")
    /\ Go(me, IF bot[me].work = "close" THEN "drop" ELSE "event")
    /\ UNCHANGED <<exchange, ledger, row, snap, log, cool, buys>> /\ Calm

\* note_loss_exit: a losing sale starts the re-entry cooldown.
NoteLoss(me) ==
    /\ At(me, "note")
    /\ cool' = IF sold[bot[me].order].loss THEN cool \cup {bot[me].order} ELSE cool
    /\ Go(me, IF bot[me].work = "close" THEN "drop" ELSE "event")
    /\ UNCHANGED <<exchange, ledger, row, snap, log, buys>> /\ Calm

-----------------------------------------------------------------------------
(* reconcile_portfolio_drift                                                *)

Significant(gap, ex) == gap > 0 /\ 50 * gap > ex

\* The account is read and the ledger compared with it: a symbol with a row
\* (main axis), one that had a row last round and is flat (path B), or one the
\* ledger still holds (path C).  Path B leaves sales before the BUY row alone.
Compare(me) ==
    /\ At(me, "ready") /\ me = "scan"
    /\ LET gap == Net - held
           main == row > 0 /\ Significant(gap, held)
           pathB == row = 0 /\ snap /\ held = 0 /\ Net > 0
           pathC == ~main /\ ~pathB /\ Net > 0 /\ Significant(gap, held)
       IN  /\ bot' = [bot EXCEPT ![me] = [Rest EXCEPT
                        !.at = IF main \/ pathB \/ pathC THEN "fetch" ELSE "trim",
                        !.ex = held, !.gap = gap, !.cap = gap,
                        !.main = main, !.pre = main \/ pathC]]
           /\ seen' = [seen EXCEPT !.calm = IF bot["panel"] = Rest THEN Min({@ + 1, 2}) ELSE 0]
    /\ UNCHANGED <<exchange, ledger, row, snap, log, cool, buys, troubles>>

Newer(fills) == {o \in DOMAIN fills : fills[o].new > 0}
Older(fills) == {o \in DOMAIN fills : fills[o].old > 0}

Unbooked == [o \in Orders |-> IF Booked(o) THEN [sold[o] EXCEPT !.old = 0, !.new = 0] ELSE sold[o]]

\* get_my_trades; those after the latest BUY row come first, each in order of
\* time.
Fetch(me) ==
    /\ At(me, "fetch")
    /\ LET fills == Unbooked
       IN  bot' = [bot EXCEPT ![me].at = "leg", ![me].fills = fills, ![me].todo = Newer(fills)]
    /\ UNCHANGED <<exchange, ledger, row, snap, log, cool, buys>> /\ Calm

Qty(b, o) == IF b.pass = 1 THEN b.fills[o].new ELSE b.fills[o].old

\* Mutant of NextPass: sales before the BUY row are never booked.
NextPassOnly(b) == [b EXCEPT !.at = "trim", !.todo = {}, !.fills = <<>>]

\* After the last order of a pass: if a gap remains and the path allows it, the
\* sales before the BUY row.
NextPass(b) ==
    IF b.pass = 1 /\ b.pre /\ b.cap > 0
      THEN [b EXCEPT !.pass = 2, !.gap = b.cap, !.todo = Older(b.fills)]
      ELSE [b EXCEPT !.at = "trim", !.todo = {}, !.fills = <<>>]

\* The next order in time that is not booked and fits the gap, until that is
\* closed.  An order passed over stays so: the gap only shrinks.
NextLeg(me) ==
    /\ At(me, "leg")
    /\ LET b == bot[me]
           todo == {o \in b.todo : ~Booked(o) /\ Fits(Qty(b, o), b.gap)}
       IN  bot' = [bot EXCEPT ![me] =
             IF todo = {} \/ b.gap <= 0 THEN NextPass(b)
             ELSE [b EXCEPT !.at = "add", !.order = Min(todo), !.qty = Qty(b, Min(todo)),
                            !.todo = todo]]
    /\ UNCHANGED <<exchange, ledger, row, snap, log, cool, buys>> /\ Calm

\* The row follows the account as it was read.
Trimmed(r, ex) == IF r > 0 /\ Significant(IF r > ex THEN r - ex ELSE ex - r, ex) THEN ex ELSE r

\* ... and whether there is a row is what the next round's path B looks at.
Trim(me) ==
    /\ At(me, "trim")
    /\ row' = IF bot[me].main THEN Trimmed(row, bot[me].ex) ELSE row
    /\ snap' = (row' > 0)
    /\ bot' = [bot EXCEPT ![me] = [Rest EXCEPT !.at = "fills"]]
    /\ UNCHANGED <<exchange, ledger, log, cool, buys>> /\ Calm

-----------------------------------------------------------------------------
(* reconcile_exchange_fills                                                 *)

\* The orders whose id the event log does not have.
FetchFills(me) ==
    /\ At(me, "fills")
    /\ bot' = [bot EXCEPT ![me] = [Rest EXCEPT
                  !.at = "order", !.work = "full", !.ex = held, !.fills = sold,
                  !.todo = {o \in Orders : <<o, "order">> \notin events}]]
    /\ UNCHANGED <<exchange, ledger, row, snap, log, cool, buys>> /\ Calm

\* A sale before the latest BUY row is left alone; one in trades gets its event
\* (ENA mode); any other goes the whole way, if the ledger still holds it.
LeftAlone(b, o) ==
    \/ sold[o].old > 0
    \/ ~Booked(o) /\ (Net <= 0 \/ ~Fits(b.fills[o].new, Net))

NextOrder(me) ==
    /\ At(me, "order") /\ bot[me].todo # {}
    /\ LET b == bot[me]
           todo == {o \in b.todo : ~LeftAlone(b, o)}
           o == Min(todo)
       IN  bot' = [bot EXCEPT ![me] =
             IF todo = {} THEN [b EXCEPT !.todo = {}]
             ELSE [b EXCEPT !.order = o, !.qty = b.fills[o].new, !.todo = {p \in @ : p >= o},
                            !.work = IF Booked(o) THEN "backfill" ELSE "full",
                            !.at = IF Booked(o) THEN "event" ELSE "add"]]
    /\ UNCHANGED <<exchange, ledger, row, snap, log, cool, buys>> /\ Calm

FixRow(me) ==
    /\ At(me, "fix")
    /\ row' = Trimmed(row, bot[me].ex)
    /\ Go(me, "order")
    /\ UNCHANGED <<exchange, ledger, snap, log, cool, buys>> /\ Calm

FillsDone(me) ==
    /\ At(me, "order") /\ bot[me].todo = {}
    /\ bot' = [bot EXCEPT ![me] = Rest]
    /\ UNCHANGED <<exchange, ledger, row, snap, log, cool, buys>> /\ Calm

-----------------------------------------------------------------------------
(* Whoever trades                                                           *)

\* Step 0 of a scan: the row takes the account's quantity.
Sync ==
    /\ At("scan", "rest")
    /\ row' = held
    /\ Go("scan", "ready")
    /\ seen' = [seen EXCEPT !.overlap = @ \/ bot["panel"] # Rest]
    /\ UNCHANGED <<exchange, ledger, snap, log, cool, buys, troubles>>

\* An entry: bought and given its exit orders ...
Buy ==
    /\ At("scan", "ready") /\ row = 0 /\ held = 0 /\ buys < MaxBuys
    /\ held' = Size
    /\ legs' = [l \in DOMAIN Legs |-> [left |-> Legs[l], order |-> 0]]
    /\ buys' = buys + 1
    /\ Go("scan", "bought")
    /\ UNCHANGED <<sold, ledger, row, snap, log, cool>> /\ Calm

\* ... recorded (add_position): sales until now are older than the BUY row ...
RecordBuy ==
    /\ At("scan", "bought")
    /\ bought' = bought + Size
    /\ sold' = [o \in Orders |-> [sold[o] EXCEPT !.old = @ + sold[o].new, !.new = 0]]
    /\ row' = Size
    /\ Go("scan", "boughtRow")
    /\ UNCHANGED <<held, legs, sells, snap, log, cool, buys>> /\ Calm

\* ... and logged.
LogBuy ==
    /\ At("scan", "boughtRow")
    /\ shadow' = shadow + Size
    /\ Go("scan", "ready")
    /\ UNCHANGED <<exchange, ledger, row, snap, events, cool, buys>> /\ Calm

\* An exit (execute_exit) sells and leaves the booking to the reconciler.
Exit(me) ==
    /\ IF me = "scan" THEN At(me, "ready") /\ UNCHANGED troubles
                      ELSE At(me, "rest") /\ ~seen.panel /\ Trouble
    /\ row > 0
    /\ SellAll
    /\ Go(me, "fills")
    /\ seen' = [seen EXCEPT !.calm = 0, !.panel = @ \/ me = "panel",
                            !.overlap = @ \/ (me = "panel" /\ bot["scan"] # Rest)]
    /\ UNCHANGED <<ledger, row, snap, log, cool, buys>>

\* Mutant of Close: it books what the ledger still holds, not the row.
CloseNet(key) ==
    /\ At("scan", "ready") /\ row > 0
    /\ SellAll
    /\ bot' = [bot EXCEPT !["scan"] = [Rest EXCEPT !.at = "close", !.work = "close",
                  !.order = Len(sold'), !.key = key, !.qty = Max({0, Net})]]
    /\ seen' = [seen EXCEPT !.calm = 0, !.torn = @ \/ row # held]
    /\ UNCHANGED <<ledger, row, snap, log, cool, buys, troubles>>

\* A sale whose seller books it: a switch under the order id, the circuit
\* tiers and the dust reaper under the client's.
Close(key) ==
    /\ At("scan", "ready") /\ row > 0
    /\ SellAll
    /\ bot' = [bot EXCEPT !["scan"] = [Rest EXCEPT !.at = "close", !.work = "close",
                  !.order = Len(sold'), !.key = key, !.qty = row]]
    /\ seen' = [seen EXCEPT !.calm = 0, !.torn = @ \/ row # held]
    /\ UNCHANGED <<ledger, row, snap, log, cool, buys, troubles>>

\* close_position: the row it read, whatever was sold; the answer of trade_add
\* is not looked at.
CloseTrade ==
    /\ At("scan", "close")
    /\ LET b == bot["scan"]
           known == \E s \in sells : s.order = b.order /\ s.key = b.key
       IN  sells' = IF known THEN sells
                    ELSE sells \cup {[order |-> b.order, key |-> b.key, qty |-> b.qty]}
    /\ Go("scan", "note")
    /\ UNCHANGED <<exchange, bought, row, snap, log, cool, buys>> /\ Calm

CloseRow ==
    /\ At("scan", "drop")
    /\ row' = 0
    /\ Go("scan", "event")
    /\ UNCHANGED <<exchange, ledger, snap, log, cool, buys>> /\ Calm

-----------------------------------------------------------------------------
(* Failures                                                                 *)

\* get_account or get_my_trades fails: the step is left out.
Unreadable(me) ==
    /\ bot[me].at \in {"ready", "fetch", "fills"} /\ Trouble
    /\ bot' = [bot EXCEPT ![me] = IF bot[me].at = "fetch" THEN [bot[me] EXCEPT !.at = "trim", !.main = FALSE]
                                  ELSE IF bot[me].at = "ready" THEN [Rest EXCEPT !.at = "fills"]
                                  ELSE Rest]
    /\ seen' = [seen EXCEPT !.calm = 0]
    /\ UNCHANGED <<exchange, ledger, row, snap, log, cool, buys>>

\* The process dies; what it had not written is lost.
Dies(me) ==
    /\ bot[me] # Rest /\ Trouble
    /\ bot' = [bot EXCEPT ![me] = Rest]
    /\ seen' = [seen EXCEPT !.calm = 0, !.died = @ \cup {bot[me].at}]
    /\ UNCHANGED <<exchange, ledger, row, snap, log, cool, buys>>

-----------------------------------------------------------------------------
(* The specification                                                        *)

Init ==
    /\ held = 0 /\ legs = NoLegs /\ sold = <<>>
    /\ bought = 0 /\ sells = {} /\ row = 0 /\ snap = FALSE
    /\ events = {} /\ shadow = 0
    /\ cool = {}
    /\ bot = [p \in Procs |-> Rest]
    /\ buys = 0 /\ troubles = 0
    /\ seen = [calm |-> 0, torn |-> FALSE, panel |-> FALSE, overlap |-> FALSE, died |-> {}]

Step(me) ==
    \/ CheckEvent(me) \/ AppendEvent(me) \/ AddTrade(me) \/ NoteLoss(me)
    \/ Compare(me) \/ Fetch(me) \/ NextLeg(me) \/ Trim(me) \/ FetchFills(me) \/ NextOrder(me) \/ FixRow(me) \/ FillsDone(me)

Scan ==
    \/ Step("scan") \/ Sync \/ Buy \/ RecordBuy \/ LogBuy
    \/ Close("order") \/ Close("client") \/ CloseTrade \/ CloseRow

Panel == Step("panel")

Market == \E l \in DOMAIN Legs : LegFills(l)

Next == Scan \/ Panel \/ Exit("scan") \/ Exit("panel") \/ Market
        \/ \E p \in Procs : Unreadable(p) \/ Dies(p)

Spec == Init /\ [][Next]_vars

-----------------------------------------------------------------------------
(* Properties                                                               *)
(*                                                                          *)
(* The history `seen`: undisturbed rounds since the last sale or trouble    *)
(* (calm); an order was, or may now be, booked at another quantity than it  *)
(* sells: it filled on after its fills were read, it began before the BUY   *)
(* row and ended after it, or the seller's row was out of date (torn); the  *)
(* panel sold (panel), while a scan ran (overlap); where a process died.    *)
(****************************************************************************)

Fill == [old : Nat, new : Nat, loss : BOOLEAN]
Sale == [order : Nat \ {0}, key : Keys, qty : Nat]

\* The state of the exchange, of the books and of the processes has the shape
\* the code gives it; no holding, row or shadow position is below zero.
TypeOK ==
    /\ held \in Nat /\ row \in Nat /\ bought \in Nat /\ shadow \in Nat
    /\ sold \in Seq(Fill)
    /\ legs \in [DOMAIN Legs -> [left : Nat, order : 0 .. Len(sold)]]
    /\ \A s \in sells : s \in Sale
    /\ cool \subseteq Orders /\ events \subseteq Orders \X Keys
    /\ \A p \in Procs : DOMAIN bot[p] = DOMAIN Rest /\ bot[p].work \in Work

\* A sale its seller booked under the client's order id was booked again under
\* the exchange's; no order has been torn, and none booked twice.
Twice == \E s, t \in sells : s.order = t.order /\ s.key # t.key
Proper == ~seen.torn /\ ~Twice

\* Every order is in the ledger at the quantity it sold, and the rows together
\* have no more than was sold.
BookedAsSold ==
    /\ ~seen.torn => \A s \in sells : s.qty = SoldQty(s.order)
    /\ Proper => AllBooked <= AllSold

\* An order larger than the gap it is to close belongs to others: no booking of
\* the reconciler takes the ledger further below the account it read, or below
\* nothing, than 5% of the order.  Not when two readers of one gap each close it.
StopsAtTheGap ==
    ~seen.overlap =>
        \A p \in Procs : At(p, "note") /\ bot[p].work # "close" =>
            100 * ((IF bot[p].work = "drift" THEN bot[p].ex ELSE 0) - Net) <= 5 * bot[p].qty

\* Nothing is booked beyond what was sold, and no booking beyond the gap it is to
\* close: whichever paths book, in whatever order the scan and the panel take
\* their steps, whoever dies.
NeverOverbooked == BookedAsSold /\ StopsAtTheGap

\* No losing sale gets into the ledger without stamping the re-entry cooldown,
\* whichever of the three booking paths takes it, if nobody dies in between.
LossNoted ==
    seen.died = {} =>
        \A s \in sells : sold[s.order].loss =>
            s.order \in cool \/ \E p \in Procs : At(p, "note") /\ bot[p].order = s.order

RoundOver == At("scan", "order") /\ bot["scan"].todo = {}

\* Two undisturbed rounds book every sale, up to a gap the code calls
\* insignificant: also one older than the latest BUY row, one whose row is gone,
\* and after a failed read or a death at any point but between a purchase and its
\* BUY row.
RoundBooks ==
    RoundOver /\ seen.calm = 2 /\ Proper /\ "bought" \notin seen.died
        => ~Significant(Net - held, held)

\* The shadow position computed from the event log agrees with the trades table
\* at the end of a round, unless a process died or the panel's sale overlapped a
\* scan.
ShadowFollows ==
    RoundOver /\ seen.died = {} /\ ~seen.overlap /\ Proper => shadow = Net
=============================================================================
