--------------------------- MODULE TrailingCheck ----------------------------
(***************************************************************************)
(* The trailing check, src/cmd_trailing_check.py, for one held asset: bank  *)
(* a filled take-profit and lift the stop, trail the stop behind the        *)
(* highest price (TrailingStop of src/risk_manager.py), and give uncovered  *)
(* units a stop.  Every request to the exchange is an action; quantities    *)
(* come from the account snapshot taken at the start.                       *)
(***************************************************************************)
EXTENDS PositionState

CONSTANT Tier1Px   \* price of the first take-profit

ASSUME TrailAssumption == Tier1Px \in Nat

VARIABLES check,  \* the run in progress: its step, snapshot and targets
          ts      \* trailing_stop row of the symbol, or NoTrack

trailing == <<check, ts>>

NoTrack == [high |-> 0, sl |-> 0, on |-> FALSE]
NoCheck == [at |-> "rest", free |-> 0, total |-> 0, px |-> 0, old |-> 0,
            tp |-> 0, q |-> 0, todo |-> {}, tries |-> 1]

AtCheck(a) == check.at = a
ToStep(a) == check' = [check EXCEPT !.at = a, !.tries = 1]

\* A placement of leg l with `limit` attempts, `then` after it stands and
\* `else` after the last refusal.
Attempt(l, limit, then, else) ==
    \E ok \in BOOLEAN :
        /\ Send(l, ok)
        /\ IF ok THEN ToStep(then)
           ELSE IF check.tries < limit THEN check' = [check EXCEPT !.tries = @ + 1]
           ELSE ToStep(else)

\* The smallest order a stop must clear, with the margins of the code.
TooSmall(q, p) == 985 * q * p < 1020 * MinNotional
Below30(q, p) == q * p < 6 * MinNotional

-----------------------------------------------------------------------------
(* Snapshot and filled take-profits                                         *)

\* get_account; with nothing held the tracks and trackers are cleaned.
Snapshot ==
    /\ AtCheck("rest") /\ Settled
    /\ \/ /\ Held > 0
          /\ check' = [NoCheck EXCEPT !.at = "fills", !.free = free, !.total = Held]
          /\ UNCHANGED <<ts, tracker>>
       \/ /\ Held = 0 /\ ts' = NoTrack /\ tracker' = NoTracker
          /\ UNCHANGED check
    /\ UNCHANGED <<market, row, banked, life>>

\* The stop a filled tier asks for; tier 2 exists in strategy C only.
LiftTo(tr) ==
    LET tiers == {o.tier : o \in {x \in tr.tps : x.id \in tr.done}}
    IN  IF 2 \in tiers /\ tr.moved < 2 THEN Tier1Px
        ELSE IF 1 \in tiers /\ tr.moved < 1 THEN (10025 * Entry) \div 10000
        ELSE 0

\* _check_tp_fills up to the cancel: tracked orders that are gone and whose
\* trade is found are done, and the first tier is banked.  The trades are read
\* once for every order, and a read that failed shows none.
SeeFills(found) ==
    /\ AtCheck("fills")
    /\ \E legs \in {book, NoOrders}, unread \in SUBSET found, priced \in BOOLEAN :
         LET gone == {o.id : o \in tracker.tps} \cap (found \ (DOMAIN legs \cup tracker.done))
             new == gone \ unread
             tr == [tracker EXCEPT !.done = @ \cup new]
             first == \E o \in tracker.tps : o.tier = 1 /\ o.id \in new
         IN  /\ IF legs = book /\ unread = {} /\ priced THEN NoFault ELSE Fault
             /\ legs # book => DOMAIN book # {}
             /\ unread \subseteq gone
             /\ tracker' = tr
             /\ banked' = IF first THEN life ELSE banked
             /\ IF new # {} /\ priced /\ LiftTo(tr) > 0 /\ LiftTo(tr) < price
                  THEN check' = [check EXCEPT !.at = "lift", !.px = LiftTo(tr)]
                  ELSE ToStep("trail")
    /\ UNCHANGED <<exchange, issued, unbooked, moves, row, life, ts>>

\* The old stop is cancelled, whatever the answer.
LiftCancel ==
    /\ AtCheck("lift")
    /\ \/ tracker.sl # 0 /\ \E ok \in BOOLEAN : CancelOrder(tracker.sl, ok)
       \/ tracker.sl = 0 /\ UNCHANGED <<exchange, issued, unbooked, faults>>
    /\ ToStep("liftSize")
    /\ UNCHANGED <<books, moves, ts>>

\* Everything free goes behind the new stop, if that is worth an order.
LiftSize ==
    /\ AtCheck("liftSize") /\ Settled
    /\ \E seen \in {free, 0} :
         /\ SeenFree(seen)
         /\ IF seen > 0 /\ ~TooSmall(seen, check.px)
              THEN check' = [check EXCEPT !.at = "liftPlace", !.q = FloorStep(seen)]
              ELSE ToStep("trail")
    /\ UNCHANGED <<exchange, issued, unbooked, moves, books, ts>>

LiftPlace ==
    /\ AtCheck("liftPlace")
    /\ Attempt(StopLoss(check.q, check.px), 2, "trail", "trail")
    /\ tracker' = IF check'.at = "trail" /\ issued' # issued /\ faults' = faults
                    THEN [tracker EXCEPT !.sl = issued',
                            !.moved = Max({o.tier : o \in {x \in tracker.tps :
                                                            x.id \in tracker.done}})]
                    ELSE tracker
    /\ UNCHANGED <<row, banked, life, moves, ts>>

-----------------------------------------------------------------------------
(* The trailing stop                                                        *)

\* calculate_trailing_sl: the wide band from 7.5% of profit, below it 2% or
\* 2.5% behind the high, never below entry + 0.5%; under 1% the stop it has.
Adaptive(t, p) ==
    LET gain == 1000 * (p - Entry)
        keep == IF gain >= 75 * Entry THEN 1000 - 10 * Width
                ELSE IF gain >= 30 * Entry THEN 980 ELSE 975
    IN  IF gain < 10 * Entry THEN t.sl
        ELSE Max({(1005 * Entry) \div 1000, (keep * t.high) \div 1000})

\* TrailingStop.update: the track after price p.  The switch into the wide
\* band may lower the stop once; a reloaded track has forgotten the switch.
Trailed(t, p) ==
    LET s == [t EXCEPT !.high = Max({@, p})]
    IN  IF t.on
          THEN [s EXCEPT !.sl = IF 1000 * (p - Entry) >= 75 * Entry
                                  THEN Adaptive(s, p) ELSE Max({@, Adaptive(s, p)})]
        ELSE IF p - Entry >= Atr THEN [s EXCEPT !.sl = s.high - Atr, !.on = TRUE]
        ELSE s

\* Positions below $30 are not trailed, nor are those without price data.
\* A track that was on and whose stop is reached triggers.
Trail ==
    /\ AtCheck("trail")
    /\ \/ /\ Below30(check.total, price) /\ NoFault
          /\ ToStep("cover") /\ UNCHANGED ts
       \/ /\ ~Below30(check.total, price) /\ Fault
          /\ ToStep("cover") /\ UNCHANGED ts
       \/ /\ ~Below30(check.total, price) /\ NoFault
          /\ ts' = Trailed(ts, price)
          /\ IF ts.on /\ price <= ts'.sl THEN ToStep("close")
             ELSE IF ts'.on
               THEN check' = [check EXCEPT !.at = "move", !.px = ts'.sl]
               ELSE ToStep("cover")
    /\ UNCHANGED <<exchange, issued, unbooked, moves, books>>

\* Triggered: cancel_all_orders ...
Close ==
    /\ AtCheck("close")
    /\ \E ok \in BOOLEAN :
         Answer(TRUE,
                /\ book' = NoOrders
                /\ free' = free + SumFunction(locked)
                /\ locked' = [k \in Kinds |-> 0]
                /\ UNCHANGED <<price, issued, unbooked>>,
                ok)
    /\ ToStep("sell")
    /\ UNCHANGED <<books, moves, ts>>

\* ... and sell what the snapshot showed as free; None counts as sold.
SellSnapshot ==
    /\ AtCheck("sell")
    /\ \/ /\ FloorStep(check.free) > 0
          /\ \E ok \in BOOLEAN : SellNow(FloorStep(check.free), ok)
       \/ /\ FloorStep(check.free) = 0
          /\ UNCHANGED <<exchange, issued, unbooked, faults>>
    /\ ts' = NoTrack
    /\ ToStep("cover")
    /\ UNCHANGED <<books, moves>>

Highest(b) == Max({b[i].sl : i \in SlLegs(b)})

\* The stops listed, as one: they are replaced if the new stop lies more than
\* 0.1% above the highest of them; without any, the free units get one.
FindStops ==
    /\ AtCheck("move")
    /\ \E legs \in {book, NoOrders} :
         LET sl == SlLegs(legs)
             qty == SumFunction([i \in sl |-> legs[i].qty])
             oco == {i \in sl : legs[i].kind = "oco"}
         IN  /\ Listed(legs)
             /\ check' =
                  IF sl # {} /\ 1000 * check.px > 1001 * Highest(legs)
                  THEN [check EXCEPT !.at = "moveCancel", !.todo = sl,
                                     !.q = Min({qty, check.total}),
                                     !.old = Highest(legs),
                                     !.tp = IF oco = {} THEN 0 ELSE Max({legs[i].tp : i \in oco})]
                  ELSE IF sl = {} /\ check.free >= 1
                  THEN [check EXCEPT !.at = "create"]
                  ELSE [check EXCEPT !.at = "cover"]
    /\ UNCHANGED <<exchange, issued, unbooked, moves, books, ts>>

\* One cancel per OCO list or plain stop; a failure leads to a second look.
MoveCancel ==
    /\ AtCheck("moveCancel")
    /\ \/ /\ check.todo # {}
          /\ \E i \in check.todo, ok \in BOOLEAN :
               /\ \A j \in check.todo : i <= j
               /\ CancelOrder(i, ok)
               /\ check' = IF ok THEN [check EXCEPT !.todo = @ \ {i}]
                                 ELSE [check EXCEPT !.at = "recheck"]
       \/ /\ check.todo = {} /\ ToStep("movePlace")
          /\ UNCHANGED <<exchange, issued, unbooked, faults>>
    /\ UNCHANGED <<books, moves, ts>>

\* Give up only if a stop is seen to live; otherwise go on and protect.
Recheck ==
    /\ AtCheck("recheck")
    /\ \E legs \in {book, NoOrders} :
         /\ Listed(legs)
         /\ ToStep(IF SlLegs(legs) # {} THEN "cover" ELSE "movePlace")
    /\ UNCHANGED <<exchange, issued, unbooked, moves, books, ts>>

Protection(sl) == IF check.tp > 0 THEN Oco(FloorStep(check.q), check.tp, sl)
                                  ELSE StopLoss(FloorStep(check.q), sl)

\* The same shape again with the new stop, then with the old one, then the
\* old stop alone.
MovePlace == /\ AtCheck("movePlace")
             /\ Attempt(Protection(check.px), 3, "cover", "safety")
             /\ UNCHANGED <<books, moves, ts>>

\* Mutant of Safety: nothing is put back after a refused move.
SafetyNot == /\ AtCheck("safety") /\ ToStep("cover") /\ UNCHANGED <<market, books, ts>>

Safety == /\ AtCheck("safety")
          /\ Attempt(Protection(check.old), 1, "cover",
                     IF check.tp > 0 THEN "safetySl" ELSE "cover")
          /\ UNCHANGED <<books, moves, ts>>

SafetySl == /\ AtCheck("safetySl")
            /\ Attempt(StopLoss(FloorStep(check.q), check.old), 1, "cover", "cover")
            /\ UNCHANGED <<books, moves, ts>>

Create == /\ AtCheck("create")
          /\ Attempt(StopLoss(FloorStep(check.free), check.px), 1, "cover", "cover")
          /\ UNCHANGED <<books, moves, ts>>

-----------------------------------------------------------------------------
(* Coverage                                                                 *)

\* -5%, or as tight as the smallest order asks for but 1% below the price.
CoverSl(q) ==
    LET five == (95 * price) \div 100
        tight == (102 * MinNotional + 100 * q - 1) \div (100 * q)
    IN  IF 100 * q * five >= 102 * MinNotional THEN five
        ELSE IF 100 * tight <= 99 * price THEN tight ELSE 0

PlainTps(legs) == {i \in DOMAIN legs : legs[i].kind = "tp"}

\* Units of the snapshot behind no listed order, an OCO counting twice.  The
\* lowest plain take-profit makes room if they are not free, unless a stop for
\* them would be too small; a price that could not be read speaks for it.
FindBare ==
    /\ AtCheck("cover")
    /\ \E legs \in {book, NoOrders}, priced \in BOOLEAN :
         LET size(S) == SumFunction([i \in S |-> legs[i].qty])
             tps == {i \in DOMAIN legs : HasTp(legs[i])}
             bare == check.total - size(SlLegs(legs)) - size(tps)
             est == bare * ((95 * price) \div 100)
         IN  /\ IF legs = book /\ priced THEN NoFault ELSE Fault
             /\ legs # book => DOMAIN book # {}
             /\ check' =
                  IF bare > 0 /\ check.free < bare /\ tps # {}
                     /\ (est >= MinNotional \/ ~priced)
                  THEN IF PlainTps(legs) = {} THEN [check EXCEPT !.at = "end"]
                       ELSE [check EXCEPT !.at = "makeRoom",
                                          !.q = check.total - size(SlLegs(legs)),
                                          !.todo = PlainTps(legs)]
                  ELSE [check EXCEPT !.at = "coverSize", !.q = bare]
    /\ UNCHANGED <<exchange, issued, unbooked, moves, books, ts>>

\* A symbol whose outcomes are all closed is left alone (outcomes_symbol_counts).
\* Every booked sale closes the open outcome, also that of a part; the outcomes
\* are not kept here, and what they say is a choice.
PassOver ==
    /\ AtCheck("cover")
    /\ ToStep("end")
    /\ UNCHANGED <<market, books, ts>>

Lowest == CHOOSE i \in check.todo : \A j \in check.todo : book[i].tp <= book[j].tp

MakeRoom ==
    /\ AtCheck("makeRoom")
    /\ \/ /\ check.todo \subseteq DOMAIN book
          /\ \E ok \in BOOLEAN :
               /\ CancelOrder(Lowest, ok)
               /\ check' = [check EXCEPT
                              !.at = "coverSize",
                              !.free = IF ok THEN @ + book[Lowest].qty ELSE @]
       \/ /\ ~(check.todo \subseteq DOMAIN book) /\ ToStep("coverSize")
          /\ UNCHANGED <<exchange, issued, unbooked, faults>>
    /\ UNCHANGED <<books, moves, ts>>

\* The smaller of free and bare units, if the price is read and a stop for them
\* can be placed.
CoverSize ==
    /\ AtCheck("coverSize") /\ Settled
    /\ \E priced \in BOOLEAN :
         LET q == FloorStep(Min({check.free, check.q}))
         IN  /\ IF priced THEN NoFault ELSE Fault
             /\ check' = IF priced /\ q > 0 /\ CoverSl(q) > 0
                           THEN [check EXCEPT !.at = "coverPlace", !.q = q, !.px = CoverSl(q)]
                           ELSE [check EXCEPT !.at = "end"]
    /\ UNCHANGED <<exchange, issued, unbooked, moves, books, ts>>

CoverPlace == /\ AtCheck("coverPlace")
              /\ Attempt(StopLoss(check.q, check.px), 3, "end", "end")
              /\ UNCHANGED <<books, moves, ts>>

\* The final loop looks the track's key, a symbol, up in the set of held
\* assets: it never finds it.
CleanUp ==
    /\ AtCheck("end")
    /\ check' = NoCheck
    /\ ts' = NoTrack
    /\ UNCHANGED <<market, books>>

CheckStep(found) ==
    \/ SeeFills(found) \/ LiftCancel \/ LiftSize \/ LiftPlace \/ Trail \/ Close
    \/ SellSnapshot \/ FindStops \/ MoveCancel \/ Recheck \/ MovePlace \/ Safety
    \/ SafetySl \/ Create \/ FindBare \/ PassOver \/ MakeRoom \/ CoverSize
    \/ CoverPlace \/ CleanUp
=============================================================================
