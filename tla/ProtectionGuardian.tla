------------------------- MODULE ProtectionGuardian -------------------------
(***************************************************************************)
(* src/protection_guardian.py with src/protect_qty.py: the sweep that heals  *)
(* the protective orders of one held position, one exchange call per step,  *)
(* interleaved with the market.                                             *)
(*                                                                          *)
(* A sweep reads the position row and the open orders, decides on one       *)
(* repair, and carries it out call by call: size the order from the free    *)
(* balance (L1), place it, place it once more with what is free (L2), and   *)
(* on failure go down the rescue ladder of the branch.  Everything a sweep  *)
(* decides it decides from its snapshot; prices, fills and failing calls    *)
(* happen in between.                                                       *)
(*                                                                          *)
(* A failing call is what the repository's clients make of it: placements   *)
(* return None, a cancel returns None (counted as cancelled by the sweep)   *)
(* or raises on a 5xx (not counted); either may have taken effect.  The     *)
(* sweep itself may be cut short at any call.                               *)
(***************************************************************************)
EXTENDS SpotExchange, ProtectionShape, Functions

CONSTANTS Entry,      \* entry price of the position
          StartRows,  \* rows, books and free balances a run may begin with
          StartBooks,
          StartFree,
          MaxFaults,  \* bound: calls that fail although the request is good
          MaxMoves    \* bound: price moves

\* What the exchange has once accepted, whatever the market did since.
Accepted(l) == l \in Leg /\ l.qty >= MinQty /\ Notional(l) >= MinNotional

\* The quantity behind some legs of a book, and behind those of one kind.
QtyIn(b, legs) == SumFunctionOnSet([i \in DOMAIN b |-> b[i].qty], legs)
QtyOf(b, k) == QtyIn(b, {i \in DOMAIN b : b[i].kind = k})

ASSUME GuardianAssumption ==
    /\ BandPct <= 87   \* the sweep's own band check is the stricter one
    /\ Entry \in Nat \ {0}
    /\ MaxFaults \in Nat
    /\ MaxMoves \in Nat
    /\ StartRows \subseteq [qty : Nat, tp : Nat, sl : Nat]
    /\ StartFree \subseteq Nat
    /\ \A b \in StartBooks :
          /\ DOMAIN b \subseteq OrderIds
          /\ IsFiniteSet(DOMAIN b)
          /\ \A i \in DOMAIN b : Accepted(b[i]) /\ b[i].qty % Step = 0   \* whole lots

VARIABLES
    pos,         \* the portfolio row: quantity, take_profit, stop_loss (0: none)
    swapRecent,  \* gov:swap_ts is younger than 24h
    pc,          \* what the sweep does next
    stage,       \* of a placement: "size" (L1), "place", "again" (L2)
    snap,        \* what the sweep read: row quantity, price, legs, cover
    todo,        \* legs the running cancel or restore loop has still to visit
    gone,        \* legs the cancel loop counted as cancelled
    order,       \* the placement in progress
    audit,       \* the last GUARDIAN_SHAPE_TRANSITION row
    sweep,       \* history: the book the last sweep began with, what disturbed it
    sent,        \* history: swap OCOs sent since the 24h window last ended or
                 \* a sweep was last cut short
    moves, faults

db == <<pos, swapRecent>>
local == <<pc, stage, snap, todo, gone, order>>
history == <<audit, sweep, sent>>
vars == <<exchange, db, local, history, moves, faults>>

Placements == {"emergency", "sliceOco", "sliceTp", "rebuild", "swap"}
Phases == {"idle", "read", "cancelTp", "cancelSl", "restoreTp", "demote",
           "restoreLast", "restoreSl"} \cup Placements

AuditNames == {"none", "emergency_sl", "free_slice_oco", "free_slice_tp",
               "tp_oco_rebuild", "sl_demote", "sl_rescue_failed",
               "oco_swap", "oco_swap_failed_sl_restored"}

NoLegs == [i \in {} |-> 0]
NoCover == [k \in Kinds |-> 0]
NoSnap == [qty |-> 0, px |-> 0, legs |-> NoLegs, cover |-> NoCover]
NoOrder == [kind |-> "tp", qty |-> 0, tp |-> 0, sl |-> 0]
NoAudit == [action |-> "none", from |-> "NAKED"]

SlLegs(b) == {i \in DOMAIN b : HasSl(b[i])}

-----------------------------------------------------------------------------
(* Prices and quantities                                                    *)

\* _step_floor: whole lots only.
FloorStep(q) == (q \div Step) * Step

\* The planned take-profit: the row's, or entry + 4%.
PlanTp == IF pos.tp > 0 THEN pos.tp ELSE (104 * Entry) \div 100

\* _legalize_sl_price: keep a stop at least 0.5% below p, otherwise drop to
\* 0.93 p (which never falls below the 0.87 p floor the code also applies).
Legalize(sl, p) ==
    IF sl <= 0 \/ p <= 0 \/ 1000 * sl < 995 * p THEN sl ELSE (93 * p) \div 100

\* The planned stop: the row's, or entry - 8%, made placeable at p.
PlanSl(p) == Legalize(IF pos.sl > 0 THEN pos.sl ELSE (92 * Entry) \div 100, p)

\* Mutant of Breached: the comparison is made against an older, lower price.
BreachedLate(p) == 1000 * PlanTp <= 900 * p

\* A limit SELL here would execute at once.
Breached(p) == 1000 * PlanTp <= 1001 * p

\* The sweep's band check for a stop: sl >= 0.87 * p.
InBand(sl, p) == 100 * sl >= 87 * p

EmergencyStop(p) == (87 * p) \div 100

\* calibrate_sell_qty: never ask for more than a readable free balance.
Calibrate(q, seen) == FloorStep(IF seen > 0 /\ seen < q THEN seen ELSE q)

WorthPlacing(q, p) == q >= MinQty /\ q * p >= MinNotional

-----------------------------------------------------------------------------
(* Calls that may fail                                                      *)

NoFault == UNCHANGED faults
Fault == faults < MaxFaults /\ faults' = faults + 1

\* Something the sweep does not control went wrong since it began.
Disturbed(by) == sweep' = [sweep EXCEPT !.trouble = @ \cup {by}]

\* SELL request l is sent; `ok` is what the client reports.  A good request
\* can be refused, and it can be accepted without the client hearing of it.
\* A refused OCO is the failure the ladders are built for and leaves the
\* sweep calm.
Send(l, ok) ==
    \/ ok /\ Enter(l, DOMAIN snap.legs) /\ NoFault /\ UNCHANGED sweep
    \/ ~ok /\ ~Placeable(l) /\ NoFault /\ UNCHANGED <<exchange, sweep>>
    \/ /\ ~ok /\ Placeable(l) /\ Fault
       /\ UNCHANGED exchange
       /\ IF l.kind = "oco" THEN UNCHANGED sweep ELSE Disturbed("call")
    \/ ~ok /\ Enter(l, DOMAIN snap.legs) /\ Fault /\ Disturbed("call")

\* The cancel of order i is sent; `counted` says that the loop appends it.
\* None from the client (refused, unknown order, answer lost) counts as
\* cancelled; only an exception does not.
SendCancel(i, counted) ==
    \/ counted /\ Cancel(i) /\ NoFault /\ UNCHANGED sweep
    \/ counted /\ i \notin DOMAIN book /\ NoFault /\ UNCHANGED <<exchange, sweep>>
    \/ i \in DOMAIN book /\ Fault /\ UNCHANGED exchange /\ Disturbed("call")
    \/ ~counted /\ Cancel(i) /\ Fault /\ Disturbed("call")
    \/ ~counted /\ i \notin DOMAIN book /\ Fault /\ UNCHANGED exchange /\ Disturbed("call")

\* The free balance is read; an unreadable balance shows as 0.
SeeFree(seen) ==
    \/ seen = free /\ NoFault /\ UNCHANGED sweep
    \/ seen = 0 /\ free # 0 /\ Fault /\ Disturbed("call")

-----------------------------------------------------------------------------
(* The start of a sweep                                                     *)

\* Mutant of Idle: the cancel loop's list survives the position.
IdleKeepsGone == pc' = "idle" /\ stage' = "size" /\ snap' = NoSnap /\ todo' = {}
                 /\ order' = NoOrder /\ UNCHANGED gone

Idle == pc' = "idle" /\ stage' = "size" /\ snap' = NoSnap /\ todo' = {}
        /\ gone' = {} /\ order' = NoOrder

\* The row is read, and dust is skipped.
StartSweep ==
    /\ pc = "idle"
    /\ Settled
    /\ pos.qty > 0
    /\ pos.qty * price >= MinNotional
    /\ pc' = "read"
    /\ snap' = [qty |-> pos.qty, px |-> price, legs |-> NoLegs, cover |-> NoCover]
    /\ sweep' = [before |-> book, qty |-> pos.qty, trouble |-> {}]
    /\ audit' = NoAudit
    /\ UNCHANGED <<exchange, db, stage, todo, gone, order, sent, moves, faults>>

\* What the sweep goes on with once it has classified cover c and read the
\* legs: nothing, a placement to be sized, or a cancel loop over `legs`.
Skip(c) == UNCHANGED <<stage, todo, gone, order>> /\ pc' = "idle"

Plan(task, kind, q) ==
    /\ pc' = task
    /\ stage' = "size"
    /\ order' = [kind |-> kind, qty |-> q,
                 tp |-> IF kind = "sl" THEN 0 ELSE PlanTp,
                 sl |-> IF kind = "tp" THEN 0
                        ELSE IF task = "emergency" THEN EmergencyStop(snap.px)
                        ELSE PlanSl(snap.px)]
    /\ UNCHANGED <<todo, gone>>

CancelFirst(task, legs) ==
    /\ pc' = task
    /\ todo' = legs
    /\ gone' = {}
    /\ UNCHANGED <<stage, order>>

OnlySl(c) == c["sl"] > 0 /\ c["oco"] <= 0
NoSl(c) == c["sl"] <= 0 /\ c["oco"] <= 0

\* The largest slice of the row's quantity no listed leg accounts for.
FreeSlice(c) == FloorStep(snap.qty - c["oco"] - c["tp"] - c["sl"])

\* The take-profit target is behind the market: only a naked downside is
\* healed, with a wide stop.
DecideBreached(c) ==
    /\ Breached(snap.px)
    /\ \/ NoSl(c) /\ Plan("emergency", "sl", FloorStep(snap.qty))
       \/ ~NoSl(c) /\ Skip(c)

\* A slice is free: an OCO on it if the downside is bare and the stop can be
\* placed, else a plain take-profit.
DecideSlice(c) ==
    /\ ~Breached(snap.px)
    /\ WorthPlacing(FreeSlice(c), snap.px)
    /\ \/ /\ NoSl(c) /\ InBand(PlanSl(snap.px), snap.px)
          /\ Plan("sliceOco", "oco", FreeSlice(c))
       \/ /\ ~(NoSl(c) /\ InBand(PlanSl(snap.px), snap.px))
          /\ Plan("sliceTp", "tp", FreeSlice(c))

\* Mutants of SwapAllowed: the swap that tore legal pairs apart, and a swap
\* that cancels a stop it cannot put back.
SwapTearsPair(c, legs) ==
    /\ ~swapRecent
    /\ \E i \in DOMAIN legs : legs[i].kind = "sl" /\ InBand(legs[i].sl, snap.px)

SwapOutOfBand(c, legs) == c["tp"] <= 0 /\ ~swapRecent

\* A plain stop locks the base: swap it for an OCO, unless it is half of a
\* legal pair, a swap was tried within the day, or the stop could not be
\* put back.
SwapAllowed(c, legs) ==
    /\ c["tp"] <= 0
    /\ ~swapRecent
    /\ \E i \in DOMAIN legs : legs[i].kind = "sl" /\ InBand(legs[i].sl, snap.px)

DecideLocked(c, legs) ==
    /\ ~Breached(snap.px)
    /\ ~WorthPlacing(FreeSlice(c), snap.px)
    /\ \/ /\ NoSl(c) /\ c["tp"] <= 0
          /\ Plan("emergency", "sl", FloorStep(snap.qty))
       \/ /\ NoSl(c) /\ c["tp"] > 0
          /\ \/ /\ InBand(PlanSl(snap.px), snap.px)
                /\ CancelFirst("cancelTp",
                               {i \in DOMAIN legs : legs[i].kind = "tp"})
             \/ ~InBand(PlanSl(snap.px), snap.px) /\ Skip(c)
       \/ /\ OnlySl(c) /\ SwapAllowed(c, legs)
          /\ CancelFirst("cancelSl", {i \in DOMAIN legs : legs[i].kind = "sl"})
       \/ /\ OnlySl(c) /\ ~SwapAllowed(c, legs)
          /\ Skip(c)
       \/ c["oco"] > 0 /\ Skip(c)

Decide(c, legs) ==
    \/ Protected(c, snap.qty) /\ Skip(c)
    \/ ~Protected(c, snap.qty) /\ DecideBreached(c)
    \/ ~Protected(c, snap.qty) /\ DecideSlice(c)
    \/ ~Protected(c, snap.qty) /\ DecideLocked(c, legs)

\* get_open_orders answers with the book, or with [] when it fails.
ReadOrders ==
    /\ pc = "read"
    /\ Settled
    /\ \E legs \in {book, NoLegs} :
         LET c == IF legs = book THEN ListedCover(locked) ELSE NoCover
         IN  /\ IF legs = book
                  THEN NoFault /\ UNCHANGED sweep
                  ELSE Fault /\ Disturbed("call")
             /\ Decide(c, legs)
             /\ snap' = IF pc' = "idle" THEN NoSnap
                        ELSE [snap EXCEPT !.legs = legs, !.cover = c]
    /\ UNCHANGED <<exchange, db, audit, sent, moves>>

-----------------------------------------------------------------------------
(* Placements                                                               *)

\* L1.  What is left of the request decides whether it is placed at all: a
\* slice must be worth an order, anything else must be more than dust.
Size ==
    /\ pc \in Placements /\ stage = "size"
    /\ \E seen \in {free, 0} :
         LET q == Calibrate(order.qty, seen)
         IN  /\ SeeFree(seen)
             /\ IF q <= 0 \/ (pc \in {"sliceOco", "sliceTp"} /\ ~WorthPlacing(q, snap.px))
                  THEN Idle
                  ELSE /\ order' = [order EXCEPT !.qty = q]
                       /\ stage' = "place"
                       /\ UNCHANGED <<pc, snap, todo, gone>>
    /\ UNCHANGED <<exchange, db, audit, sent, moves>>

\* What audit_transition records when the placement of phase p stands.
AuditName(p) ==
    CASE p = "emergency" -> "emergency_sl"
      [] p = "sliceOco"  -> "free_slice_oco"
      [] p = "sliceTp"   -> "free_slice_tp"
      [] p = "rebuild"   -> "tp_oco_rebuild"
      [] p = "swap"      -> "oco_swap"

Audit(name) == audit' = [action |-> name, from |-> Shape(snap.cover)]

Succeed ==
    /\ Audit(AuditName(pc))
    /\ swapRecent' = (swapRecent \/ pc = "swap")
    /\ Idle

\* The leg the rescue ladder gives up: the last one cancelled.
DemoteLeg == CHOOSE i \in gone : \A j \in gone : j <= i

\* Both attempts failed: the next rung of the branch.
GiveUp ==
    /\ UNCHANGED <<swapRecent, audit>>
    /\ \/ /\ pc = "sliceOco"
          /\ pc' = "sliceTp" /\ stage' = "place"
          /\ order' = [kind |-> "tp", qty |-> order.qty, tp |-> order.tp, sl |-> 0]
          /\ UNCHANGED <<snap, todo, gone>>
       \/ /\ pc = "rebuild"
          /\ todo' = gone \ {DemoteLeg}
          /\ pc' = IF todo' = {} THEN "demote" ELSE "restoreTp"
          /\ UNCHANGED <<stage, snap, gone, order>>
       \/ /\ pc = "swap"
          /\ pc' = "restoreSl" /\ todo' = gone
          /\ UNCHANGED <<stage, snap, gone, order>>
       \/ pc \in {"emergency", "sliceTp"} /\ Idle

Place ==
    /\ pc \in Placements /\ stage = "place"
    /\ Settled
    /\ \E ok \in BOOLEAN :
         /\ Send(order, ok)
         /\ IF ok THEN Succeed
            ELSE stage' = "again"
                 /\ UNCHANGED <<swapRecent, audit, pc, snap, todo, gone, order>>
    /\ sent' = IF pc = "swap" /\ sent < 2 THEN sent + 1 ELSE sent
    /\ UNCHANGED <<pos, moves>>

\* L2.  Only a free balance short of the request explains the rejection; the
\* retry is for the whole lots that are free.  The rebuild and the swap do not
\* pass a minimum quantity.
Downgraded(seen) == [order EXCEPT !.qty = FloorStep(seen)]

Retryable(seen) ==
    /\ 0 < seen /\ seen < order.qty
    /\ FloorStep(seen) > 0
    /\ pc \in {"rebuild", "swap"} \/ FloorStep(seen) >= MinQty
    /\ FloorStep(seen) * (IF HasTp(order) THEN order.tp ELSE order.sl) >= MinNotional

PlaceAgain ==
    /\ pc \in Placements /\ stage = "again"
    /\ Settled
    /\ \/ /\ Retryable(free)
          /\ \E ok \in BOOLEAN :
               /\ Send(Downgraded(free), ok)
               /\ IF ok THEN Succeed ELSE GiveUp
       \/ /\ ~Retryable(free)
          /\ GiveUp
          /\ NoFault /\ UNCHANGED <<exchange, sweep>>
       \/ /\ Retryable(free)
          /\ GiveUp
          /\ Fault /\ Disturbed("call") /\ UNCHANGED exchange
    /\ UNCHANGED <<pos, sent, moves>>

-----------------------------------------------------------------------------
(* Cancel loops and what follows them                                       *)

CancelLeg ==
    /\ pc \in {"cancelTp", "cancelSl"}
    /\ Settled
    /\ \E i \in todo, counted \in BOOLEAN :
         /\ \A j \in todo : i <= j
         /\ SendCancel(i, counted)
         /\ todo' = todo \ {i}
         /\ gone' = IF counted THEN gone \cup {i} ELSE gone
    /\ UNCHANGED <<db, pc, stage, snap, order, audit, sent, moves>>

\* The legs the loop set out to cancel.
Targets == {i \in DOMAIN snap.legs :
               snap.legs[i].kind = (IF pc = "cancelTp" THEN "tp" ELSE "sl")}

\* Not every cancel was counted: the sweep of this position ends here.
AbortPartial ==
    /\ pc \in {"cancelTp", "cancelSl"} /\ todo = {}
    /\ gone # Targets
    /\ Idle
    /\ UNCHANGED <<exchange, db, audit, sent, sweep, moves, faults>>

\* tp is the quantity-weighted mean price of the cancelled legs, in ticks.
MeanTp(tp) ==
    LET legs == {i \in DOMAIN snap.legs : snap.legs[i].kind = "tp"}
        qty == QtyIn(snap.legs, legs)
        value == SumFunctionOnSet([i \in legs |-> snap.legs[i].qty * snap.legs[i].tp], legs)
    IN  tp * qty <= value /\ value < (tp + 1) * qty

\* All legs counted: the OCO to put in their place, at the legs' mean price
\* unless the market has reached it.  Its quantity, the smaller of the row's
\* quantity and of the cancelled legs plus the residue, is the row's.
PlanRebuild ==
    /\ pc = "cancelTp" /\ todo = {}
    /\ gone = Targets
    /\ \E i \in gone : \E tp \in 0 .. snap.legs[i].tp :
         /\ MeanTp(tp)
         /\ order' = [kind |-> "oco", qty |-> FloorStep(snap.qty),
                      tp |-> IF 1000 * tp <= 1001 * snap.px THEN PlanTp ELSE tp,
                      sl |-> PlanSl(snap.px)]
    /\ pc' = "rebuild" /\ stage' = "size"
    /\ UNCHANGED <<exchange, db, snap, todo, gone, audit, sent, sweep, moves, faults>>

\* The stop of the swapped OCO: the highest old one, legalized at the price
\* of the snapshot.
OldStop(s) == \A i \in gone : snap.legs[i].sl <= s

PlanSwap ==
    /\ pc = "cancelSl" /\ todo = {}
    /\ gone = Targets
    /\ \E i \in gone :
         /\ OldStop(snap.legs[i].sl)
         /\ order' = [kind |-> "oco", qty |-> FloorStep(snap.qty), tp |-> PlanTp,
                      sl |-> Legalize(snap.legs[i].sl, snap.px)]
    /\ pc' = "swap" /\ stage' = "size"
    /\ UNCHANGED <<exchange, db, snap, todo, gone, audit, sent, sweep, moves, faults>>

-----------------------------------------------------------------------------
(* Rescue ladders                                                           *)

\* A cancelled leg is placed again as it was.
RestoreTp ==
    /\ pc = "restoreTp"
    /\ Settled
    /\ \E i \in todo, ok \in BOOLEAN :
         /\ \A j \in todo : i <= j
         /\ Send(snap.legs[i], ok)
         /\ todo' = todo \ {i}
    /\ pc' = IF todo' = {} THEN "demote" ELSE "restoreTp"
    /\ UNCHANGED <<db, stage, snap, gone, order, audit, sent, moves>>

\* The last leg comes back as a plain stop.
Demoted == [kind |-> "sl", qty |-> FloorStep(snap.legs[DemoteLeg].qty),
            tp |-> 0, sl |-> order.sl]

Demote ==
    /\ pc = "demote"
    /\ Settled
    /\ \E ok \in BOOLEAN :
         /\ Send(Demoted, ok)
         /\ IF ok THEN Audit("sl_demote") /\ Idle
            ELSE pc' = "restoreLast" /\ UNCHANGED <<stage, snap, todo, gone, order, audit>>
    /\ UNCHANGED <<db, sent, moves>>

\* Mutant of RestoreLast: the demoted leg is not put back.
ForgetLast ==
    /\ pc = "restoreLast"
    /\ Audit("sl_rescue_failed")
    /\ Idle
    /\ UNCHANGED <<exchange, db, sweep, sent, moves, faults>>

RestoreLast ==
    /\ pc = "restoreLast"
    /\ Settled
    /\ \E ok \in BOOLEAN : Send(snap.legs[DemoteLeg], ok)
    /\ Audit("sl_rescue_failed")
    /\ Idle
    /\ UNCHANGED <<db, sent, moves>>

\* Mutants of RestoreSl: the loop ends after its first leg; a failed swap is
\* not remembered.
RestoreOneSl ==
    /\ pc = "restoreSl"
    /\ Settled
    /\ \E i \in todo, ok \in BOOLEAN :
         /\ \A j \in todo : i <= j
         /\ Send(snap.legs[i], ok)
    /\ Audit("oco_swap_failed_sl_restored")
    /\ swapRecent' = TRUE
    /\ Idle
    /\ UNCHANGED <<pos, sent, moves>>

RestoreSlUnstamped ==
    /\ pc = "restoreSl"
    /\ Settled
    /\ \E i \in todo, ok \in BOOLEAN :
         /\ \A j \in todo : i <= j
         /\ Send(snap.legs[i], ok)
         /\ IF todo = {i}
              THEN Audit("oco_swap_failed_sl_restored") /\ Idle
              ELSE /\ todo' = todo \ {i}
                   /\ UNCHANGED <<pc, stage, snap, gone, order, audit>>
    /\ UNCHANGED <<db, sent, moves>>

\* The safety net of the swap: every old stop leg again, at its old stop.
RestoreSl ==
    /\ pc = "restoreSl"
    /\ Settled
    /\ \E i \in todo, ok \in BOOLEAN :
         /\ \A j \in todo : i <= j
         /\ Send(snap.legs[i], ok)
         /\ IF todo = {i}
              THEN /\ Audit("oco_swap_failed_sl_restored")
                   /\ swapRecent' = TRUE
                   /\ Idle
              ELSE /\ todo' = todo \ {i}
                   /\ UNCHANGED <<swapRecent, pc, stage, snap, gone, order, audit>>
    /\ UNCHANGED <<pos, sent, moves>>

-----------------------------------------------------------------------------
(* The world around the sweep                                               *)

\* A price move; the market serves the legs it reaches before anything else.
PriceMoves ==
    /\ moves < MaxMoves
    /\ moves' = moves + 1
    /\ \E p \in Prices : MoveTo(p)
    /\ Disturbed("price")
    /\ UNCHANGED <<db, local, audit, sent, faults>>

LegFills ==
    /\ \E i \in DOMAIN book : Fill(i)
    /\ Disturbed("fill")
    /\ UNCHANGED <<db, local, audit, sent, moves, faults>>

\* sync_from_binance, the first step of every scan: the row takes the quantity
\* of the account and keeps its stop and target.
SyncRow ==
    /\ pc = "idle"
    /\ Settled
    /\ pos.qty # Held
    /\ pos' = [pos EXCEPT !.qty = Held]
    /\ UNCHANGED <<exchange, swapRecent, local, audit, sent, sweep, moves, faults>>

\* The process dies in the middle of a sweep, or an error nobody expected ends
\* the work on this position: what was done so far stands, and the swap that
\* may have gone out is not remembered.
Abandon ==
    /\ pc # "idle"
    /\ Idle
    /\ Fault /\ Disturbed("crash")
    /\ sent' = 0
    /\ UNCHANGED <<exchange, db, audit, moves>>

\* The 24 hours of gov:swap_ts are over.
SwapWindowEnds ==
    /\ pc = "idle"
    /\ swapRecent
    /\ swapRecent' = FALSE
    /\ sent' = 0
    /\ UNCHANGED <<exchange, pos, local, audit, sweep, moves, faults>>

Sweep ==
    \/ StartSweep \/ ReadOrders
    \/ Size \/ Place \/ PlaceAgain
    \/ CancelLeg \/ AbortPartial \/ PlanRebuild \/ PlanSwap
    \/ RestoreTp \/ Demote \/ RestoreLast \/ RestoreSl

World == PriceMoves \/ LegFills \/ SyncRow \/ SwapWindowEnds \/ Abandon

Next == Sweep \/ World

-----------------------------------------------------------------------------
(* The specification                                                        *)

\* Any uncrossed book of legs the exchange once accepted, next to any row:
\* what entries, manual orders and earlier sweeps leave behind.
Init ==
    /\ price \in Prices
    /\ pos \in StartRows
    /\ free \in StartFree
    /\ book \in StartBooks
    /\ Settled
    /\ locked = [k \in Kinds |-> QtyOf(book, k)]
    /\ swapRecent \in BOOLEAN
    /\ pc = "idle" /\ stage = "size" /\ snap = NoSnap
    /\ todo = {} /\ gone = {} /\ order = NoOrder
    /\ audit = NoAudit
    /\ sweep = [before |-> NoLegs, qty |-> 0, trouble |-> {}]
    /\ sent = 0
    /\ moves = 0 /\ faults = 0

Spec == Init /\ [][Next]_vars

\* The scheduler runs the scan again and again; each scan syncs the rows before
\* it sweeps (strong fairness: between two sweeps the sync is enabled, not
\* continuously); the matching engine serves what the market reaches.
FairSpec == /\ Spec
            /\ WF_vars(Sweep)
            /\ SF_vars(SyncRow)
            /\ WF_vars(LegFills)

-----------------------------------------------------------------------------
(* Properties                                                               *)

ExchangeTyped ==
    /\ price \in Prices
    /\ free \in Int
    /\ locked \in [Kinds -> Int]
    /\ DOMAIN book \subseteq OrderIds
    /\ \A i \in DOMAIN book : book[i] \in Leg

SnapTyped ==
    /\ snap = [qty |-> snap.qty, px |-> snap.px, legs |-> snap.legs, cover |-> snap.cover]
    /\ snap.qty \in Int
    /\ snap.px \in Prices \cup {0}
    /\ DOMAIN snap.legs \subseteq OrderIds
    /\ \A i \in DOMAIN snap.legs : snap.legs[i] \in Leg
    /\ snap.cover \in [Kinds -> Int]

LocalTyped ==
    /\ pc \in Phases
    /\ stage \in {"size", "place", "again"}
    /\ SnapTyped
    /\ pc \in {"idle", "read"} => DOMAIN snap.legs = {}
    /\ todo \subseteq DOMAIN snap.legs
    /\ gone \subseteq DOMAIN snap.legs
    /\ order \in [kind : Kinds, qty : Int, tp : Nat, sl : Nat]

HistoryTyped ==
    /\ audit \in [action : AuditNames, from : Shapes]
    /\ sweep = [before |-> sweep.before, qty |-> sweep.qty, trouble |-> sweep.trouble]
    /\ sweep.trouble \subseteq {"call", "price", "fill", "crash"}
    /\ sent \in 0 .. 2
    /\ moves \in 0 .. MaxMoves

\* Types of all variables.
TypeOK ==
    /\ ExchangeTyped
    /\ pos \in [qty : Int, tp : Nat, sl : Nat] /\ swapRecent \in BOOLEAN
    /\ LocalTyped
    /\ HistoryTyped
    /\ faults \in 0 .. MaxFaults

\* The position row is back in the loop and nothing disturbed the last sweep.
Calm == pc = "idle" /\ sweep.trouble = {}

\* "Never leave the position naked": a sweep that no failing call, price move
\* or fill disturbed leaves a stop on the book if it found one, even when the
\* exchange refuses the OCO that was to replace the stop.
FloorKept == Calm /\ SlLegs(sweep.before) # {} => SlLegs(book) # {}

\* And it takes nothing off the downside: the quantity under a stop does not
\* shrink, counting of the old legs those the exchange would take back.
BackInBand(i) == sweep.before[i].kind = "oco" \/ InBand(sweep.before[i].sl, price)

CoverKept ==
    Calm /\ SlLegs(sweep.before) # {} =>
        LET old == QtyIn(sweep.before, {i \in SlLegs(sweep.before) : BackInBand(i)})
            row == FloorStep(sweep.qty)
        IN  \/ locked["oco"] + locked["sl"] >= old
            \/ locked["oco"] + locked["sl"] >= row

\* A book that already has an OCO, or a plain pair, is never taken apart:
\* whatever calls fail, only a fill removes one of its legs.
ShapedBookKept ==
    pc = "idle" /\ "fill" \notin sweep.trouble
    /\ \/ QtyOf(sweep.before, "oco") > 0
       \/ QtyOf(sweep.before, "tp") > 0 /\ QtyOf(sweep.before, "sl") > 0
    => \A i \in DOMAIN sweep.before :
          i \in DOMAIN book /\ book[i] = sweep.before[i]

\* The actions that cancel legs start only from a shape the table declares for
\* them, so what they audit is an edge of the table: "oco_swap only from strict
\* SL_ONLY", the rebuild and its ladder only from TP_ONLY.
Cancelling == {"tp_oco_rebuild", "sl_demote", "oco_swap"} \cup FailOpen

CancelsOnlyDeclared ==
    audit.action \in Cancelling =>
        \E t \in Transitions : t[1] = audit.action /\ t[2] = audit.from

\* The rescue ladder of a TP-only book: an undisturbed sweep ends with a stop
\* on the book, or with the same quantity under take-profits as before.
RescueComplete ==
    Calm /\ QtyOf(sweep.before, "tp") > 0 /\ SlLegs(sweep.before) = {} =>
        \/ SlLegs(book) # {}
        \/ locked["tp"] >= QtyOf(sweep.before, "tp")

\* "At most one swap attempt per symbol per day": no second swap OCO goes
\* out before the 24h window of the first has ended, unless the sweep that
\* sent the first was cut short before it could write gov:swap_ts.
OneSwapPerWindow == sent <= 1

\* A heal never sells: in an undisturbed step sequence the guardian leaves the
\* held quantity alone ("a LIMIT SELL at/below market fills IMMEDIATELY,
\* deciding to sell is a strategy decision, not the guardian's").
NeverSells ==
    [][sweep.trouble = {} /\ sweep'.trouble = {} => Held' = Held]_vars

\* protection_guardian.py:41: "A position whose TP coverage (OCO + plain TP)
\* is at least this fraction of holding is considered protected".
CoveredMeansHalf ==
    pc = "read" /\ Protected(ListedCover(locked), snap.qty) =>
        2 * (locked["oco"] + locked["tp"]) >= snap.qty

\* The market lets the sweep stop the position: whole lots worth a stop, and
\* plain take-profits, if any, that the sweep may cancel.  (With the target
\* breached, or the planned stop out of band, it leaves them alone on purpose.)
Healable ==
    /\ FloorStep(Held) * EmergencyStop(price) >= MinNotional
    /\ \/ locked["tp"] = 0
       \/ ~Breached(price) /\ InBand(PlanSl(price), price)

Stopped == Healable => SlLegs(book) # {}

\* Heals missing coverage: once the calls succeed again and the price stands
\* still, every position that can be stopped is stopped for good, and no
\* series of sweeps tears the stop down again.
EventuallyStopped == <>[]Stopped

\* protection_guardian.py:558: "A wide emergency SL beats staying
\* unprotected": a naked position does not stay without a stop.
Bare == /\ book = NoLegs
        /\ FloorStep(free) * EmergencyStop(price) >= MinNotional

NakedGetsStop == Bare ~> SlLegs(book) # {}
=============================================================================
