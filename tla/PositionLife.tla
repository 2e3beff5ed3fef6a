---------------------------- MODULE PositionLife ----------------------------
(***************************************************************************)
(* The life of one position: bought and given its exit orders               *)
(* (EntryLadder), booked, judged and sold (ExitChain), trailed              *)
(* (TrailingCheck).  A scan (src/scan_orchestrator.py, cmd_cron_scan) runs  *)
(* these one after the other in one process; the control panel's forceexit  *)
(* and the market act at any time, and the process may die at any step.     *)
(*                                                                          *)
(* The guardian's sweep, which closes a scan, is specified in               *)
(* ProtectionGuardian and not repeated here: what is shown here holds of    *)
(* the books a scan leaves before the guardian mends them.                  *)
(***************************************************************************)
EXTENDS EntryLadder, ExitChain, TrailingCheck

CONSTANTS Sizes,      \* quantities a BUY may leave free after its fee
          Fee,        \* what its fee takes of the quantity of its fills
          MaxScans,   \* scans in a behaviour
          MaxLives,   \* positions in a behaviour
          Overlaps    \* steps of the last scan a forceexit may run beside

ASSUME LifeAssumption ==
    /\ Sizes \subseteq Nat \ {0} /\ Fee \in Nat
    /\ MaxScans \in Nat /\ MaxLives \in Nat

VARIABLES phase,      \* the step of the scan in progress
          scans,
          mark        \* history: where the running step started from

vars == <<market, filled, books, ladder, exits, trailing, phase, scans, mark>>

Phases == {"idle", "enter", "book", "exit", "exiting", "trail", "sweep",
           "soleExit", "soleExiting"}

Top(b) == IF SlLegs(b) = {} THEN 0 ELSE Highest(b)

\* What a step finds, whether anything but itself has acted since, and the
\* position whose first tranche was sold and remembered.
Marked(calm) == [first |-> issued, cover |-> StopCover, calm |-> calm,
                 faults |-> faults, tranche |-> mark.tranche]

Start == mark' = Marked(TRUE)
Alone == UNCHANGED mark
Disturb == mark' = [mark EXCEPT !.calm = FALSE]

NoLadder == /\ rung = "idle" /\ tries = 1 /\ qty = 0 /\ slq = 0 /\ tpq = 0
            /\ left = {} /\ placed = {} /\ slId = 0 /\ alerted = FALSE

Init ==
    /\ price = Entry /\ free = 0 /\ book = NoOrders
    /\ locked = [k \in Kinds |-> 0]
    /\ issued = 0 /\ unbooked = NoOrders /\ faults = 0 /\ moves = 0 /\ filled = {}
    /\ row = NoRow /\ tracker = NoTracker /\ banked = 0 /\ life = 0
    /\ NoLadder
    /\ exit = [p \in Procs |-> Resting] /\ cooling = FALSE
    /\ check = NoCheck /\ ts = NoTrack
    /\ phase = "idle" /\ scans = 0
    /\ mark = [first |-> 0, cover |-> 0, calm |-> TRUE, faults |-> 0, tranche |-> 0]

-----------------------------------------------------------------------------
(* The scan                                                                 *)

To(p) == phase' = p /\ UNCHANGED scans

DefaultSl == (Entry * (100 - SlExit)) \div 100

\* Step 0 rebuilds the rows.  A scan without candidates owes the exit step.
StartScan ==
    /\ phase = "idle" /\ scans < MaxScans /\ Settled
    /\ Sync(DefaultSl)
    /\ scans' = scans + 1
    /\ phase' \in {"enter", "soleExit"}
    /\ UNCHANGED <<exchange, issued, unbooked, moves, tracker, banked, life,
                   ladder, exits, trailing>>
    /\ Alone

\* A symbol without a row may be bought; the rest of the last position is dust.
Buy ==
    /\ phase = "enter" /\ rung = "idle" /\ row = NoRow /\ Held = 0
    /\ price = Entry /\ life < MaxLives
    /\ free' \in Sizes
    /\ life' = life + 1
    /\ rung' = "bought" /\ qty' = free' + Fee
    /\ UNCHANGED <<price, locked, book, calls, moves, row, tracker, banked, tries,
                   slq, tpq, left, placed, slId, alerted, exits, trailing, phase, scans>>
    /\ Start

Entering ==
    /\ phase = "enter"
    /\ \/ LadderStep /\ UNCHANGED <<phase, scans>>
       \/ rung = "idle" /\ To("book") /\ UNCHANGED <<market, books, ladder>>
    /\ UNCHANGED <<exits, trailing>>
    /\ Alone

\* Booking fails open: an unreadable account skips it.
Reconcile ==
    /\ phase \in {"book", "sweep"}
    /\ \/ BookFills /\ NoFault
       \/ unbooked = NoOrders /\ NothingToBook /\ NoFault
       \/ unbooked # NoOrders /\ NothingToBook /\ Fault
    /\ To(IF phase = "book" THEN "exit" ELSE "idle")
    /\ UNCHANGED <<exchange, issued, moves, banked, life, ladder, exits, trailing>>
    /\ Alone

AfterExit == IF phase \in {"exit", "exiting"} THEN "trail" ELSE "sweep"

\* A full exit forgets the tranche, also when it leaves a rest.
TrancheAfter(me) ==
    IF ~At(me, "book") THEN mark.tranche
    ELSE IF exit[me].pct >= 100 THEN 0
    ELSE IF exit[me].kind = "tp_partial" THEN life ELSE mark.tranche

ExitStep ==
    /\ \/ /\ phase \in {"exit", "soleExit"}
          /\ Choose("scan") /\ phase' = (IF phase = "exit" THEN "exiting" ELSE "soleExiting")
          /\ UNCHANGED scans /\ Start
       \/ /\ phase \in {"exit", "soleExit"}
          /\ To(AfterExit) /\ UNCHANGED <<market, books, exits>> /\ Alone
       \/ /\ phase \in {"exiting", "soleExiting"}
          /\ ExecuteExit("scan")
          /\ To(IF exit'["scan"].at = "rest" THEN AfterExit ELSE phase)
          /\ mark' = [mark EXCEPT !.tranche = TrancheAfter("scan")]
    /\ UNCHANGED <<ladder, trailing>>

Trailing ==
    /\ phase = "trail"
    /\ \/ /\ Snapshot
          /\ IF check'.at = "rest" THEN To("sweep") ELSE UNCHANGED <<phase, scans>>
          /\ Start
       \/ /\ CheckStep(filled)
          /\ IF check'.at = "rest" THEN To("sweep") ELSE UNCHANGED <<phase, scans>>
          /\ Alone
    /\ UNCHANGED <<ladder, exits>>

\* The scan's process dies; what it had in memory is gone.
Killed ==
    /\ phase # "idle" /\ Fault
    /\ phase' = "idle"
    /\ rung' = "idle" /\ tries' = 1 /\ qty' = 0 /\ slq' = 0 /\ tpq' = 0
    /\ left' = {} /\ placed' = {} /\ slId' = 0 /\ alerted' = FALSE
    /\ exit' = [exit EXCEPT !["scan"] = Resting]
    /\ check' = NoCheck
    /\ Disturb
    /\ UNCHANGED <<exchange, issued, unbooked, moves, books, cooling, ts, scans>>

-----------------------------------------------------------------------------
(* Everybody else                                                           *)

\* One forceexit in a behaviour, before anything fails; one that outlives
\* `Overlaps` is cut off.
Panel ==
    /\ scans = MaxScans /\ phase \in Overlaps
    /\ \/ exit["panel"].end = "none" /\ faults = 0 /\ Choose("panel")
       \/ ExecuteExit("panel")
    /\ mark' = [mark EXCEPT !.calm = FALSE, !.tranche = TrancheAfter("panel")]
    /\ UNCHANGED <<ladder, trailing, phase, scans>>

Market ==
    /\ \/ \E i \in DOMAIN book : TradeOrder(i)
       \/ MovePrice
    /\ Disturb
    /\ UNCHANGED <<books, ladder, exits, trailing, phase, scans>>

Cool == phase = "idle" /\ CoolOff /\ UNCHANGED <<ladder, trailing, phase, scans, mark>>

Next ==
    /\ \/ StartScan \/ Buy \/ Entering \/ Reconcile \/ ExitStep \/ Trailing \/ Killed
       \/ Panel \/ Market \/ Cool
    /\ filled' = filled \cup DOMAIN unbooked'

Spec == Init /\ [][Next]_vars

-----------------------------------------------------------------------------
(* Properties                                                               *)

Ids == {o.id : o \in tracker.tps \cup placed}

\* Types, for every variable the components share.
TypeOK ==
    /\ price \in Prices /\ free \in Nat /\ locked \in [Kinds -> Nat]
    /\ \A i \in DOMAIN book : i \in 1 .. issued /\ book[i] \in Leg
    /\ DOMAIN unbooked \subseteq filled /\ filled \subseteq 1 .. issued
    /\ row \in [qty : Nat, sl : Nat] /\ banked \in 0 .. life
    /\ tracker.tps \subseteq [id : 1 .. issued, tier : DOMAIN TpPct]
    /\ tracker.done \subseteq Ids /\ tracker.sl \in 0 .. issued
    /\ phase \in Phases /\ rung \in Rungs
    /\ \A p \in Procs : exit[p].kind \in ExitKinds
    /\ ts \in [high : {0} \cup Prices, sl : Nat, on : BOOLEAN]

NothingSold == \A i \in filled : i <= mark.first

\* What the ladder reports as behind a stop (sl_placed_qty, from which the
\* record and the alerts are made) is behind one at the exchange, up to a lot.
ReportedStops ==
    rung = "done" /\ NothingSold => slq < StopCover + Step

\* A position worth an order that leaves the ladder with no stop was alarmed
\* about, whichever requests were refused or unheard on the way.
NakedIsLoud ==
    rung = "done" /\ NothingSold /\ StopCover = 0 => alerted

\* The emergency sale never meets a position that a stop already protects.
DumpOnlyNaked ==
    [][rung = "dump" /\ free' < free => StopCover = 0]_vars

\* While the ladder runs and after it, the orders of its tracker rest at the
\* exchange or were filled: the fallbacks never leave the name of a cancelled
\* one behind, for which the trailing check would wait for ever.
TrackerNamesLive ==
    rung # "idle" =>
        \A o \in tracker.tps : o.id > mark.first => o.id \in DOMAIN book \cup filled

\* The exchange takes a stop on q at sl as soon as that much is free: large
\* enough an order, not too far below the market.
Takes(q, sl) ==
    /\ FloorStep(q) >= MinQty /\ FloorStep(q) * sl >= MinNotional
    /\ 100 * sl >= BandPct * price

\* An exit cancels every order before it sells.  Afterwards a stop is behind
\* what a failed sale did not sell, and behind what a partial one kept, unless
\* the exchange would not take one.  One call failed in the first case and
\* none in the second, and nobody else acted since the decision.
ExitKeepsFloor ==
    [][LET e == exit["scan"]
           behind(q, sl) ==
               q > Held' \/ ~Takes(q, sl) \/ StopCover' >= FloorStep(q)
       IN  /\ e.at = "rescue" /\ mark.calm' /\ faults' <= mark.faults + 1 =>
                behind(e.q, (97 * e.px) \div 100)
           /\ e.at = "relist" /\ mark.calm' /\ faults' = mark.faults =>
                behind(e.want - e.q, RestSl("scan"))]_vars

\* A first tranche that was sold and remembered is not sold again, unless a
\* full exit, which forgets it, came in between and left a rest.
OneTranche ==
    [][At("scan", "sell") /\ exit["scan"].kind = "tp_partial" /\ free' < free
         => mark.tranche = 0 \/ mark.tranche # life]_vars

\* Moving the stops cancels them first.  Whatever one failing call or the market
\* does to the move, and unless a forceexit came in between, the position has
\* a stop again that is at least as high, or the exchange would not take one,
\* or the move was given up while one of the stops to be replaced still stood.
MoveKeepsStop ==
    [][/\ check.at \in {"moveCancel", "recheck", "movePlace", "safety", "safetySl"}
       /\ check'.at = "cover"
       /\ \/ faults' = mark.faults
          \/ mark.calm /\ faults' = mark.faults + 1
       /\ exit["panel"] = Resting
       => \/ Top(book)' >= check.old
          \/ check.todo \cap SlLegs(book)' # {}
          \/ ~Placeable(StopLoss(FloorStep(check.q), check.old))']_vars

\* Refuted by TrailingTrack.cfg.  "Clean stale entries (positions no longer
\* held)": while something is held, the track of a position is dropped by the
\* sale of a triggered stop only, so the highest price it has seen is kept.
TrackKept ==
    [][ts.on /\ Held' > 0 /\ check.at # "sell" => ts'.on /\ ts'.high >= ts.high]_vars
=============================================================================
