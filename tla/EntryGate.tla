----------------------------- MODULE EntryGate -----------------------------
(***************************************************************************)
(* How often, and on which days, a scan may open a new position.            *)
(*                                                                          *)
(* A scan buys at most once (execute_auto_trade), and a file lock keeps     *)
(* scans apart (cmd_cron_scan).  Before it buys it asks the entry governor  *)
(* (src/entry_governor.py), which counts the entries of the local day and,  *)
(* in a NEUTRAL market, those of the last 24 hours, and the daily loss      *)
(* breaker (src/daily_loss_breaker.py), which compares the account with the *)
(* first reading of the UTC day.  After it bought it writes four records,   *)
(* each in a transaction of its own: the trades row, the day's counter, the *)
(* NEUTRAL tag and the outcome row.  The governor takes the larger of two   *)
(* records for each of its two counts.                                      *)
(*                                                                          *)
(* A scan that was refused hands the reason to src/self_healer.py.  A person*)
(* may run scripts/auto_heal.py next to the scans: it looks at the breaker, *)
(* runs its other scanners and tests for minutes and then writes its fix.   *)
(*                                                                          *)
(* Time goes in slots.  The other gates (cooldown of a symbol, fallback     *)
(* flag, locks, trend, tiers, drawdown, sizing) appear as a refusal; the    *)
(* account reads as any of Equities.                                        *)
(***************************************************************************)
EXTENDS Integers, Functions, FiniteSetsExt

CONSTANTS DayLen,     \* slots of a day, and of the 24 hours of the windows
          LocalHour,  \* the slot local days begin with; UTC days begin with 0
          EntryCap,   \* DAILY_ENTRY_CAP
          NeutralCap, \* NEUTRAL_ENTRY_CAP
          Equities,   \* values of the account
          Cash,       \* what the account reads as when its holdings do not show
          MaxTroubles \* in a behaviour: failed calls, wrong readings, deaths

ASSUME GateAssumption ==
    /\ DayLen \in Nat \ {0} /\ LocalHour \in 0 .. DayLen - 1
    /\ EntryCap \in Nat \ {0} /\ NeutralCap \in Nat \ {0}
    /\ Equities \subseteq Nat \ {0} /\ Equities # {} /\ Cash \in Nat \ {0}
    /\ MaxTroubles \in Nat

VARIABLES hour,
          day,      \* daily_loss_breaker:state
          gov,      \* the governor's keys: counter of the day, tags by age
          books,    \* BUY rows of the local day; NEUTRAL outcomes by age
          scan,
          healer,   \* auto_heal found a false trip: the date of the row it loaded
          troubles,
          hist      \* history: see Properties

vars == <<hour, day, gov, books, scan, healer, troubles, hist>>

Ages == 0 .. DayLen - 1
None == [a \in Ages |-> 0]
Total(w) == SumFunction(w)
More(w, n) == [w EXCEPT ![0] = @ + n]
OneMore(w) == More(w, 1)
Less(n) == IF n = 0 THEN 0 ELSE n - 1
Older(w) == [a \in Ages |-> IF a = 0 THEN 0 ELSE w[a - 1]]

Idle == [at |-> "idle", neutral |-> FALSE]
At(a) == scan.at = a
Go(a) == scan' = [scan EXCEPT !.at = a]
Trouble == troubles < MaxTroubles /\ troubles' = troubles + 1

-----------------------------------------------------------------------------
(* The daily loss breaker                                                   *)

\* A fresh row; `start` 0 asks the next check for the opening balance.
Blank == [start |-> 0, tier |-> 0, today |-> TRUE, halt |-> 0]

Lost(from, v, pct) == 100 * (from - v) >= pct * from

LossTier(from, v) ==
    CASE Lost(from, v, 3) -> 3
      [] Lost(from, v, 2) /\ ~Lost(from, v, 3) -> 2
      [] Lost(from, v, 1) /\ ~Lost(from, v, 2) -> 1
      [] OTHER -> 0

\* _auto_reset_if_new_day, and the opening balance of the day
NewDay(d) == IF d.today THEN d ELSE Blank
Opened(d, v) == IF d.start = 0 THEN [d EXCEPT !.start = v] ELSE d

\* Mutants: the tier follows the loss down as well; a profit lowers it
\* whatever it is.
MovedBothWays(d, v) ==
    [d EXCEPT !.tier = LossTier(d.start, v),
              !.halt = IF LossTier(d.start, v) = 3 THEN DayLen ELSE @]
MovedBelowZero(d, v) ==
    IF v > d.start THEN [d EXCEPT !.tier = @ - 1] ELSE d

\* A profit lowers the tier by one, a loss only raises it.
Moved(d, v) ==
    IF v > d.start /\ d.tier > 0 THEN [d EXCEPT !.tier = @ - 1]
    ELSE IF LossTier(d.start, v) > d.tier
    THEN [d EXCEPT !.tier = LossTier(d.start, v),
                   !.halt = IF LossTier(d.start, v) = 3 THEN DayLen ELSE @]
    ELSE d

Expired(d) == IF d.tier = 3 /\ d.halt = 0 THEN [d EXCEPT !.tier = 0] ELSE d

\* check_daily_loss, by the object of the scan's process, loaded just before
Checked(d, v) == Expired(Moved(Opened(NewDay(d), v), v))

-----------------------------------------------------------------------------
(* A scan                                                                   *)

\* A scan that found a candidate, in the market regime it adapted to
Start ==
    /\ At("idle")
    /\ \E n \in BOOLEAN : scan' = [at |-> "gate", neutral |-> n]
    /\ UNCHANGED <<hour, day, gov, books, healer, troubles, hist>>

\* hist: n and m records that the gate cannot count with, see PacesKept
Missed(h, n, m) ==
    [h EXCEPT !.slips = @ + n,
              !.misses = IF scan.neutral THEN More(@, m) ELSE @]

\* Mutant: the counter alone, without the rows of the trades table.
SeenCounter(rows) == gov.count

\* What the gate sees of the entries of the day and of the last 24 hours
SeenToday(rows) == Max({gov.count, IF rows THEN books.buys ELSE 0})
SeenNeutral(rows) == Max({Total(gov.tags), IF rows THEN Total(books.outcomes) ELSE 0})

Allowed(rows) ==
    /\ SeenToday(rows) < EntryCap
    /\ scan.neutral => SeenNeutral(rows) < NeutralCap

\* check_entry; a trades or outcomes table it cannot read counts for nothing
Gate ==
    /\ At("gate")
    /\ \E rows \in BOOLEAN :
        /\ IF rows THEN UNCHANGED <<troubles, hist>>
           ELSE /\ Trouble
                /\ hist' = Missed(hist, 1, 1)
        /\ IF Allowed(rows) THEN Go("check") ELSE scan' = Idle
    /\ UNCHANGED <<hour, day, gov, books, healer>>

\* The governor fails open.
GateFails ==
    /\ At("gate") /\ Trouble /\ Go("check")
    /\ hist' = Missed(hist, 2, 2)
    /\ UNCHANGED <<hour, day, gov, books, healer>>

\* Another gate, the sizing or the exchange refuses.
Refuse ==
    /\ At("check") \/ At("buy")
    /\ scan' = Idle
    /\ UNCHANGED <<hour, day, gov, books, healer, troubles, hist>>

\* hist.opening and hist.fell follow the readings of the UTC day.
Read(h, v) ==
    LET o == IF h.opening = 0 THEN v ELSE h.opening
    IN  [h EXCEPT !.opening = o,
                  !.fell = IF Lost(o, v, 2) THEN TRUE ELSE @ /\ v <= o,
                  !.halt = IF Lost(o, v, 3) THEN DayLen ELSE @]

\* The daily loss part of _pretrade_risk_checks.  Unread holdings leave the cash.
PreTrade ==
    /\ At("check")
    /\ \E v \in Equities \cup {Cash} :
        /\ IF v \in Equities THEN UNCHANGED troubles ELSE Trouble
        /\ day' = Checked(day, v)
        /\ hist' = Read(hist, v)
        /\ Go(IF day'.tier >= 2 THEN "heal" ELSE "buy")
    /\ UNCHANGED <<hour, gov, books, healer>>

\* The check raises: the scan is refused with "Daily loss breaker check failed".
PreTradeFails ==
    /\ At("check") /\ Trouble /\ Go("heal")
    /\ UNCHANGED <<hour, day, gov, books, healer, hist>>

Healed(h) == [h EXCEPT !.opening = 0, !.fell = FALSE]

\* diagnose_and_fix meets "daily loss" in the reason: _fix_breaker_false_trigger
Heal ==
    /\ At("heal") /\ scan' = Idle
    /\ IF day.tier = 3
       THEN /\ day' = [day EXCEPT !.tier = 0, !.start = 0, !.halt = 0]
            /\ hist' = Healed(hist)
       ELSE UNCHANGED <<day, hist>>
    /\ UNCHANGED <<hour, gov, books, healer, troubles>>

\* place_market_buy fills.
Buy ==
    /\ At("buy") /\ Go("book")
    /\ hist' = [hist EXCEPT !.taken = @ + 1,
                            !.pace = IF scan.neutral THEN OneMore(@) ELSE @]
    /\ UNCHANGED <<hour, day, gov, books, healer, troubles>>

\* A record of the entry is written, or the write fails and the scan goes on.
Records(step, next) ==
    /\ At(step)
    /\ scan' = IF next = "idle" THEN Idle ELSE [scan EXCEPT !.at = next]

Book ==
    /\ Records("book", "count")
    /\ \/ /\ books' = [books EXCEPT !.buys = @ + 1]
          /\ UNCHANGED <<troubles, hist>>
       \/ Trouble /\ hist' = Missed(hist, 1, 0) /\ UNCHANGED books
    /\ UNCHANGED <<hour, day, gov, healer>>

\* note_entry: the counter, then the tag
Count ==
    /\ Records("count", IF scan.neutral THEN "tag" ELSE "outcome")
    /\ \/ gov' = [gov EXCEPT !.count = @ + 1] /\ UNCHANGED <<troubles, hist>>
       \/ Trouble /\ hist' = Missed(hist, 1, 0) /\ UNCHANGED gov
    /\ UNCHANGED <<hour, day, books, healer>>

Tag ==
    /\ Records("tag", "outcome")
    /\ \/ gov' = [gov EXCEPT !.tags = OneMore(@)] /\ UNCHANGED <<troubles, hist>>
       \/ Trouble /\ hist' = Missed(hist, 0, 1) /\ UNCHANGED gov
    /\ UNCHANGED <<hour, day, books, healer>>

\* record_entry of the outcome
Outcome ==
    /\ Records("outcome", "idle")
    /\ \/ /\ books' = [books EXCEPT !.outcomes = IF scan.neutral THEN OneMore(@) ELSE @]
          /\ UNCHANGED <<troubles, hist>>
       \/ Trouble /\ hist' = Missed(hist, 0, 1) /\ UNCHANGED books
    /\ UNCHANGED <<hour, day, gov, healer>>

\* The process of the scan ends between two writes.
Die ==
    /\ ~At("idle") /\ Trouble
    /\ scan' = Idle
    /\ hist' = CASE At("book") -> Missed(hist, 2, 2)
                 [] At("count") -> Missed(hist, 1, 2)
                 [] At("tag") -> Missed(hist, 0, 2)
                 [] At("outcome") -> Missed(hist, 0, 1)
                 [] OTHER -> hist
    /\ UNCHANGED <<hour, day, gov, books, healer>>

-----------------------------------------------------------------------------
(* Other processes, and time                                                *)

\* The BUY row of an addition to a position, or of a purchase booked late
OtherBuy ==
    /\ books.buys < EntryCap
    /\ books' = [books EXCEPT !.buys = @ + 1]
    /\ UNCHANGED <<hour, day, gov, scan, healer, troubles, hist>>

\* check_state_integrity finds tier 3, and a loss that is less than 3% by now.
HealerLooks ==
    /\ healer = "away" /\ day.tier = 3 /\ day.start > 0
    /\ healer' = IF day.today THEN "today" ELSE "earlier"
    /\ UNCHANGED <<hour, day, gov, books, scan, troubles, hist>>

\* fix_breaker writes the object back, whatever the row has become.
HealerFixes ==
    /\ healer # "away" /\ healer' = "away"
    /\ day' = [Blank EXCEPT !.today = healer = "today"]
    /\ hist' = Healed(hist)
    /\ UNCHANGED <<hour, gov, books, scan, troubles>>

\* Trip and tags grow older; keys and rows of another day are not read again.
Tick ==
    LET h == IF hour + 1 = DayLen THEN 0 ELSE hour + 1
        utc == h = 0
        local == h = LocalHour
    IN  /\ hour' = h
        /\ day' = [day EXCEPT !.today = @ /\ ~utc, !.halt = Less(@)]
        /\ gov' = [count |-> IF local THEN 0 ELSE gov.count, tags |-> Older(gov.tags)]
        /\ books' = [buys |-> IF local THEN 0 ELSE books.buys, outcomes |-> Older(books.outcomes)]
        /\ healer' = IF healer = "today" /\ utc THEN "earlier" ELSE healer
        /\ hist' = [hist EXCEPT !.taken = IF local THEN 0 ELSE @, !.slips = IF local THEN 0 ELSE @,
                                !.pace = Older(@), !.misses = Older(@),
                                !.opening = IF utc THEN 0 ELSE @, !.fell = @ /\ ~utc,
                                !.halt = Less(@)]
        /\ UNCHANGED <<scan, troubles>>

-----------------------------------------------------------------------------
Init ==
    /\ hour = 0
    /\ day = [Blank EXCEPT !.today = FALSE]
    /\ gov = [count |-> 0, tags |-> None]
    /\ books = [buys |-> 0, outcomes |-> None]
    /\ scan = Idle /\ healer = "away" /\ troubles = 0
    /\ hist = [taken |-> 0, slips |-> 0, pace |-> None, misses |-> None,
               opening |-> 0, fell |-> FALSE, halt |-> 0]

Next ==
    \/ Start \/ Gate \/ GateFails \/ Refuse \/ PreTrade \/ PreTradeFails \/ Heal
    \/ Buy \/ Book \/ Count \/ Tag \/ Outcome \/ Die
    \/ OtherBuy \/ HealerLooks \/ HealerFixes \/ Tick

Spec == Init /\ [][Next]_vars

-----------------------------------------------------------------------------
(* Properties                                                               *)
(*                                                                          *)
(* hist.taken, hist.pace: entries of the local day, NEUTRAL ones by age;    *)
(* hist.slips, hist.misses: records of them that were not written or could  *)
(* not be read, a gate that failed open counting as two; hist.opening,      *)
(* hist.fell: the first reading of the UTC day since the breaker was reset, *)
(* and whether one 2% below it was read and none above it after;            *)
(* hist.halt: what is left of the 24 hours after a loss of 3%.              *)

Days == [start : {0, Cash} \cup Equities, tier : 0 .. 3, today : BOOLEAN, halt : 0 .. DayLen]
Windows == [Ages -> Nat]
Histories == [taken : Nat, slips : Nat, pace : Windows, misses : Windows,
              opening : {0, Cash} \cup Equities, fell : BOOLEAN, halt : 0 .. DayLen]
Steps == {"idle", "gate", "check", "heal", "buy", "book", "count", "tag", "outcome"}

TypeOK ==
    /\ hour \in Ages /\ day \in Days
    /\ gov \in [count : Nat, tags : Windows]
    /\ books \in [buys : Nat, outcomes : Windows]
    /\ scan \in [at : Steps, neutral : BOOLEAN]
    /\ healer \in {"away", "today", "earlier"} /\ troubles \in 0 .. MaxTroubles
    /\ hist \in Histories

\* Each count is kept twice, and losing one of two records, or one reading of
\* it, never lets an entry over the cap of the day or of the NEUTRAL window
\* through, whenever midnight comes (check_entry's cold-start backstops).
PacesKept ==
    /\ hist.slips <= 1 => hist.taken <= EntryCap
    /\ Total(hist.misses) <= 1 => Total(hist.pace) <= NeutralCap

Enters == At("buy") /\ hist'.taken > hist.taken

\* A reading 2% below the first one of its UTC day stops entries, in every later
\* process, until the account reads above that first one, the day is over or a
\* healer has taken the trip for a false one (daily_loss_breaker.py:249).
BrakeHolds == [][Enters => ~hist.fell]_vars

\* "Full halt (daily loss >= 3%) -> close ALL positions, halt 24h"
\* (daily_loss_breaker.py:8): no position is opened in the 24 hours after it.
HaltHolds == [][Enters => hist.halt = 0]_vars
=============================================================================
