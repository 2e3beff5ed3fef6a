---------------------------- MODULE CircuitTiers ----------------------------
(***************************************************************************)
(* src/circuit_tiers.py: the drawdown tiers that stop new entries, shrink   *)
(* the open exposure and sell everything, with the entry gate of            *)
(* src/trade_executor.py that reads them.                                   *)
(*                                                                          *)
(* One round loads the stored state, marks the account to market, decides,  *)
(* sells position by position, and stores the state at its very end.  Next  *)
(* to it a person may reset the tiers (load, then store), prices move, the  *)
(* resting legs of a position may fill, and the process may die.            *)
(*                                                                          *)
(* Amounts are whole units of the quote asset, the clock counts ticks.      *)
(***************************************************************************)
EXTENDS Integers, Functions, FiniteSetsExt

CONSTANTS Symbols,       \* positions the account may hold
          StartClock,    \* the tick a run begins with
          DayLen,        \* ticks per UTC day
          Cooldown,      \* COOLDOWN_S, in ticks
          StartCash, StartValue,
          PriceMoves,    \* a position may go to this percentage of its value
          CashDrift,     \* the cash table may differ from the account by these
          EntrySize,     \* what a new entry buys
          MinNotional,   \* the exchange sells nothing smaller
          MaxClock,      \* bounds: clock, entries and other changes,
          MaxMoves,      \* failing calls and manual resets
          MaxFaults, MaxResets

ASSUME TiersAssumption ==
    /\ IsFiniteSet(Symbols)
    /\ StartClock \in Nat
    /\ DayLen \in Nat \ {0}
    /\ Cooldown \in Nat
    /\ StartCash \in Nat /\ StartValue \in [Symbols -> Nat]
    /\ PriceMoves \subseteq Nat /\ CashDrift \subseteq Int
    /\ EntrySize \in Nat /\ MinNotional \in Nat \ {0}
    /\ {MaxClock, MaxMoves, MaxFaults, MaxResets} \subseteq Nat

VARIABLES
    clock,
    cash, value,   \* the account: quote balance, value of each position
    legs,          \* positions with resting SELL orders
    rows,          \* positions the portfolio table has a row for
    mode,          \* kv CIRCUIT_TIERS_MODE
    extreme,       \* hmm_regime is one of EXTREME_REGIMES
    kv,            \* kv circuit_tiers:state
    pc,            \* the round: "idle", or "sell" until the state is stored
    st,            \* the state the round will store
    marks,         \* what the round read: value of each position
    queue,         \* positions it has still to look at
    left, goal,    \* open notional as the round counts it, and its target
    human,         \* what a reset in progress has loaded
    resets, calm,  \* history: resets made; nothing disturbed the round
    moves, faults

account == <<cash, value, legs, rows>>
env == <<mode, extreme, human, resets>>
round == <<pc, st, marks, queue, left, goal>>
bounds == <<moves, faults>>
vars == <<clock, account, env, kv, round, calm, bounds>>

Never == -1
Unset == [tier |-> 0, tripped |-> Never, day |-> Never, anchor |-> 0]
NoMarks == [s \in Symbols |-> 0]

ValueOf(v) == SumFunctionOnSet(v, Symbols)
Equity == cash + ValueOf(value)

-----------------------------------------------------------------------------
(* The decision                                                             *)

\* Mutant of Down: the boundary itself does not trip.
DownStrictly(anchor, equity, pct) == 100 * (anchor - equity) > pct * anchor

\* The drawdown from anchor to equity is at least pct percent.
Down(anchor, equity, pct) == 100 * (anchor - equity) >= pct * anchor

Today == clock \div DayLen

\* _day_anchor: the first evaluation of a day sets its anchor, to the equity e
\* that the round has read.
Anchored(k, e) ==
    IF k.day # Today \/ k.anchor <= 0
      THEN [k EXCEPT !.day = Today, !.anchor = e]
      ELSE k

Target(anchor, equity) ==
    IF Down(anchor, equity, 15) THEN 3
    ELSE IF Down(anchor, equity, 10) THEN 2
    ELSE IF Down(anchor, equity, 6) THEN 1 ELSE 0

\* Mutants of Latched: a bounce lowers the tier; of Released: tier 3 releases
\* like the others, the regime is not asked, the cooldown is not awaited.
FollowsDrawdown(target, prev) == target
ReleasedAtAnyTier(k, new, target, e) ==
    new >= 1 /\ target = 0 /\ ~Down(k.anchor, e, 3) /\ ~extreme
    /\ clock - k.tripped >= Cooldown
ReleasedOnlyTier1(k, new, target, e) ==
    new = 1 /\ target = 0 /\ ~Down(k.anchor, e, 3) /\ ~extreme
    /\ clock - k.tripped >= Cooldown
ReleasedEarly(k, new, target, e) ==
    new \in {1, 2} /\ target = 0 /\ ~Down(k.anchor, e, 3) /\ ~extreme

\* All tiers latch on trip.
Latched(target, prev) == IF target > prev THEN target ELSE prev

\* Auto-release of tiers 1 and 2: recovered, calm regime, cooldown over.
Released(k, new, target, e) ==
    /\ new \in {1, 2}
    /\ target = 0
    /\ ~Down(k.anchor, e, 3)
    /\ ~extreme
    /\ k.tripped # Never /\ clock - k.tripped >= Cooldown

Update(k, tier, tripped) ==
    [tier |-> tier, tripped |-> tripped, day |-> k.day, anchor |-> k.anchor]

\* The state to be stored: released, tripped higher, or held.
Decided(k, e) ==
    LET target == Target(k.anchor, e)
        new == Latched(target, k.tier)
    IN  IF Released(k, new, target, e)
          THEN Update(k, 0, Never)
          ELSE Update(k, new, IF new > k.tier THEN clock ELSE k.tripped)

\* Exposure target of tier 2.
Goal(equity) == (40 * equity) \div 100

\* Mutant of SellsNow: exposure is compressed in the round of the trip only.
SellsOnTrip(prev, new) == mode = "act" /\ new > prev /\ new >= 2

\* Tier 2 compresses in every round it holds; tier 3 liquidates in the round
\* of its trip.
SellsNow(prev, new) ==
    /\ mode = "act"
    /\ \/ new = 2
       \/ new = 3 /\ prev < 3

EntryBlocked == kv.tier >= 1

-----------------------------------------------------------------------------
(* One evaluation round                                                     *)

NoRound == pc' = "idle" /\ st' = Unset /\ marks' = NoMarks /\ queue' = {}
           /\ left' = 0 /\ goal' = 0

\* State, regime and mode are read, and the round is decided on an equity e and
\* positions as seen.  (A round with nothing to anchor to changes nothing.)
Evaluate(e, seen) ==
    /\ pc = "idle"
    /\ Anchored(kv, e).anchor > 0
    /\ st' = Decided(Anchored(kv, e), e)
    /\ marks' = seen
    /\ left' = ValueOf(seen)
    /\ goal' = Goal(e)
    /\ queue' = IF SellsNow(kv.tier, st'.tier) THEN {s \in Symbols : seen[s] > 0} ELSE {}
    /\ pc' = "sell"
    /\ UNCHANGED <<clock, account, env, kv, moves>>

\* The account is read and marked to market.  (A round without a mark for a
\* position with a row changes nothing.)
StartRound ==
    /\ Evaluate(Equity, value)
    /\ calm' = TRUE
    /\ UNCHANGED faults

SeenOnly(known) == [s \in Symbols |-> IF s \in known THEN value[s] ELSE 0]

\* A reading fails.  Without a mark, what has no row (or whose row cannot be read
\* either) is left out of equity and positions; without the account, the cash
\* table and the rows stand for it, and what the table and the quantities of the
\* rows are off by is the drift.
StartMisread ==
    /\ faults < MaxFaults /\ faults' = faults + 1
    /\ calm' = FALSE
    /\ \E known \in SUBSET Symbols, drift \in CashDrift \cup {0} :
         /\ drift = 0 \/ known = rows
         /\ cash + drift >= 0
         /\ Evaluate(cash + drift + ValueOf(SeenOnly(known)), SeenOnly(known))

\* _deleverage_to_target stops at its target, _liquidate_all at the last mark.
Enough == queue = {} \/ (st.tier = 2 /\ left <= goal)

\* What is asked for of a position, and what that brings at today's price.
Asked(s) == IF st.tier = 2 /\ left - goal < marks[s] THEN left - goal ELSE marks[s]

\* Mutant of Proceeds: the sale is booked at the mark the round had read.
ProceedsAtMark(s) == Asked(s)

Proceeds(s) == (value[s] * Asked(s)) \div marks[s]

\* Mutant of Count: a sale is not taken off the running exposure.
CountNothing(q) == UNCHANGED left

Count(q) == left' = left - q

\* Mutant of Closed: a partial sale pops the whole row, as it once did.
ClosedAlways(s) == TRUE

\* The row goes with a full sale only; a partial one leaves it to the
\* reconciler, which trims it and keeps its stop and its clock.
Closed(s) == 1000 * Asked(s) >= 999 * marks[s]

CloseRow(s) == rows' = IF Closed(s) THEN rows \ {s} ELSE rows

Sold(s, q) == cash' = cash + q /\ value' = [value EXCEPT ![s] = @ - q]

\* What the exchange sells: nothing locked by legs, nothing below its minimum.
Saleable(s) == s \notin legs' /\ Proceeds(s) >= MinNotional

NoSale == UNCHANGED <<cash, value, rows, left>>

\* A good order goes wrong: refused, or filled without an answer, or filled
\* and the row could not be closed.
SaleFails(s) ==
    /\ faults < MaxFaults /\ faults' = faults + 1 /\ calm' = FALSE
    /\ \/ NoSale
       \/ Sold(s, Proceeds(s)) /\ UNCHANGED <<rows, left>>
       \/ Sold(s, Proceeds(s)) /\ Count(Proceeds(s)) /\ UNCHANGED rows

\* The resting legs are cancelled (a failure only warns, and the position stays
\* locked), then the position is sold at market, the largest first.
SellNext ==
    /\ pc = "sell" /\ ~Enough
    /\ \E s \in queue :
         /\ \A t \in queue : marks[t] <= marks[s]
         /\ queue' = queue \ {s}
         /\ \/ /\ legs' = legs \ {s}
               /\ \/ /\ Saleable(s)
                     /\ Sold(s, Proceeds(s)) /\ Count(Proceeds(s)) /\ CloseRow(s)
                     /\ UNCHANGED <<calm, faults>>
                  \/ ~Saleable(s) /\ NoSale /\ UNCHANGED <<calm, faults>>
                  \/ Saleable(s) /\ SaleFails(s)
            \/ /\ s \in legs /\ faults < MaxFaults
               /\ faults' = faults + 1 /\ calm' = FALSE
               /\ NoSale /\ UNCHANGED legs
    /\ UNCHANGED <<clock, env, kv, pc, st, marks, goal, moves>>

\* The state is stored, whatever was stored in between.
SaveRound ==
    /\ pc = "sell" /\ Enough
    /\ kv' = st
    /\ NoRound
    /\ UNCHANGED <<clock, account, env, calm, bounds>>

\* The round dies, or evaluate_and_act catches an error: nothing is stored.
Die ==
    /\ pc = "sell"
    /\ faults < MaxFaults /\ faults' = faults + 1
    /\ NoRound
    /\ calm' = FALSE
    /\ UNCHANGED <<clock, account, env, kv, moves>>

-----------------------------------------------------------------------------
(* Around the round                                                         *)

\* manual_reset, in the process of the person who calls it.
ResetLoad ==
    /\ ~human.busy /\ resets < MaxResets
    /\ human' = [busy |-> TRUE, k |-> kv]
    /\ UNCHANGED <<clock, account, mode, extreme, kv, round, resets, calm, bounds>>

ResetStore ==
    /\ human.busy
    /\ kv' = Update(human.k, 0, Never)
    /\ human' = [busy |-> FALSE, k |-> Unset]
    /\ resets' = resets + 1
    /\ calm' = FALSE
    /\ UNCHANGED <<clock, account, mode, extreme, round, bounds>>

\* A new entry passes the gate, or the gate fails (it fails open).  Entries and
\* rounds are steps of one scan, so none falls into a round.
Enter(s) ==
    /\ pc = "idle"
    /\ \/ ~EntryBlocked /\ UNCHANGED faults
       \/ EntryBlocked /\ faults < MaxFaults /\ faults' = faults + 1
    /\ cash >= EntrySize /\ moves < MaxMoves
    /\ cash' = cash - EntrySize
    /\ value' = [value EXCEPT ![s] = @ + EntrySize]
    /\ legs' = legs \cup {s} /\ rows' = rows \cup {s}
    /\ moves' = moves + 1
    /\ UNCHANGED <<clock, env, kv, round, calm>>

\* The other steps of a scan: the rows are synced with the account, and
\* protection_guardian.run puts legs on every position.
Rearm ==
    /\ pc = "idle"
    /\ rows' = {s \in Symbols : value[s] > 0}
    /\ legs' = rows'
    /\ UNCHANGED <<clock, cash, value, env, kv, round, calm, bounds>>

Changes == moves < MaxMoves /\ moves' = moves + 1 /\ calm' = FALSE

PriceMove(s) ==
    /\ Changes
    /\ \E pct \in PriceMoves : value' = [value EXCEPT ![s] = (@ * pct) \div 100]
    /\ UNCHANGED <<clock, cash, legs, rows, env, kv, round, faults>>

LegsFill(s) ==
    /\ Changes
    /\ s \in legs
    /\ Sold(s, value[s])
    /\ legs' = legs \ {s}
    /\ UNCHANGED <<clock, rows, env, kv, round, faults>>

SetMode ==
    /\ Changes
    /\ mode' = IF mode = "act" THEN "report" ELSE "act"
    /\ UNCHANGED <<clock, account, extreme, human, resets, kv, round, faults>>

RegimeTurns ==
    /\ Changes
    /\ extreme' = ~extreme
    /\ UNCHANGED <<clock, account, mode, human, resets, kv, round, faults>>

Tick ==
    /\ clock < MaxClock
    /\ clock' = clock + 1
    /\ UNCHANGED <<account, env, kv, round, calm, bounds>>

Round == StartRound \/ SellNext \/ SaveRound

Next ==
    \/ Round \/ StartMisread \/ Die
    \/ ResetLoad \/ ResetStore
    \/ \E s \in Symbols : Enter(s) \/ PriceMove(s) \/ LegsFill(s)
    \/ Rearm \/ SetMode \/ RegimeTurns \/ Tick

Init ==
    /\ clock = StartClock
    /\ cash = StartCash /\ value = StartValue
    /\ rows = {s \in Symbols : StartValue[s] > 0} /\ legs = rows
    /\ mode \in {"report", "act"} /\ extreme \in BOOLEAN
    /\ kv = Unset
    /\ pc = "idle" /\ st = Unset /\ marks = NoMarks /\ queue = {}
    /\ left = 0 /\ goal = 0
    /\ human = [busy |-> FALSE, k |-> Unset]
    /\ resets = 0 /\ calm = FALSE
    /\ moves = 0 /\ faults = 0

Spec == Init /\ [][Next]_vars

\* Every scan evaluates, also the ones that end early (the finally block of
\* cmd_cron_scan runs the defence sweep).
FairSpec == Spec /\ WF_vars(Round)

-----------------------------------------------------------------------------
(* Properties                                                               *)

StateTyped(k) ==
    /\ k = [tier |-> k.tier, tripped |-> k.tripped, day |-> k.day, anchor |-> k.anchor]
    /\ k.tier \in 0 .. 3
    /\ k.tripped \in Nat \cup {Never}
    /\ k.day \in Int
    /\ k.anchor \in Nat

\* Types; no position is sold below zero.
TypeOK ==
    /\ clock \in Nat
    /\ cash \in Nat /\ value \in [Symbols -> Nat] /\ legs \subseteq Symbols /\ rows \subseteq Symbols
    /\ mode \in {"report", "act"} /\ extreme \in BOOLEAN
    /\ StateTyped(kv) /\ StateTyped(st)
    /\ human = [busy |-> human.busy, k |-> human.k]
    /\ human.busy \in BOOLEAN /\ StateTyped(human.k)
    /\ resets \in Nat /\ calm \in BOOLEAN
    /\ pc \in {"idle", "sell"}
    /\ marks \in [Symbols -> Nat] /\ queue \subseteq Symbols
    /\ \A s \in queue : marks[s] > 0
    /\ left \in Int /\ goal \in Nat
    /\ moves \in Nat /\ faults \in Nat

\* The tiers implement the latch: while the account, the market, a person and
\* crashes interleave with a round, a tier only rises, is released from 1 or 2
\* after its cooldown, or is cleared by a person (circuit_tiers.py:11-15, 441).
Latch == INSTANCE TierLatch WITH tier <- kv.tier, since <- kv.tripped
LatchSpec == Latch!Spec

\* What a round nothing disturbed releases had recovered, in a calm regime: the
\* three conditions still hold at the time the release is stored.
ReleaseMeansRecovered ==
    [][(kv.tier > 0 /\ kv'.tier = 0 /\ resets' = resets /\ calm)
         => ~extreme /\ ~Down(kv'.anchor, Equity, 3)]_vars

\* A position that is still held keeps its row, and with it its stop and its
\* entry time: whatever prices and failing calls do, a row goes only with a sale
\* that leaves no more than a thousandth of the position, to the unit that the
\* division cuts off (circuit_tiers.py:288-303).
RowKept == [][\A s \in rows \ rows' : 1000 * value'[s] < value[s] + 1000]_vars

Unsellable == \A s \in Symbols : value[s] < MinNotional
Open == ValueOf(value)

\* Tier 2 sells what is over the target and no more: at the end of a round
\* nothing disturbed the exposure was not taken below its target, and what is
\* still over it cannot be sold (_deleverage_to_target's running exposure).
DeleverageExact ==
    (pc = "sell" /\ Enough /\ calm /\ st.tier = 2 /\ mode = "act")
      => /\ Open >= Min({goal, ValueOf(marks)})
         /\ Open - goal < MinNotional \/ Unsellable

\* A drawdown of 6% stops new entries: a round that nothing has disturbed since
\* leaves no such drawdown with an open gate, the boundary included.
DrawdownStopsEntries ==
    (pc = "idle" /\ calm /\ kv.anchor > 0 /\ 100 * (kv.anchor - Equity) >= 6 * kv.anchor)
      => EntryBlocked

\* A tier 2 that holds in act mode compresses the exposure in the end, also
\* when the sells of the first round failed or the round died.
Deleveraged ==
    <>[](kv.tier = 2 /\ mode = "act")
      => <>[](Open - Goal(Equity) < MinNotional \/ Unsellable)

\* A tier 1 or 2 whose three release conditions hold for good is released.
Releasable ==
    /\ kv.tier \in {1, 2} /\ kv.day = Today
    /\ ~Down(kv.anchor, Equity, 3) /\ ~extreme
    /\ clock - kv.tripped >= Cooldown
ReleasedWhenSafe == []<>~Releasable

\* "LIQUIDATE_ALL market-sell everything" (circuit_tiers.py:6): a tier 3 that
\* holds in act mode leaves nothing that can be sold.
Liquidated == <>[](kv.tier = 3 /\ mode = "act") => <>[]Unsellable
=============================================================================
