# A verification project for crypto-ai-trader

TLA+ models of the parts of `src/crypto-ai-trader` that hold the trading system's
safety, the TLC runs that check them on small instances, and TLAPS proofs of what
matters most for every instance. All paths below are under
`src/crypto-ai-trader/src/` unless they say otherwise.

## 1. The system

The program trades on a spot exchange. Every few minutes cron starts one *scan*
(`scan_orchestrator.cmd_cron_scan`), a single process that holds a file lock and runs
a fixed sequence of steps; between scans only the exchange, a person and a few helper
processes act. State lives in SQLite (`state_db`: a kv store and tables), in the
account at the exchange, and in a few files.

| Component | State it keeps | Operations | Talks to |
|---|---|---|---|
| scan pipeline (`scan_orchestrator`, `scan_phases`, `execute_phases`) | file lock, per-scan context | scan, research, execute, reconcile, exit, defence sweep; on every path the final sweep of the `finally` block | all of the below |
| protection guardian (`protection_guardian`, `protect_qty`) | kv `gov:swap_ts:<symbol>`, audit rows | `run`: heal the protective orders of each held position | exchange, rows, shapes |
| protection shapes (`protection_shape`) | none (a table) | `classify`, `audit_transition`, `structural_invariants` | guardian |
| exchange clients (`_binance_sdk_client`, `ccxt_client`) | none that counts | `place_order`, `place_oco`, `cancel_order`, `get_open_orders` | the exchange |
| circuit tiers (`circuit_tiers`) | kv `circuit_tiers:state` (tier, trip time, day, anchor) | `evaluate_and_act`, `manual_reset`, `entry_blocked` | exchange, executor |
| position rows and tracker (`portfolio`, `portfolio_state`, `tp_sl_tracker`) | table of positions, the orders of each | open, close, `sync_from_binance`, fold a filled leg | exchange, every step |
| entry ladder (`trade_executor._place_sl_tp_orders`) | the tracker, the alerts | stop, take-profit, OCO or ladder after a buy | exchange, tracker |
| exit check (`exit_check`) | kv marks of the first tranche and the cooldown | judge, cancel, sell, protect the rest, book | exchange, rows |
| trailing check (`cmd_trailing_check`) | table `trailing_stop` | bank a take-profit, move the stop, cover the rest | exchange, tracker |
| reconciler, ledger, trades (`portfolio_reconciler`, `ledger`, `state_db`) | trades, event log, shadow position | book missing fills once | exchange, rows |
| drawdown brakes (`drawdown_breaker`, `stepwise_drawdown`) | table `drawdown`, kv cooldown, veto, ramp, ladder | trip, release, flat reset, escalate | gates of the entry |
| entry gate (`entry_governor`, `daily_loss_breaker`) | kv counter of the day, NEUTRAL tags, kv `daily_loss_breaker:state` | count entries, open the day, trip, halt | executor, tables of trades and outcomes |
| healers (`self_healer`, `scripts/auto_heal`) | none | diagnose a refusal, erase a trip taken for a false one | the daily loss breaker |
| other gates (`risk_manager`, `circuit_breaker`, `protections`) | kv counters, locks | decide whether an entry is allowed | kv |
| stuck-order monitor, dust reaper | kv stamps | cancel stale entries, sell residues | exchange, rows |
| event bus, outbox, notifier | tables of events and messages | publish, prune, deliver at least once | file-reading consumers |
| pending confirmation | one file | write, read once, expire | a person |
| user data stream | socket, last event | reconnect, push fills | rows |
| research, feeds, indicators, learning, backtests, paper engines | caches, models | scores and regimes | executor (as inputs) |

What makes it hard:

- **The repair is not atomic.** A quantity sold by a resting order is locked, so a stop
  has to be cancelled before the order that replaces it can be placed. Between the two
  calls the market moves, the process dies, or the second call is refused.
- **Answers get lost.** The clients turn most failures into `None`; the caller cannot
  tell "refused" from "accepted, answer lost".
- **Sequences of sweeps.** Each step starts from what the last scan left, so a pair of
  harmless repairs can undo each other forever. The source tells of both directions
  (pairs torn apart daily, positions naked for a night).
- **Load, act, store.** Tiers, breakers and counters are loaded, acted upon for minutes
  and stored whole; a person's reset or another process may come in between. One scan
  even holds two copies of the drawdown row, one per asker.
- **Many bookers.** The sale a resting order makes is told to nobody. Three paths book
  it, in two processes, under two kinds of key, into two sets of books.
- **Thresholds** at exact boundaries, cooldowns and midnight rollovers.

What would make each component correct: a position that has a stop keeps one, and one
that can be stopped gets one; a legal book is left alone; a heal never sells; tiers only
rise until released under their conditions; tier 2 sells down to its target and not
below; a fill is booked exactly once; caps hold although records are lost; a halt lasts
as long as it says; messages get through; two scans never overlap.

## 2. Modules

| Module | Models |
|---|---|
| `SpotExchange` | external: price, free balance, book of resting SELL orders, locked quantities; what the exchange does with an order, a cancel, a move |
| `ProtectionShape` | `protection_shape.py`: coverage, shapes, the declared transitions, and the table's own invariants |
| `ProtectionGuardian` | `protection_guardian.run` for one position, over the two above |
| `SumTheorems` | lemmas about sums over finite sets, for the proofs |
| `ProtectionGuardian_proofs`, `GuardianLadders_proofs` | TLAPS proofs: types and signals; the rescue ladder and the coverage |
| `MCProtectionGuardian` | instances for TLC |
| `TierLatch` | what the tiers promise: trip, release after cooldown, reset by a person |
| `CircuitTiers` | `circuit_tiers.py` round by round, with the entry gate |
| `CircuitTiers_proofs` | TLAPS proofs, among them that `CircuitTiers` implements `TierLatch` |
| `MCCircuitTiers` | instances for TLC |
| `OrderCalls` | the order endpoints as callers see them: an answer, or `None` for refused, lost, or done and unheard |
| `PositionState` | row, tracker and tranche mark of one position; the sync, the booking and the folding of fills |
| `EntryLadder`, `ExitChain`, `TrailingCheck` | `_place_sl_tp_orders`, `exit_check`, `cmd_trailing_check`, one request per action |
| `PositionLife`, `MCPositionLife` | the three of them as the steps of a scan, with the panel's forceexit, the market and death; its instance |
| `PositionLife_proofs` | TLAPS proofs |
| `FillBooks`, `MCFillBooks` | how sales get into trades, event log and shadow position; its instance |
| `FillBooks_proofs` | TLAPS proofs |
| `StepwiseDrawdown`, `DrawdownBreaker` | the two brakes as functions: the level after a reading; answer and writes of `check_drawdown` |
| `DrawdownGates`, `MCDrawdownGates` | everyone who asks the brakes, write by write, over days; its instance |
| `DrawdownGates_proofs` | TLAPS proofs |
| `EntryGate`, `MCEntryGate` | the governor's counts and the daily loss breaker, with the records of an entry and the two healers, over days; its instance |
| `EntryGate_proofs` | TLAPS proofs |

### ProtectionGuardian

One exchange call is one step; everything the sweep decides, it decides from `snap`,
the copy it read. `pc` names the branch (`emergency`, `sliceOco`, `sliceTp`,
`cancelTp` -> `rebuild` -> `restoreTp` -> `demote` -> `restoreLast`,
`cancelSl` -> `swap` -> `restoreSl`), `stage` the place in `protect_qty`'s two-step
placement (`size` = calibrate to the free balance, `place`, `again` = the downgraded
retry). `pos` is the row, `swapRecent` says that `gov:swap_ts` is younger than 24h,
`audit` is the last GUARDIAN_SHAPE_TRANSITION row. `sweep` and `sent` are history.

A call that fails is what the clients make of it: a placement returns `None` whether it
was refused or the answer was lost (`Send`); a cancel that returns `None` counts as
cancelled, only an exception does not (`SendCancel`); a failing `get_open_orders`
reads as an empty book; an unreadable balance as 0. `Abandon` cuts the sweep short at
any call. Prices move and legs fill between any two calls; the matching engine serves
what a price has reached before it serves the next request (`Settled`).

Positions do not interact in `run` except by the budget of faults, so one position
stands for all. Prices are percent of the entry, so that the code's factors (0.87,
0.92, 0.93, 0.995, 1.001, 1.04) are exact or floored to a percent. The two kv writes of
the swap stamp are taken to succeed (a failing kv write is swallowed by the code, and
the debounce is then lost).

### CircuitTiers

`StartRound` reads everything and decides (`Decided`: anchor of the day, target tier,
latch, release, trip); `StartMisread` decides on what a failed reading leaves: the cash table
and the rows when the account cannot be read (`CashDrift` is what they are off by), or the
account without a position that has no mark and no row; `SellNext` is one position of `_deleverage_to_target` or
`_liquidate_all` (largest first, cancel of the legs, market sell), `SaveRound` stores
the state, `Die` loses it. `ResetLoad`/`ResetStore` is `manual_reset` in another
process, between any two steps. `Enter` passes `entry_blocked`, which fails open.
`Rearm` is the other steps of a scan as far as they touch rows and legs: the sync and the
guardian. `calm` records that
nothing disturbed the last round; it is history, no guard reads it.

Amounts are whole units of the quote asset. The quantities of the rows are not kept: a row
older than the account is part of the drift. A round without marks and a round whose
anchor is 0 change nothing in the code and are no steps here. `close_position` on a full
sale removes the row; what it books is the ledger's. "Full" means 99.9% of the mark, as in
the code, so a large position may keep 0.1% without a row until the next sync, and `RowKept`
allows that much and the unit a division cuts off.

### PositionLife

`EntryLadder`, `ExitChain` and `TrailingCheck` extend `PositionState`, which extends
`OrderCalls`, which extends `SpotExchange`; `PositionLife` conjoins each one's step with
what it leaves alone. `phase` is the step of the scan: `enter`, `book`, `exit`, `trail`,
`sweep`, and the short path (`soleExit`) of a scan without candidates. The lock makes the
scan one process, so its steps do not interleave with each other; the panel's forceexit,
which takes no lock, the market and `Killed` interleave with every request. `rung`
names the request of the ladder: one stop, the pair of strategy B, the OCO, strategy C
with its residual stop, the last check with its emergency sale (`dump`). `exit[p]` and
`check` carry what the code keeps in local variables between two requests, among
them the stale snapshots the code acts upon. `mark` is history: where the running step
started and whether anybody else has acted since.

The kinds of an exit are those whose condition on price and marks holds; the clocks
(hold expiry, zombie exit) are a choice. The guardian closes a scan in the code; it is
specified on its own, so what `PositionLife` shows holds of the books before it mends
them. The position's cost basis is left out. A read that fails answers as the code takes it: trades that
cannot be read show no sale, a price that cannot be read speaks for the cancel of a take-profit but
not for a stop, filters that cannot be read leave out lot, share and minimum, and without the account
the ladder works with the quantity the purchase reported, its fee included (`Fee`). The outcomes table
is not kept, so whether the coverage of the trailing check passes a symbol over is a choice (`PassOver`). The stop the ladder falls back to, a market stop,
is not subject to the exchange's band around the price, which limits only orders with a price.

### FillBooks

An order is its place in the trade history of the symbol; `old` and `new` are the parts
of it before and after the latest BUY row, which is where the code draws its line.
`bot[p]` is a process with the local variables of `_book_sell_legs`, `record_fill` or
`close_position`: the gap read once, the fills fetched once, the orders still to book
(`todo`, taken in the order of time), the order at hand. Every
read and every commit is a step: account, trade history, `trade_add`, the cooldown
stamp, the check outside of the ledger's transaction, the append with its shadow position.
`Close` is a sale whose seller books it, under the order id or the client's.

Left out: sales older than the 24h the reconciler looks back, the match of fills without an
order id, the sanity check of prices, the sweep of zombie trackers.

### DrawdownGates

`CheckDrawdown` is a function from the row an object holds, the stored cooldown state and a
balance to an answer and a list of writes. `PreCheck` and `ExecCheck` take one reading
each and leave the list in `todo`; `Write` makes one commit of it at a time; `Judge`,
`Enter` and `Refuse` go on once all are made. The scan's `RiskManager` keeps its row for
the whole scan (`scan.mem`), the executor loads its own, the switch asks the ladder
only, read-only and with the stored drawdown. `ladder.stored` is FALSE until the first transition
of the ladder is saved: a key that was never stored is dated anew by every load, so time makes only a
stored level older (`OlderLadder`). `Day` and `TwoHours` are the clock;
`Reset` and `Veto` are a person, at any moment. A reading may be wrong in the two ways
the code can misread an account: cash alone, which also looks flat, when the batch of
prices is missing, and a phantom above five times the peak.

Ages are counted in days begun, all durations of the configuration being whole days.
The switches that turn the cooldown or the flat reset off, and the alerts and audits of
a deferral, are left out: they decide nothing else. Gates G2 to G4 of the flat reset are a
choice, for they read the market. The two stores of the cooldown state by one trip are
one step, and so is a person's reset. `hist` is history; no guard reads it.

### EntryGate

A scan buys at most once and the lock keeps scans apart, so the counts are not raced; what
can go wrong is a record that is missing. `scan.at` names the next call: `gate`
(`check_entry`), `check` (the daily loss part of `_pretrade_risk_checks`), `buy`, then the
four records of an entry, each a transaction of its own: `book` (the trades row), `count`, `tag`
(`note_entry`), `outcome`. `heal` is the self-healer, which a scan asks when the daily loss
breaker refused it. `Checked` is `check_daily_loss`, of the object a scan's process loads
just before. `HealerLooks` and `HealerFixes` are a person's `auto_heal`, which looks at the
start of its rounds and writes at their end. The market regime of a scan is a choice; a
switch opens a position without asking either gate, and appears as a row of trades (`OtherBuy`).

Tags and outcomes are kept as numbers by age, in slots of a day; `Tick` makes them older and
begins the local and the UTC day at slots of their own. The opening balance, tier, date and
halt of the breaker are `day`; its history of trips decides nothing. `reset()` has no caller.
The other refusals of an entry, the cooldown of a symbol among them, are one step (`Refuse`).

## 3. Runs

| Run | Kind | Shows |
|---|---|---|
| `guardian_safety` | pass | from every book of up to two legs out of seven, next to two rows and two free balances: `FloorKept`, `CoverKept`, `ShapedBookKept`, `CancelsOnlyDeclared`, `RescueComplete`, `OneSwapPerWindow`, `NeverSells`, and in the long run `EventuallyStopped`: a position the market lets the guardian stop is stopped for good |
| `guardian_coverage` | violation | `CoveredMeansHalf`: an OCO is listed as two orders and counted twice |
| `guardian_naked` | violation | `NakedGetsStop`: a naked position with its stop out of band gets a take-profit and is then skipped for ever |
| `tiers` | pass | `LatchSpec` (refinement of `TierLatch`), `ReleaseMeansRecovered`, `DeleverageExact`, `DrawdownStopsEntries`, `RowKept`, and in the long run `Deleveraged` and `ReleasedWhenSafe` |
| `tiers_liquidation` | violation | `Liquidated`: a liquidation sell that failed is never retried, nor is one that was only reported |
| `position` | pass | over the ladder, the exit and the trailing check of one position: `ReportedStops`, `NakedIsLoud`, `TrackerNamesLive`, `DumpOnlyNaked`, `ExitKeepsFloor`, `OneTranche`, `MoveKeepsStop` |
| `trailing_track` | violation | `TrackKept`: the highest price of a held position is dropped in every round, because symbols are looked up among assets |
| `books` | pass | `NeverOverbooked` (`BookedAsSold` and `StopsAtTheGap`), `LossNoted`, `RoundBooks`, `ShadowFollows`: every sale is booked, once, within its gap, with its cooldown and its shadow |
| `drawdown` | pass | `HeldForItsTime`, `FiresApart`, `VetoHonoured`, `RampedEntries`, `TripStopsEntries`, and in the long run `Rearmed` |
| `drawdown_escalation` | violation | `EscalatesFromModerate`: two hours at a stored lower level (mild, and back to normal) let the first reading of 5-8% escalate |
| `entry_gate` | pass | `PacesKept`, `BrakeHolds`: the caps of a day and of the NEUTRAL window hold although a record is lost, and a loss of 2% stops entries in every later process |
| `daily_halt` | violation | `HaltHolds`: the refusal of an entry makes the self-healer erase the halt, so the next scan opens a position |

Each violation is a disagreement between a sentence of the repository and its code;
`PROJECT.json` quotes the sentence.

**Bounds of the guardian.** Lots of two units, a minimum notional of 160, holdings of 3
(one lot and a fee residue) and 6 units; legs of one and two lots. One leg is below, one
at the half of the holding the guardian asks for; stops lie in and out of the 13% band
and take-profits below and above the prices 78, 100, 106, so every branch condition has
books on both sides of it, and two legs are enough for every shape, for a mixed loop
and for a loop that fails half way. One fault and one price move: each property speaks
of what one disturbance may do at any of the calls, and the ladders answer one refused
call; `FloorKept` and `CoverKept` exclude other disturbances on purpose, because with the
market falling through the old stop there is nothing left to restore.
472,909 distinct states.

**Bounds of the tiers.** Cash 36, positions 40 and 24: equity 100. A move of -25% on one
position lands exactly on 94 (6%), on the other exactly on 90 (10%), both on 84 (beyond
15%); +34% recovers. A tick is four hours: the run starts at 16:00, a tier may be
released after one tick, and the second tick is past midnight. The cash table may miss 10, an
entry that was debited and has no row yet, which is 10% of the account. Two moves, one fault or
crash, one manual reset at any step.

**Bounds of the position.** One lot is two units, an order is worth at least 4 units at the
entry price; 7, 13 and 49 units are the three sizes the ladder tells apart (one stop; the
pair; the trailed position that affords the whole ladder). Prices 90, 100 and 113 are
below the stop, the entry, and above the first take-profit and the first tranche. Two
faults let one request and its fallback fail, or a request and then the process; two
price moves take the price through the stop and back. A purchase reports one unit more than it
leaves free. Two scans: one buys, the next
judges and trails; one position and twelve order ids, more than any behaviour
uses. One forceexit, beside the exit step of the last scan (`Overlaps`): elsewhere the two
touch the same orders through the same requests, and the state space would not be
exhausted. 3,269,547 distinct states. `MoveKeepsStop` exempts a move that was given up while
one of the old stops still stood: with stops of different heights a failed cancel of the lower one leaves
that one alone, and the check is content with any stop it sees (`cmd_trailing_check.py:809`).

**Bounds of the books.** Two legs of 20 and 21 units, one larger than the other by just the
5% the code allows, one of them a stop that sells at a loss; a part of 20 lets the larger
leg fill in two parts. Two purchases, so that there are sales before and after a BUY row.
One trouble (a leg in parts, a panel sale, a failed read, a death), because each exemption
of a property names what one of them does: `torn`, `overlap`, `Twice`, a death between a
purchase and its row. They are the cases in which the code does book wrongly, listed in
section 6. The properties speak of no particular legs: they exempt what the code
exempts (a gap it calls insignificant, 5% of an order) and nothing the sizes of the run
would hide. They were also checked with legs of 1 and 3, of 1 and 60, with a third
purchase and with a second trouble. 2,690,594 distinct states.

**Bounds of the drawdown brakes.** Equity 100, 93 and 89: 7% and 11% below the first peak
(escalating but not tripping; tripping), 4.3% below the peak a flat reset at 93 sets. The
durations are shortened and keep their order (early = G1 < recheck = chain = re-trip;
ramp = one day), the multiplier's cap is 2, so a doubled cooldown, a capped one and a
re-trip inside and outside of the windows all occur. One trouble: a wrong or failed
reading, a reset by a person, or a death between two writes. 407,068 distinct states. The
safety properties also hold with two troubles (about two million states, a reset and a death in
one scan among them); the run keeps one because `Rearmed` costs too much there. The violation
run needs no trouble.

**Bounds of the entry gate.** A day of two slots, the local day beginning in the middle of
the UTC day, so that every order of the two midnights and the end of a window occurs. The caps
are 2 for the day and 1 for the NEUTRAL window (3 and 2 in the configuration: the same
properties were checked with those, which takes four minutes): different, and one above 1, so
that an entry is counted between two others. Equity 1000, 985, 975 and 965 reaches every tier
from the largest opening balance, and profits and smaller losses from the others; 100 is the
account without its holdings. One trouble, because `PacesKept` speaks of one missing record and
`BrakeHolds` of none: what a wrong reading does to the opening balance is one of them.
1,563,998 distinct states. The violation run needs no trouble.

**Deadlock.** The guardian's and the position's runs switch the check off: a position that
was sold leaves nothing to do, and scans are bounded. Tiers, books, brakes and the entry gate are
checked.

**Fairness.** `WF(Sweep)`, `WF(Round)`: cron starts scans for ever and each ends in the
defence sweep, also the ones that return early (the `finally` block of
`cmd_cron_scan`). `SF(SyncRow)`: the sync is the first step of every scan, so between
two sweeps it is enabled again and again, though not all the time. `WF(LegFills)`: the
exchange fills what the price has reached. No fairness for prices, faults, resets,
mode switches, crashes or time. `EventuallyStopped` says "for good" because faults and
moves are bounded: it states recovery, not immunity. `DrawdownGates.FairSpec`: scans
are started and carry on (`WF(StartScan \/ Write \/ Judge \/ Enter \/ Refuse)`), end
(`SF(EndScan)`), meet a candidate again and again (`SF(PreCheck)`) and days go by
(`SF(Day)`, which waits for a scan to end). `Rearmed` is claimed of the tiered cooldown
only: a flat reset that was armed expires after a day without a check, so fairness does not
promise it.

## 4. Proofs

`SumTheorems`: the sum of a function over a finite set is a natural number, is changed by one
member as that member changes, grows with the set, and never exceeds a larger function's. The
library's induction over finite sets takes an operator and cannot be instantiated here; these
proofs give the induction a *set* of subsets as its hypothesis instead, and well-founded
induction over the numbers of members. What is free, locked, covered, exposed and counted in
the models below is such a sum.

`ProtectionGuardian_proofs`, for every set of order numbers, prices, rows, books,
lot size, notional and bound (assumptions `ExchangeAssumption`, `GuardianAssumption`):

- `TypeCorrect`: types, for every state.
- `NeverUnstopped` (`FloorKept`): an undisturbed sweep does not lose the stop it found.
  The inductive invariant is needed because the property speaks of the end of a sweep
  and everything that makes it true lies inside: `FloorInv` carries, per phase, what of the
  old book still stands, that the sum of the cancelled stops is free again, and that the
  old stop which let the swap begin was in band at a price that has not moved. The last
  part is why the exchange must take it back.
- `OneSwap` (`OneSwapPerWindow`): with `SwapRemembered`, a swap was sent only if the stamp
  is set or this very sweep is going to set it.
- `CancelsDeclared` (`CancelsOnlyDeclared`): with `DeclaredInv`, which ties the phase of a
  cancelling branch to the shape of the coverage it was entered with.
- `HealsNeverSell` (`NeverSells`): what an undisturbed sweep sends comes to rest. The sweep
  decides on a price it read several calls ago and later repeats legs it cancelled;
  `RestsInv` says that this price still holds and that every plain take-profit it may send
  lies above it, those of the book because the market had served what it reached
  (`Settled`), those it plans because the target is not breached. `LastInv` is about the
  rescue ladder: the leg it gives up is one the loop has counted, as the loop runs in the
  order of the numbers.
- `TableClosed`: the transition table satisfies what `structural_invariants` asks of it.

`GuardianLadders_proofs`, under the same assumptions. `Account` is what all of it rests on: the
locked quantity of a kind is the sum of its resting legs, and the lot filter keeps every
quantity whole lots, so flooring one to a lot loses nothing (`FloorStep`).

- `ShapesStand` (`ShapedBookKept`): `ShapedInv` says that while no leg of a shaped book has filled,
  the sweep is in a phase that cancels nothing and every leg stands, also when what it read was
  the empty answer of a failed call: a cancel loop starts only from a read that shows one kind
  of legs alone, and there is no such part of what a complete answer shows.
- `LadderComplete` (`RescueComplete`): a book of take-profits is cancelled leg by leg and rebuilt in
  up to three attempts. `RescueInv` follows the quantity through them (`LadderSafe`): what was
  cancelled and not placed again is free, and with it nothing is missing under take-profits
  (`Backed`), so the OCO, the demoted stop, or the legs put back one by one find it there.
- `DownsideKept` (`CoverKept`): the same for stops. `CoverInv` says (`StopsSafe`) that what the loop of
  the swap freed stays free until an OCO of at least that quantity, or of the whole row, is
  placed, or the old stops are, those of them the exchange takes back.

`CircuitTiers_proofs`, for every set of positions, account, price move, cooldown, day
length and bound (`TiersAssumption`):

- `TiersLatch` (`LatchSpec`): `CircuitTiers` implements `TierLatch`. `LatchInv` says that what a
  round is about to store is a legal successor of what is stored *now*, which stays true
  when a person resets the tiers during the round, and that a tier has a trip time in
  the past. Every action then maps to a step of the latch or leaves it alone; only
  `SaveRound`, `ResetStore` and `Tick` move it.
- `ReleasesRecovered` (`ReleaseMeansRecovered`): with `RecoveryInv`, a round that will store a
  release sells nothing, so its conditions outlive the decision.
- `TiersTyped` (`TypeOK`): types. The equity is a sum over the positions; that it stays a
  natural number through partial sales is arithmetic about each of them.
- `DrawdownGated` (`DrawdownStopsEntries`): `GateInv` says that a drawdown of 6% is under a tier
  that is stored or about to be. The tier was chosen from the equity at the start of the round; every
  sale since swaps a holding for its own value and an entry the other way (`EquityKept`).
- `DeleversExactly` (`DeleverageExact`): `DeleverInv` says of a round nothing disturbed that it counts
  the open exposure right over all its sales, has not sold below its target, and that what
  it has already looked at is too small to be sold, unless the target is reached (`OpenLeft`).
- `RowsCloseOnDust` (`RowKept`): a sale drops the row only when no more than a thousandth and one unit
  of the position is left, for every size and every price since the marks were read.

`PositionLife_proofs`, for every price, size, distance, number of scans, positions, failing
calls and price moves (`ExchangeAssumption`, `CallAssumption`, `EntryAssumption` and the like):

- `LifeTyped` (`TypeOK`): types. `TypesInv` adds to them that what is locked is the sum of the legs
  that rest, that order numbers are given once, and per rung, call and round what the local
  variables may hold; without them no request could be shown to leave a natural number free.
- `StopsReported` (`ReportedStops`), `NakedTold` (`NakedIsLoud`), `TrackerLives` (`TrackerNamesLive`),
  `DumpNaked` (`DumpOnlyNaked`): what the ladder says of its stops is true, at its end and before the
  emergency sale. The properties compare a count kept in local variables with a book at the
  exchange that refused requests, lost answers, cancelled pairs and fills have moved. `LadderInv`
  ties the two together at every rung: all orders of the book are the ladder's own (`OwnBook`);
  what is free, behind a stop nobody heard of, or counted as take-profit is no more than was
  bought (`Counts`), which is why a market sale that goes through means that no unheard stop holds
  the quantity; a stop that was heard of stands until something is sold (`Stops`); and the names
  in hand and in the tracker are live or filled (`Names`). All four are proved of every
  `Overlaps` without the ladder's own step, `"enter"`. A forceexit takes no lock, so it may in
  principle run beside a ladder as well, and then none of the four holds: it cancels the stop the
  ladder has just reported. The run has the same limit.
- `TrancheOnce` (`OneTranche`): a first tranche that was sold and remembered is not sold
  again. The sale is several requests away from the look at the mark, and in between the
  trailing check or the panel may write it; `TrancheInv` says that while a tranche is
  remembered for the position held, the mark in the database says so (`Remembered`), that a
  decision to sell one is only under way when none was (`Undecided`), and that the panel
  sells everything (`PanelSellsAll`). `ChainKeeps` and `ChainBanks` give, for every call of the
  exit chain, what it may do to a decision and to the mark.
- `ExitStopKept` (`ExitKeepsFloor`): `execute_exit` cancels every order before it sells, and leaves a stop
  behind what was not sold, unless the exchange would not take one (`Takes`: too small, or too far
  below the market). `SaleInv` says what the exit knows as long as nobody else acts: the
  decision's price is the market's; while no call failed the orders still to cancel are all
  there are, so none is left at the sale; and after a sale that failed, it was refused for its
  size (so is a stop on as much at 97% of the price), or what it did not sell is free, or
  it went through unheard and nothing at all is locked. One failing call is allowed up to the
  rescue; in the relisting of a partial exit none is, for the sale has gone through.
- `StopMoved` (`MoveKeepsStop`): the trailing check cancels the stops it replaces, places the new one in up
  to three attempts and falls back to the old one, with and without its take-profit. `MoveInv` says
  that the new stop is the higher one and lies below the market (also when this price turned the track
  on, `TrackOff`), that the take-profit to go with it lies above, which the exchange showed when it
  served the cancel of that order, and that a second look follows a failed call only. Where the exchange would
  take the old stop it therefore takes the new order (`NewFollowsOld`), so a refusal on the
  way to the fallbacks means that the old stop would be refused as well.

  `TurnInv`, under both: the exit and the check run in their own turn of the scan, and the mark was set
  when no more had failed than now. The last three theorems are proved with a forceexit beside any
  of the steps.

`FillBooks_proofs`, for any legs, parts, purchases and troubles (`BooksAssumption`):

- `BooksTyped` (`TypeOK`): with `BooksInv`. What is held is the sum of what the legs still have to
  sell; an order a process has at hand is one of the trade history, also when its copy of it is
  older than what others have booked meanwhile.
- `LossesNoted` (`LossNoted`): a losing sale in the ledger has its cooldown or a process is about to
  stamp it. The scan and the panel book at the same time from copies of their own; `Faithful`
  says what no step does to the past (a sale stays a loss, a stamp is not withdrawn, who is about to
  stamp still is or has), `Noting` that a new row is about to be noted.
- `SalesBookedOnce` (`BookedAsSold`): a row has what its order sold, and the rows together no more
  than was sold. `ExactInv` follows a quantity from the exchange's answer, which may be old when
  it is used, to its row: an order is all before or all after the latest BUY row (`RowsExact`), a
  copy of it has all its sales or none (`Read`), the pass a process is in says on which side it
  looks (`ProcOk`), and an order and key have one row (`Keyed`). `LedgerSplits` turns that
  into sums over the orders with a row and those without.
- `BookingStopsAtTheGap` (`StopsAtTheGap`): `GapInv` says that the gap a process still has in hand is
  not above the one between the ledger and the account it read, in the first pass and
  in the second, for as long as the two processes are not in the books together (`Alone`).
  `NothingOverbooked` (`NeverOverbooked`) is both.
- `ShadowPositionFollows` (`ShadowFollows`): `LogInv` ties the log to the trades: it is behind by the
  order in hand and nothing else, and every row has its event or is in hand. That the shadow position
  is never cut off at zero needs `Balance` (what was bought is held or sold) and
  the sums of `LedgerSplits`; that the second path back-fills nothing needs that a booked
  order was logged.
- `TwoRoundsBook` (`RoundBooks`): `RoundInv` says what an undisturbed round knows at each of its steps
  (`RoundAt`): in the loops, which orders without a row are still to come (`LoopTodo`) and that each
  fits the gap (`RowlessFits`, by `GapSold`: the ledger is short by exactly what they sold); at the trim,
  that nothing significant is left unless it was path B of a first round, which skips
  sales before the BUY row (`LoopPath`); afterwards, that the next round finds no path B to
  take (`After`). That is why it takes two rounds, and why the snapshot matters.

`DrawdownGates_proofs`, for every account, every duration and cap, any number of troubles
(`DurationsAssumption`, `BoundsAssumption`):

- `TypeCorrect` (`TypeOK`): types, with the multiplier never above its cap and every age
  within its window. `CheckSound` is the lemma about `check_drawdown`: whatever it
  is asked, its answer and each of its writes are well typed.
- `VetoKept` (`VetoHonoured`): a flat reset never gives up a trip that was vetoed before its
  check began. The property speaks of one commit; what makes it true was read many steps
  earlier and may since have been consumed, overwritten by an older copy, or lost. `VetoInv`
  therefore describes the *writes still to come* (`Shaped`): which lists of writes may
  be outstanding, that one which keeps or trips carries a tripped row when the stored one is,
  that one which stores a cooldown state carries the disarm unless the veto is still
  in the store, and that one which fires was made when no veto was there. `Shaped` is stable
  under a reset, a veto, a death and the clock (`Weaker`), and each write leaves a
  shape again (`RowFirst`, `CooldownFirst`, `RampFirst`, `VetoFirst`).

For the rest, `CheckDecides` reads `check_drawdown` as one of seven lists of writes
(`Keeps`, `Notes`, `Disables`, `GivesBack`, `GivesBackAtPeak`, `Fires`, `Trips`), each with what it
says of the row it was given; `StepKinds` and `ScanSteps` sort the steps by what they do to the
brake and to the scan; `TwinInvariant` says that the row in memory is the stored one, or will be
when its writes are done, unless a person's reset crossed the scan.

- `HeldLongEnough` (`HeldForItsTime`): no trip is given up before its time. `EarnedInv`: the multiplier
  in the store, or on its way, is never below what the history owes, and each release
  that is to come respects it. A death between the cooldown state and its row may leave the
  multiplier doubled for a trip that never was; it is never left too small.
- `FlatResetsApart` (`FiresApart`), when `Nested`, `Retrip <= Chain`: a trip that is not disabled is dated
  by the stored days since the last flat reset, which a death may make too few and never
  too many (`ApartInv`). With a longer re-trip window than the chain window the property fails:
  `check_drawdown` forgets the disarm as soon as the chain window is over.
- `RampApplies` (`RampedEntries`), when `ShortRamp`, `RampDays <= Retrip + G1Days`, the reach of
  `hist.fired`: the ramp is in the store or is the next write (`RampInv`), and a choice of full size is then one
  the running check has yet to judge, which it lets through with no drawdown.
- `TripStops` (`TripStopsEntries`), when `Narrow`: no value of the account is more than five times the half of
  another. A true rise that large reads as a phantom spike, and a phantom lets the
  candidate through under a standing trip. `PeakInv` carries the bound to every peak that is
  stored, held or on its way; `StopInv` says what excuses a choice under a trip.

The shipped configuration (recheck and chain 72 h, re-trip 72 h, first gate 48 h, ramp 24 h) satisfies `Nested`
and `ShortRamp`, and the run satisfies all three.

`EntryGate_proofs`, for every length of the day, every set of readings, every cap and
any number of troubles (`GateAssumption`):

- `TypeCorrect` (`TypeOK`): types; a tier is 0 to 3 and no halt exceeds a day.
- `BrakeKept` (`BrakeHolds`): no purchase below a reading 2% under the first one of the day. The
  check that must refuse it may run in another process, hours and several scans later,
  and sees the stored row only. `BrakeInv` says what ties the row to the readings: the stored
  opening balance is the first reading since the breaker was last reset (`OpeningStored`); a
  halt outlasts its day, so the branch that ends one never runs before the new day does
  (`HaltAhead`); and a reading 2% below leaves tier 2 or 3 until one above the opening balance.
  `CheckBrakes` is the lemma about one check, `ErasedBrakes` and `TickBrakes` about the healers
  and the clock.
- `PacesCapped` (`PacesKept`): the caps hold although one record is lost. `PaceInv` ties each of the two
  records of a count to the entries that were made: the day's counter and the rows of trades each
  lack at most what was lost of them (`DayRecords`), and the same for every age of the NEUTRAL
  window, as sums over the slots of a window (`NeutralRecords`).

Nothing is assumed beyond the modules' named assumptions and the conditions named with a
theorem. Among the assumptions, for the sums: symbols are finitely many, a sweep begins with
finitely many legs of whole lots, orders are numbered from 1. Only model-checked: everything
temporal under fairness (`EventuallyStopped`, `Deleveraged`, `ReleasedWhenSafe`, `Rearmed`),
which the proof system does not reach. Every safety property a passing run checks is proved.

## 5. Not modelled, and the plan

Left out for good: feeds, indicators, scoring, language models, learning, backtests and
reports (inputs without a protocol; by far the most lines of the repository), signing and
rate limiting. `circuit_breaker` is left out because nothing of the program feeds it: its
`record_failure` and `check_drawdown` have no caller outside of tests and scripts.
Everything else is in `PROJECT.json` with its reason. In order:

1. Composing `PositionLife` with `ProtectionGuardian` over one book, and with `FillBooks`.
2. `Outbox` (`state_db.py:1559`, at least once), `PendingConfirmation` (check, read and
   removal are separate steps, `pending_confirmation.py:57`), the event bus
   (pruning under a reader's offset, `event_bus.py:82`), the user data stream; grid and paper
   trading last.

Hazards seen and covered by no property beyond those listed in `PROJECT.json`: an opening
balance that missed the holdings (`daily_loss_breaker.py:140`); the rebuild
of a take-profit-only book has no daily debounce (`protection_guardian.py:764`); fills
without an order id are matched by quantity and time (`portfolio_reconciler.py:319`); an
outcome closed by the sale of a part (`cmd_trailing_check.py:1028`), and filters that cannot be
read in an exit (`exit_check.py:716`), both in the model and described in section 6.

## 6. Further behaviour of the code, seen while modelling

No run claims these; the models behave this way, and the properties say so in their
exemptions. A reader who changes the code should know them.

- Exit: an aborted exit leaves the position without orders, the rescue after a failed sale
  covers the share that was to be sold only, and a part of an order may be sold under a snapshot
  that is stale (`exit_check`, `cmd_trailing_check`).
- Exit: filters that cannot be read after the cancels make a partial exit sell everything that
  is free (`exit_check.py:716`).
- Trailing check: the sale of a part closes the open outcome (`portfolio_reconciler.py:540`), and the
  coverage loop takes the rest for a position it has left (`cmd_trailing_check.py:1028`). The old stop is cancelled before the minimum notional of the new one is
  looked at, and not tried again; the first take-profit can be banked twice; stops placed by
  the ladder in tiers count as closed when one of them fills.
- Ladder: a refused extra stop is logged as covered (its shortfall shows in the alert of the
  last check only).
- Books: a partial fill is booked under its order id, so the rest of that order never is; the
  panel and a scan that read the same gap book it twice; where a
  close has booked the whole row over legs that had sold part of it, the gap a part-booked order
  of the next purchase opens is filled with those older sales (legs of 10, 20, 21 and 30 units,
  parts of one: 133 booked of 122 sold); the 5% by which an order may exceed its gap add up when
  one order has two rows, or a row's quantity was stale when its seller booked it; a sale booked under the client's
  order id is booked again under the exchange's; `close_position` books the row's quantity,
  whatever was sold; a process that dies after `trade_add` loses the cooldown and the event; the
  check for a duplicate event is outside of the transaction that appends.
- Brakes: the executor looks at the ladder and not at `tripped`, so the same scan may buy under
  a trip it has just stored; a phantom balance un-trips for its candidate; a missing price batch
  reads as a flat account with its cash only, which can trip or fire; a scan that
  holds an older row writes a person's reset away; a veto consumed by a process that dies is
  lost; the ramp of a flat reset is not asked by the switch; the escalation of the ladder is
  lost on the way through critical and by a read that failed.
- Entry gate: the first reading of a UTC day is its opening balance even when it missed the
  holdings, and the brake is then blind until midnight; the halt of 24 hours ends at the next UTC
  midnight, and the branch that would end it after 24 hours is never reached; `auto_heal` writes
  its fix minutes after its look, over a later and true trip; "close all" sells nothing; a switch
  asks neither the governor nor the daily loss breaker.
- Guardian: the stop of a swap is clamped against the price read before the first cancel
  (`protection_guardian.py:947` says it guards against a fall inside that window), so after such
  a fall the OCO is refused and the old stop restored, if the exchange still takes it.
- Tiers: a misread account on the first evaluation of a day is that day's anchor; the tier-3
  cooldown is displayed and never enforced. Guardian: a pair whose
  take-profits are small gets one more.
