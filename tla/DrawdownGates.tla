--------------------------- MODULE DrawdownGates ---------------------------
(***************************************************************************)
(* The two drawdown brakes and everyone who asks them.  A scan loads one    *)
(* DrawdownBreaker with its RiskManager and checks every candidate with it  *)
(* (risk_manager.pre_trade_check), the executor loads another one for the   *)
(* chosen candidate (trade_executor._pretrade_risk_checks), and the switch  *)
(* of the optimizer reads only the ladder (position_optimizer).  Meanwhile  *)
(* the market moves, a person resets or vetoes, a call reads a wrong        *)
(* balance and the process dies between two writes.                         *)
(***************************************************************************)
EXTENDS StepwiseDrawdown, DrawdownBreaker

CONSTANTS Equities,     \* values of the account
          RampDays,     \* ramp_hours, in days
          MaxTroubles   \* bound: wrong or failed readings, deaths, resets by a person

ASSUME BoundsAssumption ==
    /\ Equities \subseteq Nat \ {0, 1} /\ Equities # {}
    /\ RampDays \in Nat /\ MaxTroubles \in Nat

VARIABLES
    equity,     \* what the account is worth
    held,       \* whether a position is open
    row,        \* table drawdown
    cst,        \* kv drawdown_breaker_cooldown_state
    veto,       \* kv drawdown_breaker_flat_veto
    ramp,       \* kv drawdown_breaker_flat_ramp: the days left
    ladder,     \* kv stepwise_drawdown:state
    scan,       \* the running scan: at, the row its RiskManager holds, its choice
    answer,     \* what the last check of the scan answered
    todo,       \* the writes of that check that are still to come
    troubles,
    hist        \* history, for the properties

world == <<equity, held>>
store == <<row, cst, veto, ramp>>
vars == <<world, store, ladder, scan, answer, todo, troubles, hist>>

Idle == [at |-> "idle", mem |-> Untripped(0), chosen |-> "no"]
NoAnswer == [tripped |-> FALSE, pct |-> 0]

\* hist.fired: days since a flat reset took effect; hist.owed: the multiplier
\* the standing trip, or the next one, has by the chain rule; hist.since: days
\* since a trip was given up (Chain after a reset whose window a running scan
\* overwrites); hist.vetoed: a person vetoed the standing trip;
\* hist.bare: the ramp of the last flat reset was lost with its process;
\* hist.fresh: the trip was stored by the running scan; hist.misread and
\* hist.crossed: the running scan met a wrong reading, a person's reset.
FireWindow == Retrip + G1Days
NoHistory == [fired |-> FireWindow, owed |-> 1, since |-> Chain,
              vetoed |-> FALSE, bare |-> FALSE,
              fresh |-> FALSE, misread |-> FALSE, crossed |-> FALSE]

Init ==
    /\ equity \in Equities /\ held \in BOOLEAN
    /\ row = Untripped(0)
    /\ cst = FreshCooldown
    /\ veto = FALSE /\ ramp = 0
    /\ ladder = FreshLadder
    /\ scan = Idle /\ answer = NoAnswer /\ todo = <<>>
    /\ troubles = 0
    /\ hist = NoHistory

-----------------------------------------------------------------------------
\* The checks of a scan

At(p) == scan.at = p
Go(p) == [scan EXCEPT !.at = p]

\* get_risk_manager: one row for all the checks of the scan.
StartScan ==
    /\ At("idle")
    /\ scan' = [at |-> "research", mem |-> row, chosen |-> "no"]
    /\ UNCHANGED <<world, store, ladder, answer, todo, troubles, hist>>

\* What a check may take for the account: its worth; the cash alone, when the
\* batch of prices is missing, which looks flat; or a phantom of six times it.
Readings ==
    {[balance |-> equity, flat |-> ~held, wrong |-> FALSE]} \union
    (IF troubles < MaxTroubles
     THEN {[balance |-> 6 * equity, flat |-> ~held, wrong |-> TRUE]} \union
          (IF held THEN {[balance |-> equity \div 2, flat |-> TRUE, wrong |-> TRUE]} ELSE {})
     ELSE {})

Note(r) ==
    /\ troubles' = IF r.wrong THEN troubles + 1 ELSE troubles
    /\ hist' = [hist EXCEPT !.misread = @ \/ r.wrong]

\* pre_trade_check of one candidate: the loaded row, the number of positions.
PreCheck ==
    /\ At("research")
    /\ \E r \in Readings, gates \in GateReports :
          LET w == [veto |-> veto, gates |-> gates]
              c == CheckDrawdown(scan.mem, cst, r.balance, r.flat, w)
          IN  /\ scan' = [scan EXCEPT !.at = "checking", !.mem = c.mem]
              /\ answer' = [tripped |-> c.tripped, pct |-> c.pct]
              /\ todo' = c.writes
              /\ Note(r)
    /\ UNCHANGED <<world, store, ladder>>

\* The account cannot be read: the candidate is blocked, its drawdown reads 0.
PreCheckFails ==
    /\ At("research") /\ troubles < MaxTroubles
    /\ troubles' = troubles + 1
    /\ hist' = [hist EXCEPT !.misread = TRUE]
    /\ scan' = Go("checking")
    /\ answer' = [tripped |-> TRUE, pct |-> 0]
    /\ UNCHANGED <<world, store, ladder, todo>>

\* pre_trade_check goes on with the ladder and the ramp.
Judge ==
    /\ At("checking") /\ todo = <<>>
    /\ ladder' = LadderAfter(ladder, answer.pct)
    /\ \/ /\ ~answer.tripped /\ ~BlocksNewTrades(ladder'.level)
          /\ scan' = [scan EXCEPT !.at = "research",
                                  !.chosen = IF ramp > 0 THEN "half" ELSE "full"]
       \/ /\ answer.tripped \/ BlocksNewTrades(ladder'.level)
          /\ scan' = Go("research")
    /\ answer' = NoAnswer
    /\ UNCHANGED <<world, store, todo, troubles, hist>>

\* _execute_switch sells first and asks the ladder, read-only and with the
\* stored drawdown, whether the proceeds may buy again.
Switch ==
    /\ At("research") /\ scan.chosen # "no" /\ held
    /\ held' = ~BlocksNewTrades(LevelOf(ladder, row.dd, TRUE))
    /\ scan' = [Idle EXCEPT !.at = "switched", !.chosen = scan.chosen]
    /\ UNCHANGED <<equity, store, ladder, answer, todo, troubles, hist>>

\* _pretrade_risk_checks of the chosen candidate: a row of its own, no number
\* of positions, so never the flat reset.
ExecCheck ==
    /\ scan.at \in {"research", "switched"} /\ scan.chosen # "no"
    /\ \E r \in Readings :
          LET w == [veto |-> veto, gates |-> "unreadable"]
              c == CheckDrawdown(row, cst, r.balance, FALSE, w)
          IN  /\ answer' = [tripped |-> c.tripped, pct |-> c.pct]
              /\ todo' = c.writes
              /\ Note(r)
    /\ scan' = [Idle EXCEPT !.at = "executing", !.chosen = scan.chosen]
    /\ UNCHANGED <<world, store, ladder>>

\* The executor looks at the level of the ladder, not at tripped.
Enter ==
    /\ At("executing") /\ todo = <<>>
    /\ ladder' = LadderAfter(ladder, answer.pct)
    /\ ~BlocksNewTrades(ladder'.level)
    /\ held' = TRUE
    /\ scan' = [Idle EXCEPT !.at = "done"] /\ answer' = NoAnswer
    /\ UNCHANGED <<equity, store, todo, troubles, hist>>

Refuse ==
    /\ At("executing") /\ todo = <<>>
    /\ ladder' = LadderAfter(ladder, answer.pct)
    /\ BlocksNewTrades(ladder'.level)
    /\ scan' = [Idle EXCEPT !.at = "done"] /\ answer' = NoAnswer
    /\ UNCHANGED <<world, store, todo, troubles, hist>>

ScanOver(h) == [h EXCEPT !.fresh = FALSE, !.misread = FALSE, !.crossed = FALSE]

EndScan ==
    /\ scan.at \in {"research", "switched", "done"}
    /\ scan' = Idle /\ hist' = ScanOver(hist)
    /\ UNCHANGED <<world, store, ladder, answer, todo, troubles>>

-----------------------------------------------------------------------------
\* The writes of a check

WriteRow(w) ==
    /\ w.to = "row"
    /\ row' = w.val
    /\ hist' = CASE w.why = "trip" /\ ~row.tripped ->
                        [hist EXCEPT !.owed = IF hist.since < Chain /\ ~hist.crossed
                                              THEN Min({2 * @, Cap}) ELSE 1,
                                     !.vetoed = FALSE, !.fresh = TRUE]
                 [] w.why = "tiered" /\ row.tripped -> [hist EXCEPT !.since = 0, !.vetoed = FALSE]
                 [] w.why = "fire" /\ row.tripped -> [hist EXCEPT !.since = 0, !.fired = 0,
                                                          !.bare = FALSE, !.vetoed = FALSE]
                 [] OTHER -> hist
    /\ UNCHANGED <<cst, veto, ramp>>

WriteCooldown(w) ==
    /\ w.to = "cst"
    /\ cst' = w.val
    /\ UNCHANGED <<row, veto, ramp, hist>>

SetRamp(w) ==
    /\ w.to = "ramp"
    /\ ramp' = RampDays
    /\ UNCHANGED <<row, cst, veto, hist>>

ConsumeVeto(w) ==
    /\ w.to = "veto"
    /\ veto' = FALSE
    /\ UNCHANGED <<row, cst, ramp, hist>>

Write ==
    /\ todo # <<>>
    /\ LET w == Head(todo)
       IN  WriteRow(w) \/ WriteCooldown(w) \/ SetRamp(w) \/ ConsumeVeto(w)
    /\ todo' = Tail(todo)
    /\ UNCHANGED <<world, ladder, scan, answer, troubles>>

-----------------------------------------------------------------------------
\* The account, the clock and the person

\* An open position moves the account; a flat one is frozen.  The steps between
\* a reading and its judgement do not look at the account, so it rests there.
Unread == ~At("checking") /\ ~At("executing")

Market ==
    /\ Unread /\ held /\ equity' \in Equities \ {equity}
    /\ UNCHANGED <<held, store, ladder, scan, answer, todo, troubles, hist>>

\* The position is sold: by an exit of the scan or by one of its own orders.
SellOut ==
    /\ Unread /\ held /\ held' = FALSE
    /\ UNCHANGED <<equity, store, ladder, scan, answer, todo, troubles, hist>>

\* More than two hours, and so more than the quarter of one a person has to
\* veto an ARM.  A scan is shorter.
TwoHours ==
    /\ At("idle") /\ (OlderLadder(ladder) # ladder \/ cst.armed = "window")
    /\ ladder' = OlderLadder(ladder)
    /\ cst' = [cst EXCEPT !.armed = IF @ = "window" THEN "due" ELSE @]
    /\ UNCHANGED <<world, row, veto, ramp, scan, answer, todo, troubles, hist>>

Day ==
    /\ At("idle")
    /\ row' = OlderRow(row) /\ cst' = OlderCooldown(cst)
    /\ ramp' = Max({ramp - 1, 0})
    /\ ladder' = OlderLadder(ladder)
    /\ hist' = [hist EXCEPT !.fired = Min({@ + 1, FireWindow}),
                            !.since = Min({@ + 1, Chain}),
                            !.bare = @ /\ hist.fired + 1 < RampDays]
    /\ UNCHANGED <<equity, held, veto, scan, answer, todo, troubles>>

\* A person calls reset() with the balance of the account, in a process of
\* their own and in one go, at any moment of a scan.
Reset ==
    /\ troubles < MaxTroubles
    /\ troubles' = troubles + 1
    /\ row' = Untripped(equity) /\ cst' = ManualReset(cst) /\ ramp' = 0
    /\ hist' = [hist EXCEPT !.fired = FireWindow, !.owed = 1,
                            !.since = IF todo = <<>> THEN 0 ELSE Chain,
                            !.vetoed = FALSE, !.bare = FALSE, !.crossed = ~At("idle")]
    /\ UNCHANGED <<world, veto, ladder, scan, answer, todo>>

\* A person vetoes the flat reset that was announced.
Veto ==
    /\ row.tripped /\ cst.armed # "no" /\ ~veto
    /\ veto' = TRUE
    /\ hist' = [hist EXCEPT !.vetoed = @ \/ todo = <<>>]
    /\ UNCHANGED <<world, row, cst, ramp, ladder, scan, answer, todo, troubles>>

\* The scan ends between two commits.  A veto that was consumed and not yet
\* turned into a disarm is lost with it.
Die ==
    /\ ~At("idle") /\ troubles < MaxTroubles
    /\ troubles' = troubles + 1
    /\ scan' = Idle /\ answer' = NoAnswer /\ todo' = <<>>
    /\ hist' = [ScanOver(hist) EXCEPT !.vetoed = @ /\ (veto \/ cst.disabled),
                            !.bare = @ \/ todo = <<ToRamp>> \/ todo = <<ToRamp, ToRow(scan.mem, "keep")>>]
    /\ UNCHANGED <<world, store, ladder>>

Next ==
    \/ StartScan \/ PreCheck \/ PreCheckFails \/ Judge \/ Switch \/ ExecCheck
    \/ Enter \/ Refuse \/ EndScan \/ Write
    \/ TwoHours \/ Day \/ Market \/ SellOut \/ Reset \/ Veto \/ Die

Spec == Init /\ [][Next]_vars

\* Scans come round for ever and end, find a candidate to check again and again,
\* and days go by.
FairSpec ==
    /\ Spec
    /\ WF_vars(StartScan \/ Write \/ Judge \/ Enter \/ Refuse)
    /\ SF_vars(EndScan) /\ SF_vars(PreCheck) /\ SF_vars(Day)

-----------------------------------------------------------------------------
\* Type and properties

Rows == [hwm : Nat, dd : Int, tripped : BOOLEAN, age : 0 .. MaxAge]
Cooldowns == [mult : 1 .. Cap, chain : 0 .. Chain, flat : 0 .. Retrip, armed : Armings,
              disabled : BOOLEAN, evaluated : BOOLEAN]
Writes ==
    [to : {"row"}, val : Rows, why : {"keep", "trip", "tiered", "fire"}]
        \union [to : {"cst"}, val : Cooldowns] \union [to : {"ramp", "veto"}]
Scans ==
    [at : {"idle", "research", "checking", "switched", "executing", "done"},
     mem : Rows, chosen : {"no", "full", "half"}]
Histories ==
    [fired : 0 .. FireWindow, owed : 1 .. Cap, since : 0 .. Chain,
     vetoed : BOOLEAN, bare : BOOLEAN, fresh : BOOLEAN, misread : BOOLEAN, crossed : BOOLEAN]

\* Every state is well typed: no cooldown is longer than its cap allows.
TypeOK ==
    /\ equity \in Equities /\ held \in BOOLEAN
    /\ row \in Rows /\ cst \in Cooldowns /\ veto \in BOOLEAN /\ ramp \in 0 .. RampDays
    /\ ladder \in LadderStates
    /\ scan \in Scans
    /\ answer \in [tripped : BOOLEAN, pct : Int]
    /\ todo \in Seq(Writes)
    /\ troubles \in 0 .. MaxTroubles
    /\ hist \in Histories

\* A write that gives up a stored trip, and the one of them that is a flat reset.
Releases(why) ==
    /\ todo # <<>> /\ todo' = Tail(todo)
    /\ Head(todo).to = "row" /\ Head(todo).why = why
    /\ row.tripped /\ ~row'.tripped

\* The machine gives up a trip only after the cooldown its history earned: each
\* trip within three days of a release doubles it, whatever died, was misread
\* or was written in between (drawdown_breaker, class docstring, (1) to (4)).
HeldForItsTime ==
    [][/\ Releases("tiered") => row.age >= Early * hist.owed
       /\ Releases("fire") => row.age >= G1Days]_vars

\* Two flat resets are never closer than the window of the re-trip rule and the
\* 48 hours of the first gate: a re-trip inside of the window is for a person.
FiresApart == [][Releases("fire") => hist.fired >= FireWindow]_vars

\* A veto given before the check that would fire began stops the flat reset for
\* the whole of the trip, unless a process dies between consuming the veto and
\* storing the disarm (_flat_vetoed).
VetoHonoured == [][Releases("fire") => ~hist.vetoed]_vars

\* On the day of a flat reset the candidates of a scan are entered at half size,
\* unless the process died between the reset and its ramp.
RampedEntries == [][Enter /\ hist.fired < RampDays /\ ~hist.bare => scan.chosen = "half"]_vars

\* A candidate is entered under a standing trip only when the trip was stored
\* by this scan after the candidate was let through, or when this scan misread
\* the account or met a person's reset.
TripStopsEntries == [][Enter => ~row.tripped \/ hist.fresh \/ hist.misread \/ hist.crossed]_vars

\* A drawdown that stays below 8% gives the trip back in the end, however often
\* the cooldown was doubled: grades (2) and (3) of the class docstring.
Rearmed == <>[](row.hwm > 0 /\ Pct(row.hwm, equity) < 800) => []<>~row.tripped

\* "if in 5-8% zone for >2h, automatically escalate" (stepwise_drawdown, module
\* docstring): a level reached by time follows a drawdown that was stored as
\* moderate, or as worse, at the reading before.
EscalatesFromModerate ==
    [][~ladder.escalated /\ ladder'.escalated => ladder.level >= Moderate]_vars
=============================================================================
