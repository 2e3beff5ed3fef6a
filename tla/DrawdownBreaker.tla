-------------------------- MODULE DrawdownBreaker --------------------------
(***************************************************************************)
(* src/drawdown_breaker.py: what one call of check_drawdown decides, from   *)
(* the row a DrawdownBreaker object loaded, the cooldown state it reads and *)
(* the balance it is given, and which writes it makes, in their order.  The *)
(* writes are separate commits; a process may end between any two.          *)
(*                                                                         *)
(* Time is counted in the days begun since an event, all durations of the   *)
(* configuration being whole days.  The cooldown and the flat reset are     *)
(* switched on.  Alerts, audits and the deferral rounds change no decision. *)
(***************************************************************************)
EXTENDS Integers, Sequences, FiniteSetsExt

CONSTANTS Early,        \* early_reset_hours, in days
          Recheck,      \* recheck_hours
          Chain,        \* chain_window_hours
          Cap,          \* chain_multiplier_cap
          G1Days,       \* g1_hours
          Retrip        \* retrip_disable_hours

ASSUME DurationsAssumption ==
    /\ Early \in Nat /\ Recheck \in Nat /\ Chain \in Nat
    /\ G1Days \in Nat /\ Retrip \in Nat
    /\ Early <= Recheck /\ Cap \in Nat \ {0}

\* The age of a trip matters no further than the longest cooldown.
MaxAge == Max({Recheck * Cap, G1Days})

\* The drawdown row: age is the age of the trip, 0 when there is none.
Untripped(hwm) == [hwm |-> hwm, dd |-> 0, tripped |-> FALSE, age |-> 0]

\* The cooldown state: mult, the days since the last reset and since the last
\* flat reset (Chain and Retrip: none in the window), the ARM and the day's gate.
Armings == {"no", "window", "due", "stale"}
FreshCooldown == [mult |-> 1, chain |-> Chain, flat |-> Retrip,
                  armed |-> "no", disabled |-> FALSE, evaluated |-> FALSE]

\* Drawdown in hundredths of a percent, rounded.
Pct(hwm, balance) == ((hwm - balance) * 10000 + hwm \div 2) \div hwm

PhantomSpike(hwm, balance) == hwm > 0 /\ balance > 5 * hwm
HardStop(hwm, balance) == 10 * (hwm - balance) >= hwm

\* Mutant: the multiplier does not count.
ResetDueUnscaled(m, cst, pct) ==
    (m.age >= Early /\ pct < 600) \/ (m.age >= Recheck /\ pct < 800)

ResetDue(m, cst, pct) ==
    \/ m.age >= Early * cst.mult /\ pct < 600
    \/ m.age >= Recheck * cst.mult /\ pct < 800

ToRow(m, why) == [to |-> "row", val |-> m, why |-> why]
ToCooldown(c) == [to |-> "cst", val |-> c]
ToRamp == [to |-> "ramp"]
EatVeto == [to |-> "veto"]

Answer(m, writes, tripped, pct) ==
    [mem |-> m, writes |-> writes, tripped |-> tripped, pct |-> pct]

Tripped(m) == [m EXCEPT !.tripped = TRUE, !.age = 0]
Released(m) == [m EXCEPT !.tripped = FALSE, !.age = 0]
ChainOpened(cst) == [cst EXCEPT !.chain = 0]

\* _tiered_auto_reset: the multiplier stays, the chain window opens.
TieredReset(m, cst) == <<ToCooldown(ChainOpened(cst)), ToRow(Released(m), "tiered")>>

Disarmed(cst) == [cst EXCEPT !.armed = "no"]

\* Mutant: the veto holds for this ARM only.
VetoedForNow(cst) == Disarmed(cst)

Vetoed(cst) == [Disarmed(cst) EXCEPT !.disabled = TRUE]

FlatShut(cst) == [Disarmed(ChainOpened(cst)) EXCEPT !.flat = 0]

\* Mutant: no ramp after a flat reset.
FireUnramped(m, cst, balance) ==
    LET fired == Untripped(balance)
    IN  Answer(fired, <<ToCooldown(FlatShut(cst)), ToRow(fired, "fire"), ToRow(fired, "keep")>>,
               FALSE, 0)

\* _flat_fire: the peak is anchored at the balance of this very call.
Fire(m, cst, balance) ==
    LET fired == Untripped(balance)
    IN  Answer(fired, <<ToCooldown(FlatShut(cst)), ToRow(fired, "fire"), ToRamp,
                        ToRow(fired, "keep")>>, FALSE, 0)

\* The gates on the market at a daily close: G2 to G4 pass, or do not, or the
\* bars cannot be read.  G1 is the one about the trip.
GateReports == {"pass", "fail", "unreadable"}
GatesPass(m, gates) == gates = "pass" /\ m.age >= G1Days

GatesEvaluated(m, cst, gates) ==
    [cst EXCEPT !.evaluated = TRUE, !.armed = IF GatesPass(m, gates) THEN "window" ELSE "no"]

\* _flat_reset_eval of a standing trip of a flat account, and the store of the
\* row after it.  w is what the world shows: the veto and the gates.  Unreadable
\* bars do not use up the day.
FlatReset(m, cst, balance, w) ==
    LET hold(writes) == Answer(m, writes, TRUE, m.dd)
        keep == ToRow(m, "keep")
        due == cst.armed = "due"
        evaluate == cst.armed = "no" /\ ~cst.evaluated /\ w.gates # "unreadable"
    IN  CASE ~cst.disabled /\ cst.armed = "stale" -> hold(<<ToCooldown(Disarmed(cst)), keep>>)
          [] ~cst.disabled /\ due /\ w.veto ->
                hold(<<EatVeto, ToCooldown(Vetoed(cst)), keep>>)
          [] ~cst.disabled /\ due /\ ~w.veto ->
                IF GatesPass(m, w.gates) THEN Fire(m, cst, balance)
                ELSE hold(<<ToCooldown(Disarmed(cst)), keep>>)
          [] ~cst.disabled /\ evaluate ->
                hold(<<ToCooldown(GatesEvaluated(m, cst, w.gates)), keep>>)
          [] OTHER -> hold(<<keep>>)

\* Mutants: the multiplier has no cap; a re-trip may be reset flat again.
TripUncapped(m, cst) ==
    <<ToCooldown([Disarmed(cst) EXCEPT !.mult = IF cst.chain < Chain THEN 2 * @ ELSE 1]),
      ToRow(Tripped(m), "trip")>>
TripForgetsFlat(m, cst) ==
    <<ToCooldown([Disarmed(cst) EXCEPT
          !.mult = IF cst.chain < Chain THEN Min({2 * @, Cap}) ELSE 1,
          !.disabled = @ /\ cst.chain < Chain]),
      ToRow(Tripped(m), "trip")>>

\* The branch of check_drawdown that trips: a trip inside the window of any
\* reset doubles the cooldown, one inside the window of a flat reset leaves the
\* next release to a person, one outside of the window starts afresh.  The two
\* stores of the cooldown state here are one.
Trip(m, cst) ==
    LET again == cst.chain < Chain
    IN  <<ToCooldown([Disarmed(cst) EXCEPT
              !.mult = IF again THEN Min({2 * @, Cap}) ELSE 1,
              !.disabled = again /\ (@ \/ cst.flat < Retrip)]),
          ToRow(Tripped(m), "trip")>>

\* Mutant: a new peak lets entries through at once, as it once did.
NewPeakRearms(m, cst, balance) ==
    LET peak == [m EXCEPT !.hwm = balance, !.dd = 0]
    IN  Answer(peak, <<ToRow(peak, "keep")>>, FALSE, 0)

\* A balance above the peak becomes the peak; it releases no trip before its time.
NewPeak(m, cst, balance) ==
    LET peak == [m EXCEPT !.hwm = balance, !.dd = 0]
    IN  IF peak.tripped /\ ResetDue(peak, cst, 0)
        THEN Answer(Released(peak), <<ToRow(peak, "keep")>> \o TieredReset(peak, cst), FALSE, 0)
        ELSE Answer(peak, <<ToRow(peak, "keep")>>, peak.tripped, 0)

\* check_drawdown(balance, positions_open): flat is positions_open = 0.
CheckDrawdown(m, cst, balance, flat, w) ==
    LET pct == Pct(m.hwm, balance)
        now == [m EXCEPT !.dd = pct]
        released == now.tripped /\ ResetDue(now, cst, pct)
    IN  CASE PhantomSpike(m.hwm, balance) ->
                Answer(m, <<ToRow(m, "keep")>>, FALSE, pct)
          [] balance > m.hwm /\ ~PhantomSpike(m.hwm, balance) ->
                NewPeak(m, cst, balance)
          [] balance <= m.hwm /\ released ->
                Answer(Released(now),
                       TieredReset(now, cst) \o <<ToRow(Released(now), "keep")>>, FALSE, pct)
          [] balance <= m.hwm /\ now.tripped /\ ~released ->
                IF flat
                THEN FlatReset(now, cst, balance, w)
                ELSE Answer(now, <<ToRow(now, "keep")>>, TRUE, pct)
          [] balance <= m.hwm /\ ~now.tripped ->
                IF HardStop(m.hwm, balance)
                THEN Answer(Tripped(now), Trip(now, cst), TRUE, pct)
                ELSE Answer(now, <<ToRow(now, "keep")>>, FALSE, pct)

\* reset(new_balance): a person gives the account a fresh start.
ManualReset(cst) ==
    [Disarmed(cst) EXCEPT !.mult = 1, !.chain = 0, !.flat = Retrip, !.disabled = FALSE]

\* Mutant: the cooldown counts from the last check, which dates the trip anew.
OlderRowRedated(m) == [m EXCEPT !.age = 0]

\* A day begins: ages grow, an ARM of the day before has left its veto window,
\* one of two days ago is stale, and the gates may be evaluated anew.
OlderRow(m) == [m EXCEPT !.age = IF m.tripped THEN Min({@ + 1, MaxAge}) ELSE 0]
OlderCooldown(cst) ==
    [cst EXCEPT !.chain = Min({@ + 1, Chain}), !.flat = Min({@ + 1, Retrip}),
                !.evaluated = FALSE,
                !.armed = CASE @ = "window" -> "due" [] @ = "due" -> "stale" [] OTHER -> @]
=============================================================================
