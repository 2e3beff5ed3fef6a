-------------------------- MODULE StepwiseDrawdown --------------------------
(***************************************************************************)
(* src/stepwise_drawdown.py: the graded answer to a drawdown.  A drawdown   *)
(* is given in hundredths of a percent; a level is its place in             *)
(* LEVEL_ORDER.  The state is whether the key was ever stored, the stored   *)
(* level, whether more than two hours have gone by since it was entered,    *)
(* and whether it was reached by time.                                      *)
(***************************************************************************)
EXTENDS Integers, FiniteSetsExt

Normal == 0
Mild == 1
Moderate == 2
Severe == 3
Critical == 4

\* A database without the key: normal, entered at the moment of the load.
FreshLadder == [stored |-> FALSE, level |-> Normal, long |-> FALSE, escalated |-> FALSE]

LadderStates ==
    [stored : {FALSE}, level : {Normal}, long : {FALSE}, escalated : {FALSE}] \union
    [stored : {TRUE}, level : Normal .. Critical, long : BOOLEAN, escalated : BOOLEAN]

\* Two hours go by.  Every load of an absent key dates it anew, so that the
\* clock runs from the first transition only.
OlderLadder(st) == [st EXCEPT !.long = st.stored]

LevelFor(pct) ==
    CASE pct < 300 -> Normal
      [] pct \in 300 .. 499 -> Mild
      [] pct \in 500 .. 799 -> Moderate
      [] pct \in 800 .. 999 -> Severe
      [] OTHER -> Critical

BlocksNewTrades(level) == level >= Severe

\* The clock that counts is the one of the stored level, whichever that is.
TimeEscalates(st, pct) ==
    LevelFor(pct) = Moderate /\ st.long /\ ~st.escalated

\* The level of a call, before the state is written.
LevelOf(st, pct, readOnly) ==
    LET found == IF TimeEscalates(st, pct) THEN Severe ELSE LevelFor(pct)
    IN  IF st.escalated /\ found >= Moderate THEN Max({found, st.level})
        ELSE IF st.escalated /\ readOnly THEN st.level
        ELSE found

\* What get_drawdown_action leaves in the store: a transition resets the clock
\* and the flag, and the flag falls as well once the drawdown is below 5%.
LadderAfter(st, pct) ==
    LET level == LevelOf(st, pct, FALSE)
    IN  IF level # st.level
        THEN [stored |-> TRUE, level |-> level, long |-> FALSE,
              escalated |-> TimeEscalates(st, pct)]
        ELSE [st EXCEPT !.escalated = @ /\ level >= Moderate]
=============================================================================
