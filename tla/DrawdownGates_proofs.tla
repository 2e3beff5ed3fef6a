----------------------- MODULE DrawdownGates_proofs -----------------------
(***************************************************************************)
(* Proofs about DrawdownGates, for every account, every duration and any    *)
(* number of troubles: its state is well typed, a veto given in time stops  *)
(* the flat reset of the trip it was given for, and no trip is given up     *)
(* before its time.  Under a condition on the configuration or the account  *)
(* each (Nested, ShortRamp, Narrow): flat resets are far apart, the day of  *)
(* one is entered at half size, and a standing trip stops the entries.      *)
(***************************************************************************)
EXTENDS DrawdownGates, SequenceTheorems, TLAPS

-----------------------------------------------------------------------------
(* Arithmetic and types                                                     *)

LEMMA MinOfTwo ==
    ASSUME NEW a \in Int, NEW b \in Int
    PROVE  Min({a, b}) = IF a <= b THEN a ELSE b
<1> DEFINE P(x) == x \in {a, b} /\ \A y \in {a, b} : x =< y
           c == IF a <= b THEN a ELSE b
<1>1. P(c)
  OBVIOUS
<1>2. \A x : P(x) => x = c
  OBVIOUS
<1>3. Min({a, b}) = CHOOSE x : P(x)
  BY DEF Min
<1>4. P(CHOOSE x : P(x))
  <2> HIDE DEF P, c
  <2> QED
    BY <1>1
<1> QED
  <2> HIDE DEF P
  <2> QED
    BY <1>2, <1>3, <1>4

LEMMA MaxOfTwo ==
    ASSUME NEW a \in Int, NEW b \in Int
    PROVE  Max({a, b}) = IF a >= b THEN a ELSE b
<1> DEFINE P(x) == x \in {a, b} /\ \A y \in {a, b} : x >= y
           c == IF a >= b THEN a ELSE b
<1>1. P(c)
  OBVIOUS
<1>2. \A x : P(x) => x = c
  OBVIOUS
<1>3. Max({a, b}) = CHOOSE x : P(x)
  BY DEF Max
<1>4. P(CHOOSE x : P(x))
  <2> HIDE DEF P, c
  <2> QED
    BY <1>1
<1> QED
  <2> HIDE DEF P
  <2> QED
    BY <1>2, <1>3, <1>4

LEMMA Product == ASSUME NEW a \in Nat, NEW b \in Nat PROVE a * b \in Nat
OBVIOUS

LEMMA MaxAgeType == MaxAge \in Nat
<1>1. Recheck * Cap \in Nat
  BY Product, DurationsAssumption
<1> QED
  BY <1>1, MaxOfTwo, DurationsAssumption DEF MaxAge

LEMMA PctType == ASSUME NEW h \in Nat \ {0}, NEW b \in Nat PROVE Pct(h, b) \in Int
<1>1. h \div 2 \in Int
  OBVIOUS
<1>2. ((h - b) * 10000 + h \div 2) \in Int
  BY <1>1
<1> QED
  BY <1>2 DEF Pct

-----------------------------------------------------------------------------
(* What a check returns is well typed                                       *)

LEMMA WriteTypes ==
    /\ \A m \in Rows, why \in {"keep", "trip", "tiered", "fire"} : ToRow(m, why) \in Writes
    /\ \A c \in Cooldowns : ToCooldown(c) \in Writes
    /\ ToRamp \in Writes /\ EatVeto \in Writes
BY DEF ToRow, ToCooldown, ToRamp, EatVeto, Writes

LEMMA RowTypes ==
    ASSUME NEW m \in Rows
    PROVE  /\ Released(m) \in Rows /\ ~Released(m).tripped
           /\ OlderRow(m) \in Rows /\ OlderRow(m).tripped = m.tripped
           /\ \A b \in Nat : Untripped(b) \in Rows
           /\ [m EXCEPT !.tripped = TRUE, !.age = 0] \in Rows
           /\ [m EXCEPT !.tripped = TRUE, !.age = 0].tripped
<1>1. MaxAge \in Nat
  BY MaxAgeType
<1>2. Min({m.age + 1, MaxAge}) \in 0 .. MaxAge
  BY <1>1, MinOfTwo DEF Rows
<1>3. OlderRow(m) \in Rows /\ OlderRow(m).tripped = m.tripped
  <2> DEFINE age == IF m.tripped THEN Min({m.age + 1, MaxAge}) ELSE 0
  <2>1. age \in 0 .. MaxAge
    BY <1>1, <1>2
  <2>2. OlderRow(m) = [m EXCEPT !.age = age]
    BY Zenon DEF OlderRow
  <2> HIDE DEF age
  <2> QED
    BY <2>1, <2>2 DEF Rows
<1>4. \A t \in BOOLEAN : LET n == [m EXCEPT !.tripped = t]
                         IN  n \in Rows /\ n.tripped = t
  BY DEF Rows
<1>5. \A n \in Rows : [n EXCEPT !.age = 0] \in Rows /\ [n EXCEPT !.age = 0].tripped = n.tripped
  BY <1>1 DEF Rows
<1>6. \A b \in Nat : Untripped(b) \in Rows
  BY <1>1 DEF Untripped, Rows
<1>7. Released(m) \in Rows /\ ~Released(m).tripped
  BY <1>4, <1>5, Zenon DEF Released
<1>8. [m EXCEPT !.tripped = TRUE, !.age = 0] \in Rows /\ [m EXCEPT !.tripped = TRUE, !.age = 0].tripped
  BY <1>4, <1>5, Zenon
<1> QED
  BY <1>3, <1>6, <1>7, <1>8, Zenon

LEMMA DrawdownStored ==
    ASSUME NEW m \in Rows, NEW d \in Int
    PROVE  /\ [m EXCEPT !.dd = d] \in Rows
           /\ [m EXCEPT !.dd = d].tripped = m.tripped
           /\ [m EXCEPT !.dd = d].hwm = m.hwm
BY DEF Rows

LEMMA PeakStored ==
    ASSUME NEW m \in Rows, NEW b \in Nat
    PROVE  /\ [m EXCEPT !.hwm = b, !.dd = 0] \in Rows
           /\ [m EXCEPT !.hwm = b, !.dd = 0].tripped = m.tripped
<1> DEFINE n == [m EXCEPT !.hwm = b]
<1>1. n \in Rows /\ n.tripped = m.tripped /\ 0 \in Int
  BY DEF Rows
<1>2. [n EXCEPT !.dd = 0] \in Rows /\ [n EXCEPT !.dd = 0].tripped = n.tripped
  <2> HIDE DEF n
  <2> QED
    BY <1>1, DrawdownStored
<1> QED
  BY <1>1, <1>2, Zenon

LEMMA CapType ==
    ASSUME NEW n \in 1 .. Cap
    PROVE  Min({2 * n, Cap}) \in 1 .. Cap
BY MinOfTwo, DurationsAssumption

LEMMA WindowType ==
    ASSUME NEW w \in Nat, NEW n \in 0 .. w
    PROVE  Min({n + 1, w}) \in 0 .. w
BY MinOfTwo

\* One field of the cooldown state at a time.
LEMMA CooldownField ==
    ASSUME NEW c \in Cooldowns
    PROVE  /\ \A x \in 1 .. Cap : LET n == [c EXCEPT !.mult = x]
                                  IN  n \in Cooldowns /\ n.disabled = c.disabled
           /\ \A x \in 0 .. Chain : LET n == [c EXCEPT !.chain = x]
                                    IN  n \in Cooldowns /\ n.disabled = c.disabled
           /\ \A x \in 0 .. Retrip : LET n == [c EXCEPT !.flat = x]
                                     IN  n \in Cooldowns /\ n.disabled = c.disabled
           /\ \A x \in Armings : LET n == [c EXCEPT !.armed = x]
                                 IN  n \in Cooldowns /\ n.disabled = c.disabled
           /\ \A x \in BOOLEAN : LET n == [c EXCEPT !.disabled = x]
                                 IN  n \in Cooldowns /\ n.disabled = x
           /\ \A x \in BOOLEAN : LET n == [c EXCEPT !.evaluated = x]
                                 IN  n \in Cooldowns /\ n.disabled = c.disabled
BY DEF Cooldowns

LEMMA CooldownValues ==
    /\ 0 \in 0 .. Chain /\ 0 \in 0 .. Retrip /\ Retrip \in 0 .. Retrip /\ 1 \in 1 .. Cap
    /\ "no" \in Armings /\ "window" \in Armings
BY DurationsAssumption DEF Armings

LEMMA CooldownTypes ==
    ASSUME NEW c \in Cooldowns
    PROVE  /\ ChainOpened(c) \in Cooldowns /\ ChainOpened(c).disabled = c.disabled
           /\ Disarmed(c) \in Cooldowns /\ Disarmed(c).disabled = c.disabled
           /\ Vetoed(c) \in Cooldowns /\ Vetoed(c).disabled
           /\ [Disarmed(ChainOpened(c)) EXCEPT !.flat = 0] \in Cooldowns
           /\ \A a \in Armings :
                 /\ [c EXCEPT !.evaluated = TRUE, !.armed = a] \in Cooldowns
                 /\ [c EXCEPT !.evaluated = TRUE, !.armed = a].disabled = c.disabled
           /\ ManualReset(c) \in Cooldowns
<1>1. \A k \in Cooldowns : ChainOpened(k) \in Cooldowns /\ ChainOpened(k).disabled = k.disabled
  BY CooldownField, CooldownValues, Zenon DEF ChainOpened
<1>2. \A k \in Cooldowns : Disarmed(k) \in Cooldowns /\ Disarmed(k).disabled = k.disabled
  BY CooldownField, CooldownValues, Zenon DEF Disarmed
<1>3. Vetoed(c) \in Cooldowns /\ Vetoed(c).disabled
  BY <1>2, CooldownField, Zenon DEF Vetoed
<1>4. [Disarmed(ChainOpened(c)) EXCEPT !.flat = 0] \in Cooldowns
  BY <1>1, <1>2, CooldownField, CooldownValues, Zenon
<1>5. ASSUME NEW a \in Armings
      PROVE  /\ [c EXCEPT !.evaluated = TRUE, !.armed = a] \in Cooldowns
             /\ [c EXCEPT !.evaluated = TRUE, !.armed = a].disabled = c.disabled
  <2> DEFINE c1 == [c EXCEPT !.evaluated = TRUE]
             c2 == [c1 EXCEPT !.armed = a]
  <2>1. c1 \in Cooldowns /\ c1.disabled = c.disabled
    BY CooldownField, Zenon
  <2>2. c2 \in Cooldowns /\ c2.disabled = c1.disabled
    <3> HIDE DEF c1
    <3> QED
      BY <2>1, CooldownField, Zenon
  <2> QED
    BY <2>1, <2>2, Zenon
<1>6. ManualReset(c) \in Cooldowns
  <2> DEFINE c1 == [Disarmed(c) EXCEPT !.mult = 1]
             c2 == [c1 EXCEPT !.chain = 0]
             c3 == [c2 EXCEPT !.flat = Retrip]
             c4 == [c3 EXCEPT !.disabled = FALSE]
  <2>1. c1 \in Cooldowns
    BY <1>2, CooldownField, CooldownValues, Zenon
  <2>2. c2 \in Cooldowns
    <3> HIDE DEF c1
    <3> QED
      BY <2>1, CooldownField, CooldownValues, Zenon
  <2>3. c3 \in Cooldowns
    <3> HIDE DEF c2
    <3> QED
      BY <2>2, CooldownField, CooldownValues, Zenon
  <2>4. c4 \in Cooldowns
    <3> HIDE DEF c3
    <3> QED
      BY <2>3, CooldownField, Zenon
  <2> QED
    BY <2>4, Zenon DEF ManualReset
<1> QED
  BY <1>1, <1>2, <1>3, <1>4, <1>5, <1>6, Zenon

LEMMA OlderCooldownType ==
    ASSUME NEW c \in Cooldowns
    PROVE  OlderCooldown(c) \in Cooldowns /\ OlderCooldown(c).disabled = c.disabled
<1> DEFINE chain == Min({c.chain + 1, Chain})
           flat == Min({c.flat + 1, Retrip})
           armed == CASE c.armed = "window" -> "due" [] c.armed = "due" -> "stale"
                      [] OTHER -> c.armed
           c1 == [c EXCEPT !.chain = chain]
           c2 == [c1 EXCEPT !.flat = flat]
           c3 == [c2 EXCEPT !.evaluated = FALSE]
           c4 == [c3 EXCEPT !.armed = armed]
<1>1. armed \in Armings
  BY Zenon DEF Cooldowns, Armings
<1>2. chain \in 0 .. Chain /\ flat \in 0 .. Retrip
  BY WindowType, DurationsAssumption DEF Cooldowns
<1>3. OlderCooldown(c) = c4
  BY Zenon DEF OlderCooldown
<1> HIDE DEF chain, flat, armed
<1>4. c1 \in Cooldowns /\ c1.disabled = c.disabled
  BY <1>2, CooldownField, Zenon
<1>5. c2 \in Cooldowns /\ c2.disabled = c1.disabled
  <2> HIDE DEF c1
  <2> QED
    BY <1>2, <1>4, CooldownField, Zenon
<1>6. c3 \in Cooldowns /\ c3.disabled = c2.disabled
  <2> HIDE DEF c2
  <2> QED
    BY <1>5, CooldownField, Zenon
<1>7. c4 \in Cooldowns /\ c4.disabled = c3.disabled
  <2> HIDE DEF c3
  <2> QED
    BY <1>1, <1>6, CooldownField, Zenon
<1> QED
  BY <1>3, <1>4, <1>5, <1>6, <1>7, Zenon
-----------------------------------------------------------------------------
(* The invariant of the veto                                                *)

IsRow(w, why) == w.to = "row" /\ w.why = why
IsCst(w) == w.to = "cst"

\* The writes t that may be outstanding, and what is known of them: whether
\* the stored row is tripped, whether the trip is vetoed, whether the veto is
\* still in the store, and whether the row a scan holds must be tripped.
Shaped(t, stored, vetoed, kept, mem) ==
    \/ /\ Len(t) = 1 /\ IsRow(t[1], "keep")
       /\ stored => t[1].val.tripped
       /\ t[1].val.tripped => mem
    \/ /\ Len(t) = 2 /\ IsCst(t[1]) /\ IsRow(t[2], "keep")
       /\ stored => t[2].val.tripped
       /\ t[2].val.tripped => mem
       /\ vetoed => kept \/ t[1].val.disabled
    \/ /\ Len(t) = 3 /\ t[1].to = "veto" /\ IsCst(t[2]) /\ IsRow(t[3], "keep")
       /\ stored => t[3].val.tripped
       /\ t[3].val.tripped => mem
       /\ t[2].val.disabled
    \/ /\ Len(t) = 2 /\ IsRow(t[1], "tiered") /\ IsRow(t[2], "keep")
       /\ ~t[1].val.tripped /\ ~t[2].val.tripped
    \/ /\ Len(t) = 3 /\ IsCst(t[1]) /\ IsRow(t[2], "tiered") /\ IsRow(t[3], "keep")
       /\ ~t[2].val.tripped /\ ~t[3].val.tripped
       /\ vetoed => kept \/ t[1].val.disabled
    \/ /\ Len(t) = 1 /\ IsRow(t[1], "tiered")
       /\ ~t[1].val.tripped
    \/ /\ Len(t) = 2 /\ IsCst(t[1]) /\ IsRow(t[2], "tiered")
       /\ ~t[2].val.tripped
       /\ vetoed => kept \/ t[1].val.disabled
    \/ /\ Len(t) = 3 /\ IsRow(t[1], "keep") /\ IsCst(t[2]) /\ IsRow(t[3], "tiered")
       /\ stored => t[1].val.tripped
       /\ ~t[3].val.tripped
       /\ vetoed => kept \/ t[2].val.disabled
    \/ /\ Len(t) = 4 /\ IsCst(t[1]) /\ IsRow(t[2], "fire") /\ t[3].to = "ramp"
       /\ IsRow(t[4], "keep")
       /\ ~t[2].val.tripped /\ ~t[4].val.tripped /\ ~vetoed
    \/ /\ Len(t) = 3 /\ IsRow(t[1], "fire") /\ t[2].to = "ramp" /\ IsRow(t[3], "keep")
       /\ ~t[1].val.tripped /\ ~t[3].val.tripped /\ ~vetoed
    \/ /\ Len(t) = 2 /\ t[1].to = "ramp" /\ IsRow(t[2], "keep")
       /\ ~t[2].val.tripped /\ ~stored
    \/ /\ Len(t) = 2 /\ IsCst(t[1]) /\ IsRow(t[2], "trip")
       /\ ~stored /\ mem
    \/ /\ Len(t) = 1 /\ IsRow(t[1], "trip")
       /\ ~stored /\ mem

\* A vetoed trip is stored, and its veto is stored or about to be turned into
\* a disarm; the row a scan holds is tripped when the stored one is.
VetoInv ==
    /\ hist.vetoed => row.tripped
    /\ hist.vetoed => \/ veto \/ cst.disabled
                      \/ /\ Len(todo) = 2 /\ IsCst(todo[1]) /\ IsRow(todo[2], "keep")
                         /\ todo[1].val.disabled
    /\ todo # <<>> => scan.at \in {"checking", "executing"}
    /\ (todo = <<>> /\ scan.at \in {"research", "checking"} /\ row.tripped) => scan.mem.tripped
    /\ \/ todo = <<>>
       \/ Shaped(todo, row.tripped, hist.vetoed, veto, scan.at = "checking" => scan.mem.tripped)

-----------------------------------------------------------------------------
(* The writes of a check have one of the shapes                             *)

\* What the caller of check_drawdown may rely on.
Sound(t, stored, vetoed, kept, mem) ==
    t \in Seq(Writes) /\ Shaped(t, stored, vetoed, kept, mem)

LEMMA KeepShape ==
    ASSUME NEW r \in Rows, NEW stored, NEW vetoed, NEW kept, NEW mem,
           stored => r.tripped, r.tripped => mem
    PROVE  Sound(<<ToRow(r, "keep")>>, stored, vetoed, kept, mem)
<1>1. ToRow(r, "keep") \in Writes
  BY WriteTypes
<1> QED
  BY <1>1 DEF Sound, Shaped, IsRow, ToRow

LEMMA StoreShape ==
    ASSUME NEW r \in Rows, NEW c \in Cooldowns, NEW stored, NEW vetoed, NEW kept, NEW mem,
           stored => r.tripped, r.tripped => mem, vetoed => kept \/ c.disabled
    PROVE  Sound(<<ToCooldown(c), ToRow(r, "keep")>>, stored, vetoed, kept, mem)
<1>1. ToRow(r, "keep") \in Writes /\ ToCooldown(c) \in Writes
  BY WriteTypes
<1> QED
  BY <1>1 DEF Sound, Shaped, IsRow, IsCst, ToRow, ToCooldown

LEMMA VetoShape ==
    ASSUME NEW r \in Rows, NEW c \in Cooldowns, NEW stored, NEW vetoed, NEW kept, NEW mem,
           stored => r.tripped, r.tripped => mem, c.disabled
    PROVE  Sound(<<EatVeto, ToCooldown(c), ToRow(r, "keep")>>, stored, vetoed, kept, mem)
<1>1. ToRow(r, "keep") \in Writes /\ ToCooldown(c) \in Writes /\ EatVeto \in Writes
  BY WriteTypes
<1> QED
  BY <1>1 DEF Sound, Shaped, IsRow, IsCst, ToRow, ToCooldown, EatVeto

LEMMA TieredShape ==
    ASSUME NEW r \in Rows, NEW c \in Cooldowns, NEW stored, NEW vetoed, NEW kept, NEW mem,
           ~r.tripped, vetoed => kept \/ c.disabled
    PROVE  Sound(<<ToCooldown(c), ToRow(r, "tiered"), ToRow(r, "keep")>>,
                 stored, vetoed, kept, mem)
<1>1. /\ ToRow(r, "keep") \in Writes /\ ToRow(r, "tiered") \in Writes
      /\ ToCooldown(c) \in Writes
  BY WriteTypes
<1> QED
  BY <1>1 DEF Sound, Shaped, IsRow, IsCst, ToRow, ToCooldown

LEMMA PeakShape ==
    ASSUME NEW p \in Rows, NEW r \in Rows, NEW c \in Cooldowns,
           NEW stored, NEW vetoed, NEW kept, NEW mem,
           stored => p.tripped, ~r.tripped, vetoed => kept \/ c.disabled
    PROVE  Sound(<<ToRow(p, "keep"), ToCooldown(c), ToRow(r, "tiered")>>,
                 stored, vetoed, kept, mem)
<1>1. /\ ToRow(p, "keep") \in Writes /\ ToRow(r, "tiered") \in Writes
      /\ ToCooldown(c) \in Writes
  BY WriteTypes
<1> QED
  BY <1>1 DEF Sound, Shaped, IsRow, IsCst, ToRow, ToCooldown

LEMMA FireShape ==
    ASSUME NEW r \in Rows, NEW c \in Cooldowns, NEW stored, NEW vetoed, NEW kept, NEW mem,
           ~r.tripped, ~vetoed
    PROVE  Sound(<<ToCooldown(c), ToRow(r, "fire"), ToRamp, ToRow(r, "keep")>>,
                 stored, vetoed, kept, mem)
<1>1. /\ ToRow(r, "keep") \in Writes /\ ToRow(r, "fire") \in Writes
      /\ ToCooldown(c) \in Writes /\ ToRamp \in Writes
  BY WriteTypes
<1> QED
  BY <1>1 DEF Sound, Shaped, IsRow, IsCst, ToRow, ToCooldown, ToRamp

LEMMA TripShape ==
    ASSUME NEW r \in Rows, NEW c \in Cooldowns, NEW stored, NEW vetoed, NEW kept, NEW mem,
           ~stored, mem
    PROVE  Sound(<<ToCooldown(c), ToRow(r, "trip")>>, stored, vetoed, kept, mem)
<1>1. ToRow(r, "trip") \in Writes /\ ToCooldown(c) \in Writes
  BY WriteTypes
<1> QED
  BY <1>1 DEF Sound, Shaped, IsRow, IsCst, ToRow, ToCooldown

LEMMA Joined ==
    ASSUME NEW S, NEW a \in S, NEW b \in S, NEW c \in S
    PROVE  /\ <<a>> \o <<b, c>> = <<a, b, c>>
           /\ <<a, b>> \o <<c>> = <<a, b, c>>
<1>1. /\ <<a>> \in Seq(S) /\ <<a, b>> \in Seq(S) /\ <<c>> \in Seq(S)
      /\ <<b, c>> \in Seq(S) /\ <<a, b, c>> \in Seq(S)
  OBVIOUS
<1>2. /\ <<a>> \o <<b, c>> \in Seq(S) /\ Len(<<a>> \o <<b, c>>) = 3
      /\ <<a, b>> \o <<c>> \in Seq(S) /\ Len(<<a, b>> \o <<c>>) = 3
      /\ Len(<<a, b, c>>) = 3
  BY <1>1
<1>3. \A i \in 1 .. 3 : /\ (<<a>> \o <<b, c>>)[i] = <<a, b, c>>[i]
                        /\ (<<a, b>> \o <<c>>)[i] = <<a, b, c>>[i]
  BY <1>1
<1>4. \A x, y \in Seq(S) :
         Len(x) = Len(y) /\ (\A i \in 1 .. Len(x) : x[i] = y[i]) => x = y
  BY SeqEqual
<1> QED
  BY <1>1, <1>2, <1>3, <1>4

\* An answer is well typed, and so is what it leaves to be written.
Answered(c, stored, vetoed, kept) ==
    /\ c.mem \in Rows /\ c.tripped \in BOOLEAN /\ c.pct \in Int
    /\ Sound(c.writes, stored, vetoed, kept, c.mem.tripped)

LEMMA AnswerSound ==
    ASSUME NEW m \in Rows, NEW t \in BOOLEAN, NEW p \in Int, NEW writes,
           NEW stored, NEW vetoed, NEW kept, Sound(writes, stored, vetoed, kept, m.tripped)
    PROVE  Answered(Answer(m, writes, t, p), stored, vetoed, kept)
<1> DEFINE c == Answer(m, writes, t, p)
<1>1. c.mem = m /\ c.tripped = t /\ c.pct = p /\ c.writes = writes
  BY DEF Answer
<1> HIDE DEF c
<1>2. Answered(c, stored, vetoed, kept)
  BY <1>1, Zenon DEF Answered
<1> QED
  BY <1>2 DEF c

Worlds == [veto : BOOLEAN, gates : GateReports]

LEMMA FlatResetSound ==
    ASSUME NEW m \in Rows, NEW cs \in Cooldowns, NEW balance \in Nat, NEW w \in Worlds,
           NEW stored, NEW vetoed,
           m.tripped, vetoed => w.veto \/ cs.disabled
    PROVE  Answered(FlatReset(m, cs, balance, w), stored, vetoed, w.veto)
<1> DEFINE fr == FlatReset(m, cs, balance, w)
           hold(writes) == Answer(m, writes, TRUE, m.dd)
           keep == ToRow(m, "keep")
           fired == Untripped(balance)
           shut == FlatShut(cs)
           turn == GatesEvaluated(m, cs, w.gates)
<1>1. \/ fr = hold(<<keep>>)
      \/ fr = hold(<<ToCooldown(Disarmed(cs)), keep>>)
      \/ fr = hold(<<ToCooldown(turn), keep>>)
      \/ fr = hold(<<EatVeto, ToCooldown(Vetoed(cs)), keep>>)
      \/ /\ fr = Answer(fired, <<ToCooldown(shut), ToRow(fired, "fire"), ToRamp,
                                 ToRow(fired, "keep")>>, FALSE, 0)
         /\ ~w.veto /\ ~cs.disabled
  BY Zenon DEF FlatReset, Fire
<1>2. /\ Disarmed(cs) \in Cooldowns /\ Disarmed(cs).disabled = cs.disabled
      /\ Vetoed(cs) \in Cooldowns /\ Vetoed(cs).disabled
      /\ shut \in Cooldowns /\ fired \in Rows
  BY CooldownTypes, RowTypes DEF FlatShut
<1>3. turn \in Cooldowns /\ turn.disabled = cs.disabled
  BY CooldownTypes, CooldownValues, Zenon DEF GatesEvaluated
<1>4. ~fired.tripped /\ m.dd \in Int /\ 0 \in Int
  BY DEF Untripped, Rows
<1> HIDE DEF fr, shut, turn, fired
<1>5. Answered(hold(<<keep>>), stored, vetoed, w.veto)
  <2>1. Sound(<<keep>>, stored, vetoed, w.veto, m.tripped)
    BY KeepShape
  <2> QED
    BY <1>4, <2>1, AnswerSound, Zenon
<1>6. ASSUME NEW c \in Cooldowns, c.disabled = cs.disabled
      PROVE  Answered(hold(<<ToCooldown(c), keep>>), stored, vetoed, w.veto)
  <2>1. Sound(<<ToCooldown(c), keep>>, stored, vetoed, w.veto, m.tripped)
    BY <1>6, StoreShape
  <2> QED
    BY <1>4, <2>1, AnswerSound, Zenon
<1>7. Answered(hold(<<EatVeto, ToCooldown(Vetoed(cs)), keep>>), stored, vetoed, w.veto)
  <2>1. Sound(<<EatVeto, ToCooldown(Vetoed(cs)), keep>>, stored, vetoed, w.veto, m.tripped)
    BY <1>2, VetoShape
  <2> QED
    BY <1>4, <2>1, AnswerSound, Zenon
<1>8. ASSUME ~w.veto, ~cs.disabled
      PROVE  Answered(Answer(fired, <<ToCooldown(shut), ToRow(fired, "fire"), ToRamp,
                                      ToRow(fired, "keep")>>, FALSE, 0), stored, vetoed, w.veto)
  <2>1. Sound(<<ToCooldown(shut), ToRow(fired, "fire"), ToRamp, ToRow(fired, "keep")>>,
              stored, vetoed, w.veto, fired.tripped)
    BY <1>2, <1>4, <1>8, FireShape
  <2> QED
    BY <1>2, <1>4, <2>1, AnswerSound, Zenon
<1>9. Answered(fr, stored, vetoed, w.veto)
  BY <1>1, <1>2, <1>3, <1>5, <1>6, <1>7, <1>8, Zenon
<1> QED
  BY <1>9 DEF fr

LEMMA NewPeakSound ==
    ASSUME NEW m \in Rows, NEW cs \in Cooldowns, NEW balance \in Nat,
           NEW stored, NEW vetoed, NEW kept,
           stored => m.tripped, vetoed => kept \/ cs.disabled
    PROVE  Answered(NewPeak(m, cs, balance), stored, vetoed, kept)
<1> DEFINE peak == [m EXCEPT !.hwm = balance, !.dd = 0]
           np == NewPeak(m, cs, balance)
           turned == <<ToRow(peak, "keep")>> \o TieredReset(peak, cs)
<1>1. peak \in Rows /\ peak.tripped = m.tripped /\ peak.tripped \in BOOLEAN /\ 0 \in Int
  <2>1. peak \in Rows /\ peak.tripped = m.tripped
    BY PeakStored
  <2> QED
    BY <2>1 DEF Rows
<1>2. \/ np = Answer(Released(peak), turned, FALSE, 0)
      \/ np = Answer(peak, <<ToRow(peak, "keep")>>, peak.tripped, 0)
  BY Zenon DEF NewPeak
<1> HIDE DEF peak, np
<1>3. Released(peak) \in Rows /\ ~Released(peak).tripped
  BY <1>1, RowTypes
<1>4. ChainOpened(cs) \in Cooldowns /\ ChainOpened(cs).disabled = cs.disabled
  BY CooldownTypes
<1>5. turned = <<ToRow(peak, "keep"), ToCooldown(ChainOpened(cs)), ToRow(Released(peak), "tiered")>>
  <2> DEFINE a == ToRow(peak, "keep")
             b == ToCooldown(ChainOpened(cs))
             c == ToRow(Released(peak), "tiered")
  <2>1. a \in Writes /\ b \in Writes /\ c \in Writes
    BY <1>1, <1>3, <1>4, WriteTypes
  <2>2. turned = <<a>> \o <<b, c>>
    BY Zenon DEF TieredReset
  <2> HIDE DEF a, b, c
  <2>3. <<a>> \o <<b, c>> = <<a, b, c>>
    BY <2>1, Joined
  <2> QED
    BY <2>2, <2>3 DEF a, b, c
<1>6. Sound(turned, stored, vetoed, kept, Released(peak).tripped)
  BY <1>1, <1>3, <1>4, <1>5, PeakShape
<1>7. Sound(<<ToRow(peak, "keep")>>, stored, vetoed, kept, peak.tripped)
  BY <1>1, KeepShape
<1>8. Answered(Answer(Released(peak), turned, FALSE, 0), stored, vetoed, kept)
  BY <1>1, <1>3, <1>6, AnswerSound, Zenon
<1>9. Answered(Answer(peak, <<ToRow(peak, "keep")>>, peak.tripped, 0), stored, vetoed, kept)
  BY <1>1, <1>7, AnswerSound, Zenon
<1>10. Answered(np, stored, vetoed, kept)
  BY <1>2, <1>8, <1>9
<1> QED
  BY <1>10 DEF np

LEMMA TrippedTypes ==
    ASSUME NEW m \in Rows, NEW cs \in Cooldowns
    PROVE  /\ Tripped(m) \in Rows /\ Tripped(m).tripped
           /\ \E c \in Cooldowns : Trip(m, cs) = <<ToCooldown(c), ToRow(Tripped(m), "trip")>>
<1> DEFINE again == cs.chain < Chain
           d == Disarmed(cs)
           mult == IF again THEN Min({2 * d.mult, Cap}) ELSE 1
           c1 == [d EXCEPT !.mult = mult]
           disabled == again /\ (c1.disabled \/ cs.flat < Retrip)
           c2 == [c1 EXCEPT !.disabled = disabled]
<1>1. Tripped(m) \in Rows /\ Tripped(m).tripped
  BY RowTypes, Zenon DEF Tripped
<1>2. d \in Cooldowns
  BY CooldownTypes
<1>3. mult \in 1 .. Cap
  <2>1. d.mult \in 1 .. Cap
    BY <1>2 DEF Cooldowns
  <2> HIDE DEF d
  <2> QED
    BY <2>1, CapType, CooldownValues
<1>4. c1 \in Cooldowns
  <2> HIDE DEF d, mult
  <2> QED
    BY <1>2, <1>3, CooldownField, Zenon
<1>5. c2 \in Cooldowns
  <2>1. disabled \in BOOLEAN
    BY Zenon
  <2> HIDE DEF c1, disabled
  <2> QED
    BY <1>4, <2>1, CooldownField, Zenon
<1>6. Trip(m, cs) = <<ToCooldown(c2), ToRow(Tripped(m), "trip")>>
  BY Zenon DEF Trip
<1> HIDE DEF c2
<1> QED
  BY <1>1, <1>5, <1>6, Zenon

LEMMA CheckSound ==
    ASSUME NEW m \in Rows, NEW cs \in Cooldowns, NEW balance \in Nat \ {0},
           NEW flat \in BOOLEAN, NEW w \in Worlds, NEW stored, NEW vetoed,
           stored => m.tripped, vetoed => stored, vetoed => w.veto \/ cs.disabled
    PROVE  Answered(CheckDrawdown(m, cs, balance, flat, w), stored, vetoed, w.veto)
<1> DEFINE pct == Pct(m.hwm, balance)
           now == [m EXCEPT !.dd = pct]
           cd == CheckDrawdown(m, cs, balance, flat, w)
           tiered == TieredReset(now, cs) \o <<ToRow(Released(now), "keep")>>
<1>0. m.hwm \in Nat /\ m.tripped \in BOOLEAN
  BY DEF Rows
<1>1. CASE balance > m.hwm /\ ~PhantomSpike(m.hwm, balance)
  <2>0. ~(balance <= m.hwm)
    BY <1>0, <1>1
  <2>1. cd = NewPeak(m, cs, balance)
    BY <1>1, <2>0, Zenon DEF CheckDrawdown
  <2> QED
    BY <2>1, NewPeakSound
<1>2. CASE ~(balance > m.hwm /\ ~PhantomSpike(m.hwm, balance))
  <2>1. m.hwm \in Nat \ {0}
    BY <1>0, <1>2 DEF PhantomSpike
  <2>2. pct \in Int
    BY <2>1, PctType
  <2>3. now \in Rows /\ now.tripped = m.tripped /\ now.hwm = m.hwm
    BY <2>2, DrawdownStored
  <2>4. Released(now) \in Rows /\ ~Released(now).tripped
    BY <2>3, RowTypes
  <2>5. ChainOpened(cs) \in Cooldowns /\ ChainOpened(cs).disabled = cs.disabled
    BY CooldownTypes
  <2>6. \/ cd = Answer(m, <<ToRow(m, "keep")>>, FALSE, pct)
        \/ cd = Answer(Released(now), tiered, FALSE, pct)
        \/ cd = FlatReset(now, cs, balance, w) /\ now.tripped
        \/ cd = Answer(now, <<ToRow(now, "keep")>>, TRUE, pct)
        \/ cd = Answer(Tripped(now), Trip(now, cs), TRUE, pct) /\ ~now.tripped
        \/ cd = Answer(now, <<ToRow(now, "keep")>>, FALSE, pct)
    <3>1. CASE PhantomSpike(m.hwm, balance)
      <4>1. cd = Answer(m, <<ToRow(m, "keep")>>, FALSE, pct)
        <5>1. balance > m.hwm
          BY <1>0, <3>1 DEF PhantomSpike
        <5>2. ~(balance <= m.hwm)
          BY <1>0, <5>1
        <5> QED
          BY <3>1, <5>2, Zenon DEF CheckDrawdown
      <4> QED
        BY <4>1
    <3>2. CASE ~PhantomSpike(m.hwm, balance)
      <4>1. balance <= m.hwm /\ ~(balance > m.hwm)
        BY <1>0, <1>2, <3>2
      <4> QED
        BY <3>2, <4>1, Zenon DEF CheckDrawdown
    <3> QED
      BY <3>1, <3>2
  <2> HIDE DEF cd, now, pct
  <2>7. tiered = <<ToCooldown(ChainOpened(cs)), ToRow(Released(now), "tiered"),
                   ToRow(Released(now), "keep")>>
    <3> DEFINE a == ToCooldown(ChainOpened(cs))
               b == ToRow(Released(now), "tiered")
               c == ToRow(Released(now), "keep")
    <3>1. a \in Writes /\ b \in Writes /\ c \in Writes
      BY <2>4, <2>5, WriteTypes
    <3>2. tiered = <<a, b>> \o <<c>>
      BY Zenon DEF TieredReset
    <3> HIDE DEF a, b, c
    <3>3. <<a, b>> \o <<c>> = <<a, b, c>>
      BY <3>1, Joined
    <3> QED
      BY <3>2, <3>3 DEF a, b, c
  <2>8. Answered(Answer(m, <<ToRow(m, "keep")>>, FALSE, pct), stored, vetoed, w.veto)
    <3>1. Sound(<<ToRow(m, "keep")>>, stored, vetoed, w.veto, m.tripped)
      BY KeepShape
    <3> QED
      BY <2>2, <3>1, AnswerSound, Zenon
  <2>9. Answered(Answer(Released(now), tiered, FALSE, pct), stored, vetoed, w.veto)
    <3>1. Sound(tiered, stored, vetoed, w.veto, Released(now).tripped)
      BY <2>4, <2>5, <2>7, TieredShape
    <3> QED
      BY <2>2, <2>4, <3>1, AnswerSound, Zenon
  <2>10. ASSUME now.tripped
         PROVE  Answered(FlatReset(now, cs, balance, w), stored, vetoed, w.veto)
    BY <2>3, <2>10, FlatResetSound
  <2>11. \A t \in BOOLEAN :
            Answered(Answer(now, <<ToRow(now, "keep")>>, t, pct), stored, vetoed, w.veto)
    <3>1. Sound(<<ToRow(now, "keep")>>, stored, vetoed, w.veto, now.tripped)
      BY <2>3, KeepShape
    <3> QED
      BY <2>2, <2>3, <3>1, AnswerSound, Zenon
  <2>12. ASSUME ~now.tripped
         PROVE  Answered(Answer(Tripped(now), Trip(now, cs), TRUE, pct), stored, vetoed, w.veto)
    <3>1. PICK c \in Cooldowns : Trip(now, cs) = <<ToCooldown(c), ToRow(Tripped(now), "trip")>>
      BY <2>3, TrippedTypes
    <3>2. Tripped(now) \in Rows /\ Tripped(now).tripped
      BY <2>3, TrippedTypes
    <3>3. Sound(Trip(now, cs), stored, vetoed, w.veto, Tripped(now).tripped)
      BY <2>3, <2>12, <3>1, <3>2, TripShape
    <3> QED
      BY <2>2, <3>2, <3>3, AnswerSound, Zenon
  <2>13. Answered(cd, stored, vetoed, w.veto)
    BY <2>6, <2>8, <2>9, <2>10, <2>11, <2>12, Zenon
  <2> QED
    BY <2>13 DEF cd
<1> QED
  BY <1>1, <1>2

-----------------------------------------------------------------------------
(* Fields of the scan, the ladder and the history                           *)

Places == {"idle", "research", "checking", "switched", "executing", "done"}
Sizes == {"no", "full", "half"}

LEMMA ScanField ==
    ASSUME NEW s \in Scans
    PROVE  /\ \A p \in Places : LET n == [s EXCEPT !.at = p]
                                IN  n \in Scans /\ n.at = p /\ n.mem = s.mem
           /\ \A m \in Rows : LET n == [s EXCEPT !.mem = m]
                              IN  n \in Scans /\ n.at = s.at /\ n.mem = m
           /\ \A c \in Sizes : LET n == [s EXCEPT !.chosen = c]
                                 IN  n \in Scans /\ n.at = s.at /\ n.mem = s.mem
BY DEF Scans, Places, Sizes

LEMMA PlaceNames == /\ \A p \in {"idle", "research", "checking", "switched", "executing", "done"} :
                              p \in Places
                    /\ \A c \in {"no", "full", "half"} : c \in Sizes
BY DEF Places, Sizes

LEMMA ScanTypes ==
    ASSUME NEW s \in Scans
    PROVE  /\ \A m \in Rows : LET n == [s EXCEPT !.at = "checking", !.mem = m]
                              IN  n \in Scans /\ n.at = "checking" /\ n.mem = m
           /\ \A c \in Sizes : LET n == [s EXCEPT !.at = "research", !.chosen = c]
                                 IN  n \in Scans /\ n.at = "research" /\ n.mem = s.mem
           /\ \A p \in Places, c \in Sizes :
                 LET n == [s EXCEPT !.at = p, !.chosen = c] IN  n \in Scans /\ n.at = p
<1>0. "checking" \in Places /\ "research" \in Places
  BY PlaceNames
<1>1. ASSUME NEW p \in Places, NEW m \in Rows
      PROVE  LET n == [s EXCEPT !.at = p, !.mem = m] IN  n \in Scans /\ n.at = p /\ n.mem = m
  <2> DEFINE n == [s EXCEPT !.at = p]
  <2>1. n \in Scans /\ n.at = p
    BY ScanField, Zenon
  <2>2. LET k == [n EXCEPT !.mem = m] IN k \in Scans /\ k.at = n.at /\ k.mem = m
    <3> HIDE DEF n
    <3> QED
      BY <2>1, ScanField, Zenon
  <2> QED
    BY <2>1, <2>2, Zenon
<1>2. ASSUME NEW p \in Places, NEW c \in Sizes
      PROVE  LET n == [s EXCEPT !.at = p, !.chosen = c]
             IN  n \in Scans /\ n.at = p /\ n.mem = s.mem
  <2> DEFINE n == [s EXCEPT !.at = p]
  <2>1. n \in Scans /\ n.at = p /\ n.mem = s.mem
    BY ScanField, Zenon
  <2>2. LET k == [n EXCEPT !.chosen = c] IN k \in Scans /\ k.at = n.at /\ k.mem = n.mem
    <3> HIDE DEF n
    <3> QED
      BY <2>1, ScanField, Zenon
  <2> QED
    BY <2>1, <2>2, Zenon
<1> QED
  BY <1>0, <1>1, <1>2, Zenon

LEMMA FreshTypes == /\ \A b \in Nat : Untripped(b) \in Rows /\ ~Untripped(b).tripped
                    /\ FreshCooldown \in Cooldowns /\ FreshLadder \in LadderStates
                    /\ Idle \in Scans /\ Idle.at = "idle"
                    /\ NoHistory \in Histories /\ ~NoHistory.vetoed
                    /\ NoAnswer \in [tripped : BOOLEAN, pct : Int]
<1>1. \A b \in Nat : Untripped(b) \in Rows /\ ~Untripped(b).tripped
  BY MaxAgeType DEF Untripped, Rows
<1>2. FreshCooldown \in Cooldowns
  BY DurationsAssumption DEF FreshCooldown, Cooldowns, Armings
<1>3. FreshLadder \in LadderStates
  BY DEF FreshLadder, LadderStates, Normal, Critical
<1>4. Idle \in Scans /\ Idle.at = "idle"
  BY <1>1 DEF Idle, Scans
<1>5. NoHistory \in Histories /\ ~NoHistory.vetoed
  BY DurationsAssumption DEF NoHistory, Histories, FireWindow
<1>6. NoAnswer \in [tripped : BOOLEAN, pct : Int]
  BY DEF NoAnswer
<1> QED
  BY <1>1, <1>2, <1>3, <1>4, <1>5, <1>6

LEMMA LadderTypes ==
    ASSUME NEW st \in LadderStates
    PROVE  /\ \A pct \in Int : LadderAfter(st, pct) \in LadderStates
           /\ OlderLadder(st) \in LadderStates
<1>1. ASSUME NEW pct \in Int PROVE LadderAfter(st, pct) \in LadderStates
  <2>1. st.level \in 0 .. 4 /\ st.long \in BOOLEAN /\ st.escalated \in BOOLEAN
    <3>1. CASE st \in [stored : {FALSE}, level : {Normal}, long : {FALSE}, escalated : {FALSE}]
      <4>1. st.level \in {Normal} /\ st.long \in {FALSE} /\ st.escalated \in {FALSE}
        BY <3>1
      <4>2. st.long \in BOOLEAN /\ st.escalated \in BOOLEAN
        BY <4>1, Zenon
      <4> QED
        BY <4>1, <4>2 DEF Normal
    <3>2. CASE st \in [stored : {TRUE}, level : Normal .. Critical, long : BOOLEAN,
                       escalated : BOOLEAN]
      BY <3>2 DEF Normal, Critical
    <3> QED
      BY <3>1, <3>2 DEF LadderStates
  <2>2. LevelFor(pct) \in 0 .. 4
    BY DEF LevelFor, Normal, Mild, Moderate, Severe, Critical
  <2> DEFINE found == IF TimeEscalates(st, pct) THEN Severe ELSE LevelFor(pct)
             level == LevelOf(st, pct, FALSE)
             esc == TimeEscalates(st, pct)
  <2>3. found \in 0 .. 4
    BY <2>2 DEF Severe
  <2>4. Max({found, st.level}) \in 0 .. 4
    <3> HIDE DEF found
    <3> QED
      BY <2>1, <2>3, MaxOfTwo
  <2>5. level \in 0 .. 4
    BY <2>1, <2>3, <2>4, Zenon DEF LevelOf
  <2>6. esc \in BOOLEAN
    BY Zenon DEF TimeEscalates
  <2>7. \/ LadderAfter(st, pct) = [stored |-> TRUE, level |-> level, long |-> FALSE,
                                  escalated |-> esc]
        \/ LadderAfter(st, pct) = [st EXCEPT !.escalated = @ /\ level >= Moderate]
    BY Zenon DEF LadderAfter
  <2> HIDE DEF level, esc
  <2>8. [stored |-> TRUE, level |-> level, long |-> FALSE, escalated |-> esc] \in LadderStates
    BY <2>5, <2>6 DEF LadderStates, Normal, Critical
  <2>9. [st EXCEPT !.escalated = @ /\ level >= Moderate] \in LadderStates
    <3> DEFINE high == level >= Moderate
    <3>1. high = TRUE \/ high = FALSE
      OBVIOUS
    <3> HIDE DEF high
    <3>2. CASE st \in [stored : {FALSE}, level : {Normal}, long : {FALSE}, escalated : {FALSE}]
      <4>1. [st EXCEPT !.escalated = @ /\ high]
              \in [stored : {FALSE}, level : {Normal}, long : {FALSE}, escalated : {FALSE}]
        BY <3>1, <3>2
      <4> QED
        BY <4>1 DEF LadderStates, high
    <3>3. CASE st \in [stored : {TRUE}, level : Normal .. Critical, long : BOOLEAN,
                       escalated : BOOLEAN]
      <4>1. [st EXCEPT !.escalated = @ /\ high]
              \in [stored : {TRUE}, level : Normal .. Critical, long : BOOLEAN,
                   escalated : BOOLEAN]
        BY <3>1, <3>3
      <4> QED
        BY <4>1 DEF LadderStates, high
    <3> QED
      BY <3>2, <3>3 DEF LadderStates
  <2> QED
    BY <2>7, <2>8, <2>9
<1>2. OlderLadder(st) \in LadderStates
  <2>1. CASE st \in [stored : {FALSE}, level : {Normal}, long : {FALSE}, escalated : {FALSE}]
    BY <2>1 DEF OlderLadder, LadderStates
  <2>2. CASE st \in [stored : {TRUE}, level : Normal .. Critical, long : BOOLEAN,
                     escalated : BOOLEAN]
    BY <2>2 DEF OlderLadder, LadderStates
  <2> QED
    BY <2>1, <2>2 DEF LadderStates
<1> QED
  BY <1>1, <1>2

\* One field of the history at a time.
LEMMA HistoryField ==
    ASSUME NEW h \in Histories
    PROVE  /\ \A x \in 0 .. FireWindow : LET n == [h EXCEPT !.fired = x]
                                         IN  n \in Histories /\ n.vetoed = h.vetoed
           /\ \A x \in 1 .. Cap : LET n == [h EXCEPT !.owed = x]
                                  IN  n \in Histories /\ n.vetoed = h.vetoed
           /\ \A x \in 0 .. Chain : LET n == [h EXCEPT !.since = x]
                                    IN  n \in Histories /\ n.vetoed = h.vetoed
           /\ \A x \in BOOLEAN : LET n == [h EXCEPT !.vetoed = x]
                                 IN  n \in Histories /\ n.vetoed = x
           /\ \A x \in BOOLEAN : LET n == [h EXCEPT !.bare = x]
                                 IN  n \in Histories /\ n.vetoed = h.vetoed
           /\ \A x \in BOOLEAN : LET n == [h EXCEPT !.fresh = x]
                                 IN  n \in Histories /\ n.vetoed = h.vetoed
           /\ \A x \in BOOLEAN : LET n == [h EXCEPT !.misread = x]
                                 IN  n \in Histories /\ n.vetoed = h.vetoed
           /\ \A x \in BOOLEAN : LET n == [h EXCEPT !.crossed = x]
                                 IN  n \in Histories /\ n.vetoed = h.vetoed
BY DEF Histories

LEMMA FireWindowType == FireWindow \in Nat
BY DurationsAssumption DEF FireWindow

LEMMA HistoryFlags ==
    ASSUME NEW h \in Histories, NEW x \in BOOLEAN
    PROVE  /\ LET n == [h EXCEPT !.misread = @ \/ x]
              IN  n \in Histories /\ n.vetoed = h.vetoed
           /\ LET n == [h EXCEPT !.vetoed = @ \/ x]
              IN  n \in Histories /\ n.vetoed = (h.vetoed \/ x)
           /\ LET n == ScanOver(h) IN  n \in Histories /\ n.vetoed = h.vetoed
<1>1. h.misread \in BOOLEAN /\ h.vetoed \in BOOLEAN
  BY DEF Histories
<1>2. (h.misread \/ x) \in BOOLEAN /\ (h.vetoed \/ x) \in BOOLEAN
  BY <1>1, Zenon
<1>3. LET n == [h EXCEPT !.misread = @ \/ x] IN n \in Histories /\ n.vetoed = h.vetoed
  BY <1>2, HistoryField, Zenon
<1>4. LET n == [h EXCEPT !.vetoed = @ \/ x] IN n \in Histories /\ n.vetoed = (h.vetoed \/ x)
  <2> DEFINE v == h.vetoed \/ x
             n == [h EXCEPT !.vetoed = v]
  <2>1. v \in BOOLEAN
    BY <1>2
  <2>2. n \in Histories /\ n.vetoed = v
    <3> HIDE DEF v
    <3> QED
      BY <2>1, HistoryField
  <2> QED
    BY <2>2, Zenon
<1>5. LET n == ScanOver(h) IN n \in Histories /\ n.vetoed = h.vetoed
  <2> DEFINE n1 == [h EXCEPT !.fresh = FALSE]
             n2 == [n1 EXCEPT !.misread = FALSE]
             n3 == [n2 EXCEPT !.crossed = FALSE]
  <2>1. n1 \in Histories /\ n1.vetoed = h.vetoed
    BY HistoryField, Zenon
  <2>2. n2 \in Histories /\ n2.vetoed = n1.vetoed
    <3> HIDE DEF n1
    <3> QED
      BY <2>1, HistoryField, Zenon
  <2>3. n3 \in Histories /\ n3.vetoed = n2.vetoed
    <3> HIDE DEF n2
    <3> QED
      BY <2>2, HistoryField, Zenon
  <2>4. ScanOver(h) = n3
    BY Zenon DEF ScanOver
  <2> HIDE DEF n1, n2, n3
  <2> QED
    BY <2>1, <2>2, <2>3, <2>4
<1> QED
  BY <1>3, <1>4, <1>5, Zenon

\* What the write of a row does to the history: a trip given up, or a new one,
\* is not vetoed.
LEMMA HistoryOfWrite ==
    ASSUME hist \in Histories, row.tripped \in BOOLEAN, NEW w, WriteRow(w)
    PROVE  /\ hist' \in Histories
           /\ hist'.vetoed = IF \/ w.why = "trip" /\ ~row.tripped
                                \/ w.why \in {"tiered", "fire"} /\ row.tripped
                             THEN FALSE ELSE hist.vetoed
<1> DEFINE owed == IF hist.since < Chain /\ ~hist.crossed THEN Min({2 * hist.owed, Cap}) ELSE 1
           trip1 == [hist EXCEPT !.owed = owed]
           trip2 == [trip1 EXCEPT !.vetoed = FALSE]
           trip == [trip2 EXCEPT !.fresh = TRUE]
           past == [hist EXCEPT !.since = 0]
           tiered == [past EXCEPT !.vetoed = FALSE]
           fire1 == [past EXCEPT !.fired = 0]
           fire2 == [fire1 EXCEPT !.bare = FALSE]
           fire == [fire2 EXCEPT !.vetoed = FALSE]
<1>1. \/ w.why = "trip" /\ ~row.tripped /\ hist' = trip
      \/ w.why = "tiered" /\ row.tripped /\ hist' = tiered
      \/ w.why = "fire" /\ row.tripped /\ hist' = fire
      \/ /\ hist' = hist
         /\ ~(w.why = "trip" /\ ~row.tripped)
         /\ ~(w.why = "tiered" /\ row.tripped) /\ ~(w.why = "fire" /\ row.tripped)
  BY Zenon DEF WriteRow
<1>2. owed \in 1 .. Cap
  BY CapType, CooldownValues DEF Histories
<1>3. trip \in Histories /\ ~trip.vetoed
  <2> HIDE DEF owed
  <2>1. trip1 \in Histories
    BY <1>2, HistoryField, Zenon
  <2>2. trip2 \in Histories /\ ~trip2.vetoed
    <3> HIDE DEF trip1
    <3> QED
      BY <2>1, HistoryField, Zenon
  <2> HIDE DEF trip2
  <2> QED
    BY <2>2, HistoryField, Zenon
<1>4. past \in Histories
  BY HistoryField, CooldownValues, Zenon
<1>5. tiered \in Histories /\ ~tiered.vetoed
  <2> HIDE DEF past
  <2> QED
    BY <1>4, HistoryField, Zenon
<1>6. fire \in Histories /\ ~fire.vetoed
  <2>1. fire1 \in Histories
    <3>1. 0 \in 0 .. FireWindow
      BY FireWindowType
    <3> HIDE DEF past
    <3> QED
      BY <1>4, <3>1, HistoryField, Zenon
  <2>2. fire2 \in Histories
    <3> HIDE DEF fire1
    <3> QED
      BY <2>1, HistoryField, Zenon
  <2> HIDE DEF fire2
  <2> QED
    BY <2>2, HistoryField, Zenon
<1> HIDE DEF trip, tiered, fire
<1>7. hist.vetoed \in BOOLEAN /\ trip.vetoed \in BOOLEAN /\ tiered.vetoed \in BOOLEAN
      /\ fire.vetoed \in BOOLEAN
  BY <1>3, <1>5, <1>6 DEF Histories
<1> QED
  BY <1>1, <1>3, <1>5, <1>6, <1>7

LEMMA HistoryOfDay ==
    ASSUME hist \in Histories, Day
    PROVE  hist' \in Histories /\ hist'.vetoed = hist.vetoed
<1> DEFINE fired == Min({hist.fired + 1, FireWindow})
           since == Min({hist.since + 1, Chain})
           bare == hist.bare /\ hist.fired + 1 < RampDays
           h1 == [hist EXCEPT !.fired = fired]
           h2 == [h1 EXCEPT !.since = since]
           h3 == [h2 EXCEPT !.bare = bare]
<1>1. fired \in 0 .. FireWindow /\ since \in 0 .. Chain
  BY WindowType, FireWindowType, DurationsAssumption DEF Histories
<1>2. bare \in BOOLEAN
  <2>1. hist.bare \in BOOLEAN
    BY DEF Histories
  <2> QED
    BY <2>1, Zenon
<1>3. hist' = h3
  BY Zenon DEF Day
<1> HIDE DEF fired, since, bare
<1>4. h1 \in Histories /\ h1.vetoed = hist.vetoed
  BY <1>1, HistoryField, Zenon
<1>5. h2 \in Histories /\ h2.vetoed = h1.vetoed
  <2> HIDE DEF h1
  <2> QED
    BY <1>1, <1>4, HistoryField, Zenon
<1>6. h3 \in Histories /\ h3.vetoed = h2.vetoed
  <2> HIDE DEF h2
  <2> QED
    BY <1>2, <1>5, HistoryField, Zenon
<1> QED
  BY <1>3, <1>4, <1>5, <1>6, Zenon

LEMMA HistoryOfReset ==
    ASSUME hist \in Histories, Reset
    PROVE  hist' \in Histories /\ ~hist'.vetoed
<1> DEFINE crossed == ~At("idle")
           since == IF todo = <<>> THEN 0 ELSE Chain
           h1 == [hist EXCEPT !.fired = FireWindow]
           h2 == [h1 EXCEPT !.owed = 1]
           h3 == [h2 EXCEPT !.since = since]
           h4 == [h3 EXCEPT !.vetoed = FALSE]
           h5 == [h4 EXCEPT !.bare = FALSE]
           h6 == [h5 EXCEPT !.crossed = crossed]
<1>1. hist' = h6
  BY Zenon DEF Reset
<1>2. crossed \in BOOLEAN
  BY Zenon
<1>2a. since \in 0 .. Chain
  BY DurationsAssumption
<1> HIDE DEF crossed, since
<1>3. h1 \in Histories
  <2>1. FireWindow \in 0 .. FireWindow
    BY FireWindowType
  <2> QED
    BY <2>1, HistoryField, Zenon
<1>4. h2 \in Histories
  <2> HIDE DEF h1
  <2> QED
    BY <1>3, HistoryField, CooldownValues, Zenon
<1>5. h3 \in Histories
  <2> HIDE DEF h2
  <2> QED
    BY <1>4, <1>2a, HistoryField, Zenon
<1>6. h4 \in Histories /\ ~h4.vetoed
  <2> HIDE DEF h3
  <2> QED
    BY <1>5, HistoryField, Zenon
<1>7. h5 \in Histories /\ ~h5.vetoed
  <2> HIDE DEF h4
  <2> QED
    BY <1>6, HistoryField, Zenon
<1>8. h6 \in Histories /\ ~h6.vetoed
  <2> HIDE DEF h5
  <2> QED
    BY <1>2, <1>7, HistoryField
<1> QED
  BY <1>1, <1>8, Zenon

LEMMA HistoryOfDeath ==
    ASSUME hist \in Histories, Die
    PROVE  /\ hist' \in Histories
           /\ hist'.vetoed = (hist.vetoed /\ (veto \/ cst.disabled))
<1> DEFINE over == ScanOver(hist)
           kept == over.vetoed /\ (veto \/ cst.disabled)
           bare == over.bare \/ todo = <<ToRamp>> \/ todo = <<ToRamp, ToRow(scan.mem, "keep")>>
           h1 == [over EXCEPT !.vetoed = kept]
           h2 == [h1 EXCEPT !.bare = bare]
<1>1. over \in Histories /\ over.vetoed = hist.vetoed
  BY HistoryFlags, Zenon
<1>2. hist' = h2
  BY Zenon DEF Die
<1> HIDE DEF over
<1>3. over.vetoed \in BOOLEAN /\ over.bare \in BOOLEAN
  BY <1>1 DEF Histories
<1>4. kept \in BOOLEAN /\ bare \in BOOLEAN
  BY <1>3, Zenon
<1>5. h1 \in Histories /\ h1.vetoed = kept
  <2> HIDE DEF kept, bare
  <2> QED
    BY <1>1, <1>4, HistoryField
<1>6. h2 \in Histories /\ h2.vetoed = h1.vetoed
  <2> HIDE DEF h1, bare
  <2> QED
    BY <1>4, <1>5, HistoryField, Zenon
<1>7. kept = (hist.vetoed /\ (veto \/ cst.disabled))
  BY <1>1
<1> HIDE DEF kept, h1, h2
<1> QED
  BY <1>2, <1>5, <1>6, <1>7

-----------------------------------------------------------------------------
(* Type correctness                                                         *)

LEMMA ReadingTypes ==
    ASSUME TypeOK, NEW r \in Readings
    PROVE  /\ r.balance \in Nat \ {0} /\ r.flat \in BOOLEAN /\ r.wrong \in BOOLEAN
           /\ r.wrong => troubles < MaxTroubles
<1>1. equity \in Nat \ {0, 1} /\ held \in BOOLEAN
  BY BoundsAssumption DEF TypeOK
<1> DEFINE free == ~held
<1>2. \/ r = [balance |-> equity, flat |-> free, wrong |-> FALSE]
      \/ r = [balance |-> 6 * equity, flat |-> free, wrong |-> TRUE] /\ troubles < MaxTroubles
      \/ r = [balance |-> equity \div 2, flat |-> TRUE, wrong |-> TRUE] /\ troubles < MaxTroubles
  BY Zenon DEF Readings
<1>3. 6 * equity \in Nat \ {0} /\ equity \div 2 \in Nat \ {0} /\ equity \in Nat \ {0}
  BY <1>1
<1>4. free \in BOOLEAN
  BY Zenon
<1> HIDE DEF free
<1>5. CASE r = [balance |-> equity, flat |-> free, wrong |-> FALSE]
  BY <1>3, <1>4, <1>5
<1>6. CASE /\ r = [balance |-> 6 * equity, flat |-> free, wrong |-> TRUE]
           /\ troubles < MaxTroubles
  BY <1>3, <1>4, <1>6
<1>7. CASE /\ r = [balance |-> equity \div 2, flat |-> TRUE, wrong |-> TRUE]
           /\ troubles < MaxTroubles
  BY <1>3, <1>4, <1>7
<1> QED
  BY <1>2, <1>5, <1>6, <1>7

LEMMA NoteTypes ==
    ASSUME TypeOK, NEW r \in Readings, Note(r)
    PROVE  /\ troubles' \in 0 .. MaxTroubles
           /\ hist' \in Histories /\ hist'.vetoed = hist.vetoed
<1>1. r.wrong \in BOOLEAN /\ (r.wrong => troubles < MaxTroubles)
  BY ReadingTypes
<1>2. hist \in Histories /\ hist' = [hist EXCEPT !.misread = @ \/ r.wrong]
  BY DEF TypeOK, Note
<1>3. hist' \in Histories /\ hist'.vetoed = hist.vetoed
  BY <1>1, <1>2, HistoryFlags, Zenon
<1>4. troubles' \in 0 .. MaxTroubles
  BY <1>1, BoundsAssumption DEF TypeOK, Note
<1> QED
  BY <1>3, <1>4

LEMMA WriteOf ==
    ASSUME NEW w \in Writes
    PROVE  /\ w.to = "row" => w.val \in Rows
           /\ w.to = "cst" => w.val \in Cooldowns
BY DEF Writes

\* The initial state is well typed.
THEOREM InitTypeOK == Init => TypeOK
<1>1. Untripped(0) \in Rows
  BY FreshTypes
<1>2. <<>> \in Seq(Writes) /\ 0 \in 0 .. RampDays /\ 0 \in 0 .. MaxTroubles
  BY BoundsAssumption
<1> QED
  BY <1>1, <1>2, FreshTypes, Zenon DEF Init, TypeOK

\* Every step keeps the state well typed.
THEOREM NextTypeOK == TypeOK /\ [Next]_vars => TypeOK'
<1> SUFFICES ASSUME TypeOK, [Next]_vars PROVE TypeOK'
  OBVIOUS
<1>0. /\ equity \in Equities /\ held \in BOOLEAN
      /\ row \in Rows /\ cst \in Cooldowns /\ veto \in BOOLEAN /\ ramp \in 0 .. RampDays
      /\ ladder \in LadderStates /\ scan \in Scans
      /\ answer \in [tripped : BOOLEAN, pct : Int] /\ todo \in Seq(Writes)
      /\ troubles \in 0 .. MaxTroubles /\ hist \in Histories
      /\ equity \in Nat /\ answer.pct \in Int /\ scan.chosen \in Sizes /\ row.dd \in Int
  BY BoundsAssumption DEF TypeOK, Scans, Sizes, Rows
<1>1. CASE StartScan
  <2>1. scan' \in Scans
    BY <1>0, <1>1 DEF StartScan, Scans
  <2> QED
    BY <1>1, <2>1 DEF StartScan, TypeOK, world, store
<1>2. CASE PreCheck
  <2>1. PICK r \in Readings, gates \in GateReports :
           LET w == [veto |-> veto, gates |-> gates]
               c == CheckDrawdown(scan.mem, cst, r.balance, r.flat, w)
           IN  /\ scan' = [scan EXCEPT !.at = "checking", !.mem = c.mem]
               /\ answer' = [tripped |-> c.tripped, pct |-> c.pct]
               /\ todo' = c.writes
               /\ Note(r)
    BY <1>2, Zenon DEF PreCheck
  <2> DEFINE w == [veto |-> veto, gates |-> gates]
             c == CheckDrawdown(scan.mem, cst, r.balance, r.flat, w)
  <2>2. w \in Worlds /\ scan.mem \in Rows
    BY <1>0 DEF Worlds, Scans
  <2>3. Answered(c, FALSE, FALSE, w.veto)
    BY <1>0, <2>2, CheckSound, ReadingTypes
  <2> HIDE DEF c
  <2>4. scan' \in Scans
    BY <1>0, <2>1, <2>3, ScanTypes, Zenon DEF Answered, c
  <2>5. answer' \in [tripped : BOOLEAN, pct : Int] /\ todo' \in Seq(Writes)
    BY <2>1, <2>3 DEF Answered, Sound, c
  <2>6. troubles' \in 0 .. MaxTroubles /\ hist' \in Histories
    BY <2>1, NoteTypes
  <2> QED
    BY <1>2, <2>4, <2>5, <2>6 DEF PreCheck, TypeOK, world, store
<1>3. CASE PreCheckFails
  <2>1. scan' \in Scans /\ hist' \in Histories
    <3>1. scan' = [scan EXCEPT !.at = "checking"] /\ hist' = [hist EXCEPT !.misread = TRUE]
      BY <1>3 DEF PreCheckFails, Go
    <3> QED
      BY <1>0, <3>1, ScanField, PlaceNames, HistoryField, Zenon
  <2>2. troubles' \in 0 .. MaxTroubles /\ answer' \in [tripped : BOOLEAN, pct : Int]
    BY <1>0, <1>3, BoundsAssumption DEF PreCheckFails
  <2> QED
    BY <1>3, <2>1, <2>2 DEF PreCheckFails, TypeOK, world, store
<1>4. CASE Judge
  <2>1. ladder' \in LadderStates
    BY <1>0, <1>4, LadderTypes DEF Judge
  <2>2. scan' \in Scans
    <3>1. \/ scan' = [scan EXCEPT !.at = "research", !.chosen = IF ramp > 0 THEN "half" ELSE "full"]
          \/ scan' = [scan EXCEPT !.at = "research"]
      BY <1>4, Zenon DEF Judge, Go
    <3> DEFINE size == IF ramp > 0 THEN "half" ELSE "full"
    <3>2. size \in Sizes
      BY DEF Sizes
    <3> HIDE DEF size
    <3>3. CASE scan' = [scan EXCEPT !.at = "research", !.chosen = size]
      BY <1>0, <3>2, <3>3, ScanTypes, Zenon
    <3>4. CASE scan' = [scan EXCEPT !.at = "research"]
      BY <1>0, <3>4, ScanField, PlaceNames, Zenon
    <3> QED
      BY <3>1, <3>3, <3>4 DEF size
  <2> QED
    BY <1>4, <2>1, <2>2, FreshTypes DEF Judge, TypeOK, world, store
<1>5. CASE Switch
  <2>1. scan' \in Scans
    <3>1. scan' = [Idle EXCEPT !.at = "switched", !.chosen = scan.chosen]
      BY <1>5 DEF Switch
    <3> QED
      BY <1>0, <3>1, FreshTypes, ScanTypes, PlaceNames, Zenon
  <2>2. held' \in BOOLEAN
    BY <1>5, Zenon DEF Switch
  <2> QED
    BY <1>5, <2>1, <2>2 DEF Switch, TypeOK, store
<1>6. CASE ExecCheck
  <2>1. PICK r \in Readings :
           LET w == [veto |-> veto, gates |-> "unreadable"]
               c == CheckDrawdown(row, cst, r.balance, FALSE, w)
           IN  /\ answer' = [tripped |-> c.tripped, pct |-> c.pct]
               /\ todo' = c.writes
               /\ Note(r)
    BY <1>6, Zenon DEF ExecCheck
  <2> DEFINE w == [veto |-> veto, gates |-> "unreadable"]
             c == CheckDrawdown(row, cst, r.balance, FALSE, w)
  <2>2. w \in Worlds
    BY <1>0 DEF Worlds, GateReports
  <2>3. Answered(c, FALSE, FALSE, w.veto)
    BY <1>0, <2>2, CheckSound, ReadingTypes
  <2> HIDE DEF c
  <2>4. scan' \in Scans
    <3>1. scan' = [Idle EXCEPT !.at = "executing", !.chosen = scan.chosen]
      BY <1>6 DEF ExecCheck
    <3> QED
      BY <1>0, <3>1, FreshTypes, ScanTypes, PlaceNames, Zenon
  <2>5. answer' \in [tripped : BOOLEAN, pct : Int] /\ todo' \in Seq(Writes)
    BY <2>1, <2>3 DEF Answered, Sound, c
  <2>6. troubles' \in 0 .. MaxTroubles /\ hist' \in Histories
    BY <2>1, NoteTypes
  <2> QED
    BY <1>6, <2>4, <2>5, <2>6 DEF ExecCheck, TypeOK, world, store
<1>7. CASE Enter \/ Refuse
  <2>1. ladder' \in LadderStates
    <3>1. ladder' = LadderAfter(ladder, answer.pct)
      BY <1>7, Zenon DEF Enter, Refuse
    <3>2. ladder \in LadderStates /\ answer.pct \in Int
      BY DEF TypeOK
    <3> QED
      BY <3>1, <3>2, LadderTypes
  <2>2. scan' \in Scans
    <3>1. scan' = [Idle EXCEPT !.at = "done"]
      BY <1>7 DEF Enter, Refuse
    <3> QED
      BY <3>1, FreshTypes, ScanField, PlaceNames, Zenon
  <2> QED
    BY <1>7, <2>1, <2>2, FreshTypes DEF Enter, Refuse, TypeOK, world, store
<1>8. CASE EndScan
  <2>1. hist' \in Histories
    BY <1>0, <1>8, HistoryFlags, Zenon DEF EndScan
  <2> QED
    BY <1>8, <2>1, FreshTypes DEF EndScan, TypeOK, world, store
<1>9. CASE Write
  <2> DEFINE w == Head(todo)
  <2>1. w \in Writes /\ todo' \in Seq(Writes)
    BY <1>0, <1>9 DEF Write
  <2>2. WriteRow(w) \/ WriteCooldown(w) \/ SetRamp(w) \/ ConsumeVeto(w)
    BY <1>9 DEF Write
  <2>3. CASE WriteRow(w)
    <3>1. hist' \in Histories
      BY <1>0, <2>3, HistoryOfWrite DEF Rows
    <3>2. row' \in Rows
      BY <2>1, <2>3, WriteOf DEF WriteRow
    <3> QED
      BY <1>9, <2>1, <2>3, <3>1, <3>2 DEF Write, WriteRow, TypeOK, world
  <2>4. CASE WriteCooldown(w)
    <3>1. cst' \in Cooldowns
      BY <2>1, <2>4, WriteOf DEF WriteCooldown
    <3> QED
      BY <1>9, <2>1, <2>4, <3>1 DEF Write, WriteCooldown, TypeOK, world
  <2>5. CASE SetRamp(w)
    BY <1>9, <2>1, <2>5, BoundsAssumption DEF Write, SetRamp, TypeOK, world
  <2>6. CASE ConsumeVeto(w)
    BY <1>9, <2>1, <2>6 DEF Write, ConsumeVeto, TypeOK, world
  <2> QED
    BY <2>2, <2>3, <2>4, <2>5, <2>6
<1>10. CASE Market
  BY <1>10 DEF Market, TypeOK, store
<1>11. CASE SellOut
  BY <1>11 DEF SellOut, TypeOK, store
<1>12. CASE TwoHours
  <2>1. ladder' \in LadderStates
    BY <1>0, <1>12, LadderTypes DEF TwoHours
  <2>2. cst' \in Cooldowns
    <3> DEFINE armed == IF cst.armed = "window" THEN "due" ELSE cst.armed
    <3>1. armed \in Armings
      BY <1>0 DEF Cooldowns, Armings
    <3>2. cst' = [cst EXCEPT !.armed = armed]
      BY <1>12, Zenon DEF TwoHours
    <3> HIDE DEF armed
    <3> QED
      BY <1>0, <3>1, <3>2, CooldownField, Zenon
  <2> QED
    BY <1>12, <2>1, <2>2 DEF TwoHours, TypeOK, world
<1>13. CASE Day
  <2>1. hist' \in Histories
    BY <1>0, <1>13, HistoryOfDay
  <2>2. row' \in Rows /\ cst' \in Cooldowns /\ ladder' \in LadderStates
    BY <1>0, <1>13, RowTypes, OlderCooldownType, LadderTypes DEF Day
  <2>3. ramp' \in 0 .. RampDays
    <3>1. ramp' = Max({ramp - 1, 0})
      BY <1>13 DEF Day
    <3> QED
      BY <1>0, <3>1, MaxOfTwo, BoundsAssumption
  <2> QED
    BY <1>13, <2>1, <2>2, <2>3 DEF Day, TypeOK
<1>14. CASE Reset
  <2>1. hist' \in Histories
    BY <1>0, <1>14, HistoryOfReset
  <2>2. row' \in Rows /\ cst' \in Cooldowns
    BY <1>0, <1>14, FreshTypes, CooldownTypes DEF Reset
  <2>3. troubles' \in 0 .. MaxTroubles /\ ramp' \in 0 .. RampDays
    BY <1>0, <1>14, BoundsAssumption DEF Reset
  <2> QED
    BY <1>14, <2>1, <2>2, <2>3 DEF Reset, TypeOK, world
<1>15. CASE Veto
  <2>1. hist' \in Histories
    <3> DEFINE idle == todo = <<>>
    <3>1. idle \in BOOLEAN
      BY Zenon
    <3>2. hist' = [hist EXCEPT !.vetoed = @ \/ idle]
      BY <1>15, Zenon DEF Veto
    <3> HIDE DEF idle
    <3> QED
      BY <1>0, <3>1, <3>2, HistoryFlags, Zenon
  <2> QED
    BY <1>15, <2>1 DEF Veto, TypeOK, world
<1>16. CASE Die
  <2>1. hist' \in Histories
    BY <1>0, <1>16, HistoryOfDeath
  <2>2. troubles' \in 0 .. MaxTroubles /\ todo' \in Seq(Writes)
    BY <1>0, <1>16, BoundsAssumption DEF Die
  <2> QED
    BY <1>16, <2>1, <2>2, FreshTypes DEF Die, TypeOK, world, store
<1>17. CASE UNCHANGED vars
  BY <1>17 DEF vars, world, store, TypeOK
<1> QED
  BY <1>1, <1>2, <1>3, <1>4, <1>5, <1>6, <1>7, <1>8, <1>9, <1>10, <1>11, <1>12, <1>13,
     <1>14, <1>15, <1>16, <1>17 DEF Next

\* Every state is well typed: no cooldown is longer than its cap allows, no ARM
\* is of a kind the code does not know, and no write is anything but one of a
\* row, a cooldown state, a ramp or a veto.
THEOREM TypeCorrect == Spec => []TypeOK
BY InitTypeOK, NextTypeOK, PTL DEF Spec

-----------------------------------------------------------------------------
(* The veto                                                                 *)

\* What is known of the writes stays true when less is asked of them.
LEMMA Weaker ==
    ASSUME NEW t, NEW stored, NEW vetoed, NEW kept, NEW mem, Shaped(t, stored, vetoed, kept, mem)
    PROVE  /\ Shaped(t, stored, vetoed, kept, TRUE)
           /\ Shaped(t, stored, vetoed, TRUE, mem)
           /\ Shaped(t, FALSE, FALSE, kept, mem)
BY Zenon DEF Shaped

LEMMA ShapedNotEmpty ==
    ASSUME NEW stored, NEW vetoed, NEW kept, NEW mem
    PROVE  ~Shaped(<<>>, stored, vetoed, kept, mem)
BY DEF Shaped

LEMMA TailFacts ==
    ASSUME NEW t \in Seq(Writes), t # <<>>
    PROVE  /\ Head(t) = t[1] /\ Head(t) \in Writes
           /\ Len(Tail(t)) = Len(t) - 1
           /\ Len(t) > 1 => Tail(t)[1] = t[2]
           /\ Len(t) > 2 => Tail(t)[2] = t[3]
           /\ Len(t) > 3 => Tail(t)[3] = t[4]
           /\ Len(t) = 1 => Tail(t) = <<>>
           /\ Len(t) > 1 => Tail(t) # <<>>
<1> DEFINE u == Tail(t)
<1>1. Head(t) = t[1] /\ Head(t) \in Writes /\ u \in Seq(Writes) /\ Len(u) = Len(t) - 1
  OBVIOUS
<1>2. \A i \in 1 .. Len(u) : u[i] = t[i + 1]
  OBVIOUS
<1> HIDE DEF u
<1>3. Len(t) \in Nat /\ Len(u) \in Nat /\ (Len(u) = 0 <=> u = <<>>)
  BY <1>1, EmptySeq
<1>4. /\ Len(t) > 1 => u[1] = t[2]
      /\ Len(t) > 2 => u[2] = t[3]
      /\ Len(t) > 3 => u[3] = t[4]
  <2>1. \A i \in 1 .. 3 : Len(t) > i => u[i] = t[i + 1]
    BY <1>1, <1>2, <1>3
  <2> QED
    BY <2>1
<1>5. (Len(t) = 1 => u = <<>>) /\ (Len(t) > 1 => u # <<>>)
  BY <1>1, <1>3
<1> QED
  BY <1>1, <1>4, <1>5 DEF u

\* The first write decides which shape is left.
LEMMA RowFirst ==
    ASSUME NEW t \in Seq(Writes), t # <<>>, NEW stored, NEW vetoed, NEW kept, NEW mem,
           Shaped(t, stored, vetoed, kept, mem), Head(t).to = "row"
    PROVE  LET w == Head(t)
               u == Tail(t)
           IN  \/ /\ w.why = "keep" /\ u = <<>>
                  /\ stored => w.val.tripped
                  /\ w.val.tripped => mem
               \/ /\ w.why = "keep"
                  /\ stored => w.val.tripped
                  /\ \A now : Shaped(u, now, vetoed, kept, mem)
               \/ /\ w.why \in {"tiered", "fire"} /\ ~w.val.tripped
                  /\ \/ u = <<>>
                     \/ Shaped(u, FALSE, FALSE, kept, mem)
               \/ /\ w.why = "trip" /\ u = <<>> /\ ~stored /\ mem
<1> DEFINE w == Head(t)
           u == Tail(t)
<1>0. /\ w = t[1] /\ Len(u) = Len(t) - 1
      /\ Len(t) > 1 => u[1] = t[2]
      /\ Len(t) > 2 => u[2] = t[3]
      /\ Len(t) = 1 => u = <<>>
  BY TailFacts
<1> HIDE DEF w, u
<1>1. w.to = "row"
  BY DEF w
<1>2. CASE w.why = "keep"
  <2>1. \/ Len(t) = 1 /\ (stored => w.val.tripped) /\ (w.val.tripped => mem)
        \/ /\ Len(t) = 3 /\ IsCst(t[2]) /\ IsRow(t[3], "tiered")
           /\ stored => w.val.tripped
           /\ ~t[3].val.tripped
           /\ vetoed => kept \/ t[2].val.disabled
    BY <1>0, <1>1, <1>2 DEF Shaped, IsRow, IsCst
  <2>2. CASE Len(t) = 1
    BY <1>0, <1>2, <2>1, <2>2 DEF w, u
  <2>3. CASE Len(t) = 3
    <3>1. \A now : Shaped(u, now, vetoed, kept, mem)
      BY <1>0, <2>1, <2>3 DEF Shaped
    <3> QED
      BY <1>2, <2>1, <2>3, <3>1, Zenon DEF w, u
  <2> QED
    BY <2>1, <2>2, <2>3
<1>3. CASE w.why = "tiered"
  <2>1. /\ ~w.val.tripped
        /\ \/ Len(t) = 1
           \/ Len(t) = 2 /\ IsRow(t[2], "keep") /\ ~t[2].val.tripped
    BY <1>0, <1>1, <1>3 DEF Shaped, IsRow, IsCst
  <2>2. u = <<>> \/ Shaped(u, FALSE, FALSE, kept, mem)
    BY <1>0, <2>1 DEF Shaped
  <2> QED
    BY <1>3, <2>1, <2>2 DEF w, u
<1>4. CASE w.why = "fire"
  <2>1. /\ ~w.val.tripped
        /\ Len(t) = 3 /\ t[2].to = "ramp" /\ IsRow(t[3], "keep") /\ ~t[3].val.tripped
    BY <1>0, <1>1, <1>4 DEF Shaped, IsRow, IsCst
  <2>2. Shaped(u, FALSE, FALSE, kept, mem)
    BY <1>0, <2>1 DEF Shaped
  <2> QED
    BY <1>4, <2>1, <2>2 DEF w, u
<1>5. CASE w.why \notin {"keep", "tiered", "fire"}
  <2>1. w.why = "trip" /\ Len(t) = 1 /\ ~stored /\ mem
    BY <1>0, <1>1, <1>5 DEF Shaped, IsRow, IsCst
  <2> QED
    BY <1>0, <2>1 DEF w, u
<1> QED
  BY <1>2, <1>3, <1>4, <1>5

LEMMA CooldownFirst ==
    ASSUME NEW t \in Seq(Writes), t # <<>>, NEW stored, NEW vetoed, NEW kept, NEW mem,
           Shaped(t, stored, vetoed, kept, mem), Head(t).to = "cst", vetoed => stored
    PROVE  /\ Tail(t) # <<>> /\ Shaped(Tail(t), stored, vetoed, kept, mem)
           /\ vetoed => kept \/ Head(t).val.disabled
BY TailFacts DEF Shaped, IsRow, IsCst

LEMMA RampFirst ==
    ASSUME NEW t \in Seq(Writes), t # <<>>, NEW stored, NEW vetoed, NEW kept, NEW mem,
           Shaped(t, stored, vetoed, kept, mem), Head(t).to = "ramp"
    PROVE  Tail(t) # <<>> /\ Shaped(Tail(t), stored, vetoed, kept, mem)
BY TailFacts DEF Shaped, IsRow, IsCst

LEMMA VetoFirst ==
    ASSUME NEW t \in Seq(Writes), t # <<>>, NEW stored, NEW vetoed, NEW kept, NEW mem,
           Shaped(t, stored, vetoed, kept, mem), Head(t).to = "veto"
    PROVE  LET u == Tail(t)
           IN  /\ u # <<>> /\ Shaped(u, stored, vetoed, FALSE, mem)
               /\ Len(u) = 2 /\ IsCst(u[1]) /\ IsRow(u[2], "keep") /\ u[1].val.disabled
BY TailFacts DEF Shaped, IsRow, IsCst

\* What a check leaves to be written in a state that satisfies the invariant.
LEMMA CheckShaped ==
    ASSUME TypeOK, VetoInv, todo = <<>>, NEW m \in Rows, row.tripped => m.tripped,
           NEW balance \in Nat \ {0}, NEW flat \in BOOLEAN, NEW gates \in GateReports
    PROVE  LET c == CheckDrawdown(m, cst, balance, flat, [veto |-> veto, gates |-> gates])
           IN  /\ c.mem \in Rows /\ c.writes # <<>>
               /\ Shaped(c.writes, row.tripped, hist.vetoed, veto, c.mem.tripped)
<1> DEFINE w == [veto |-> veto, gates |-> gates]
           c == CheckDrawdown(m, cst, balance, flat, w)
<1>1. w \in Worlds /\ w.veto = veto /\ cst \in Cooldowns
  BY DEF Worlds, TypeOK
<1>2. Len(todo) = 0
  OBVIOUS
<1>3. (hist.vetoed => row.tripped) /\ (hist.vetoed => veto \/ cst.disabled)
  BY <1>2 DEF VetoInv
<1> HIDE DEF w
<1>4. Answered(c, row.tripped, hist.vetoed, w.veto)
  BY <1>1, <1>3, CheckSound
<1> HIDE DEF c
<1>5. c.mem \in Rows /\ Shaped(c.writes, row.tripped, hist.vetoed, veto, c.mem.tripped)
  BY <1>1, <1>4 DEF Answered, Sound
<1>6. c.writes # <<>>
  BY <1>5, ShapedNotEmpty
<1> QED
  BY <1>5, <1>6 DEF c, w

\* At the start no veto is given and no write is outstanding.
THEOREM InitVetoInv == Init => VetoInv
BY FreshTypes DEF Init, VetoInv

\* The first write of an outstanding list is done.
LEMMA WriteVetoInv ==
    ASSUME TypeOK, VetoInv, Write
    PROVE  VetoInv'
<1> DEFINE w == Head(todo)
           u == Tail(todo)
           mem == (scan.at = "checking" => scan.mem.tripped)
<1>1. /\ todo # <<>> /\ todo \in Seq(Writes) /\ todo' = u /\ scan' = scan
      /\ WriteRow(w) \/ WriteCooldown(w) \/ SetRamp(w) \/ ConsumeVeto(w)
      /\ row \in Rows /\ hist \in Histories
  BY DEF Write, TypeOK
<1>2. /\ scan.at \in {"checking", "executing"}
      /\ Shaped(todo, row.tripped, hist.vetoed, veto, mem)
      /\ hist.vetoed => row.tripped
  BY <1>1 DEF VetoInv
<1>3. mem' = mem
  BY <1>1
<1>4. /\ Head(todo) = todo[1]
      /\ hist.vetoed => \/ veto \/ cst.disabled
                        \/ Len(todo) = 2 /\ IsCst(w) /\ w.val.disabled
  BY <1>1, TailFacts DEF VetoInv
<1>5. CASE WriteRow(w)
  <2>1. w.to = "row" /\ row' = w.val /\ cst' = cst /\ veto' = veto
    BY <1>5 DEF WriteRow
  <2>2. hist.vetoed => veto \/ cst.disabled
    BY <1>4, <2>1 DEF IsCst
  <2>3. hist'.vetoed = IF \/ w.why = "trip" /\ ~row.tripped
                          \/ w.why \in {"tiered", "fire"} /\ row.tripped
                       THEN FALSE ELSE hist.vetoed
    BY <1>1, <1>5, HistoryOfWrite DEF Rows
  <2>4. \/ /\ w.why = "keep" /\ u = <<>>
           /\ row.tripped => w.val.tripped
           /\ w.val.tripped => mem
        \/ /\ w.why = "keep"
           /\ row.tripped => w.val.tripped
           /\ \A now : Shaped(u, now, hist.vetoed, veto, mem)
        \/ /\ w.why \in {"tiered", "fire"} /\ ~w.val.tripped
           /\ \/ u = <<>>
              \/ Shaped(u, FALSE, FALSE, veto, mem)
        \/ /\ w.why = "trip" /\ u = <<>> /\ ~row.tripped /\ mem
    <3> HIDE DEF mem
    <3> QED
      BY <1>1, <1>2, <2>1, RowFirst, Zenon
  <2>5. row.tripped \in BOOLEAN /\ hist.vetoed \in BOOLEAN
    BY <1>1 DEF Rows, Histories
  <2> HIDE DEF w, u
  <2>6. (hist'.vetoed => row'.tripped) /\ (hist'.vetoed => veto' \/ cst'.disabled)
    BY <1>2, <2>1, <2>2, <2>3, <2>4
  <2>7. todo' = <<>> /\ scan'.at \in {"research", "checking"} /\ row'.tripped => scan'.mem.tripped
    BY <1>1, <1>2, <2>1, <2>4, ShapedNotEmpty
  <2>8. todo' = <<>> \/ Shaped(todo', row'.tripped, hist'.vetoed, veto', mem')
    <3>1. CASE w.why = "keep" /\ \A now : Shaped(u, now, hist.vetoed, veto, mem)
      <4>1. hist'.vetoed = hist.vetoed
        BY <2>3, <3>1
      <4> QED
        BY <1>1, <1>3, <2>1, <3>1, <4>1
    <3>2. CASE w.why \in {"tiered", "fire"} /\ ~w.val.tripped /\ Shaped(u, FALSE, FALSE, veto, mem)
      <4>1. row'.tripped = FALSE
        BY <2>1, <3>2 DEF Rows
      <4>2. hist'.vetoed = FALSE
        BY <1>2, <2>3, <2>5, <3>2
      <4> QED
        BY <1>1, <1>3, <2>1, <3>2, <4>1, <4>2
    <3> QED
      BY <1>1, <2>4, <3>1, <3>2
  <2>9. todo' # <<>> => scan'.at \in {"checking", "executing"}
    BY <1>1, <1>2
  <2> QED
    BY <2>6, <2>7, <2>8, <2>9 DEF VetoInv
<1>6. CASE WriteCooldown(w)
  <2>1. w.to = "cst" /\ cst' = w.val /\ row' = row /\ veto' = veto /\ hist' = hist
    BY <1>6 DEF WriteCooldown
  <2>2. /\ u # <<>> /\ Shaped(u, row.tripped, hist.vetoed, veto, mem)
        /\ hist.vetoed => veto \/ w.val.disabled
    <3> HIDE DEF mem
    <3> QED
      BY <1>1, <1>2, <2>1, CooldownFirst
  <2> HIDE DEF w, u
  <2>3. Shaped(todo', row'.tripped, hist'.vetoed, veto', mem')
    BY <1>1, <1>3, <2>1, <2>2
  <2> QED
    BY <1>1, <1>2, <2>1, <2>2, <2>3 DEF VetoInv
<1>7. CASE SetRamp(w)
  <2>1. w.to = "ramp" /\ cst' = cst /\ row' = row /\ veto' = veto /\ hist' = hist
    BY <1>7 DEF SetRamp
  <2>2. u # <<>> /\ Shaped(u, row.tripped, hist.vetoed, veto, mem)
    <3> HIDE DEF mem
    <3> QED
      BY <1>1, <1>2, <2>1, RampFirst, Zenon
  <2>3. hist.vetoed => veto \/ cst.disabled
    BY <1>4, <2>1 DEF IsCst
  <2> HIDE DEF w, u
  <2>4. Shaped(todo', row'.tripped, hist'.vetoed, veto', mem')
    BY <1>1, <1>3, <2>1, <2>2
  <2> QED
    BY <1>1, <1>2, <2>1, <2>2, <2>3, <2>4 DEF VetoInv
<1>8. CASE ConsumeVeto(w)
  <2>1. w.to = "veto" /\ cst' = cst /\ row' = row /\ veto' = FALSE /\ hist' = hist
    BY <1>8 DEF ConsumeVeto
  <2>2. /\ u # <<>> /\ Shaped(u, row.tripped, hist.vetoed, FALSE, mem)
        /\ Len(u) = 2 /\ IsCst(u[1]) /\ IsRow(u[2], "keep") /\ u[1].val.disabled
    <3> HIDE DEF mem
    <3> QED
      BY <1>1, <1>2, <2>1, VetoFirst, Zenon
  <2> HIDE DEF w, u
  <2>3. Shaped(todo', row'.tripped, hist'.vetoed, veto', mem')
    BY <1>1, <1>3, <2>1, <2>2
  <2> QED
    BY <1>1, <1>2, <2>1, <2>2, <2>3 DEF VetoInv, IsCst, IsRow
<1> QED
  BY <1>1, <1>5, <1>6, <1>7, <1>8

\* Every step keeps the invariant of the veto.
THEOREM NextVetoInv == TypeOK /\ VetoInv /\ [Next]_vars => VetoInv'
<1> SUFFICES ASSUME TypeOK, VetoInv, [Next]_vars PROVE VetoInv'
  OBVIOUS
<1> DEFINE mem == (scan.at = "checking" => scan.mem.tripped)
<1>0. /\ row \in Rows /\ cst \in Cooldowns /\ scan \in Scans /\ scan.mem \in Rows
      /\ hist \in Histories /\ todo \in Seq(Writes) /\ veto \in BOOLEAN
      /\ row.tripped \in BOOLEAN /\ scan.mem.tripped \in BOOLEAN /\ hist.vetoed \in BOOLEAN
      /\ cst.disabled \in BOOLEAN
  BY DEF TypeOK, Scans, Rows, Histories, Cooldowns
<1>a. /\ hist.vetoed => row.tripped
      /\ todo # <<>> => scan.at \in {"checking", "executing"}
      /\ todo = <<>> /\ scan.at \in {"research", "checking"} /\ row.tripped => scan.mem.tripped
      /\ todo = <<>> \/ Shaped(todo, row.tripped, hist.vetoed, veto, mem)
  BY DEF VetoInv
<1>b. todo = <<>> => (hist.vetoed => veto \/ cst.disabled)
  <2>1. todo = <<>> => Len(todo) = 0
    OBVIOUS
  <2> QED
    BY <2>1 DEF VetoInv
<1>c. ASSUME todo' = <<>>, hist'.vetoed => row'.tripped, hist'.vetoed => veto' \/ cst'.disabled,
             scan'.at \in {"research", "checking"} /\ row'.tripped => scan'.mem.tripped
      PROVE  VetoInv'
  BY <1>c DEF VetoInv
<1>1. CASE StartScan
  <2>1. todo' = <<>> /\ scan'.mem = row
    BY <1>a, <1>1 DEF StartScan, At
  <2>2. UNCHANGED <<row, cst, veto, hist, todo>>
    BY <1>1 DEF StartScan, store
  <2> QED
    BY <1>a, <1>b, <1>c, <2>1, <2>2
<1>2. CASE PreCheck
  <2>1. PICK r \in Readings, gates \in GateReports :
           LET w == [veto |-> veto, gates |-> gates]
               c == CheckDrawdown(scan.mem, cst, r.balance, r.flat, w)
           IN  /\ scan' = [scan EXCEPT !.at = "checking", !.mem = c.mem]
               /\ answer' = [tripped |-> c.tripped, pct |-> c.pct]
               /\ todo' = c.writes
               /\ Note(r)
    BY <1>2, Zenon DEF PreCheck
  <2> DEFINE c == CheckDrawdown(scan.mem, cst, r.balance, r.flat, [veto |-> veto, gates |-> gates])
  <2>2. scan.at = "research" /\ todo = <<>>
    BY <1>a, <1>2 DEF PreCheck, At
  <2>3. /\ c.mem \in Rows /\ c.writes # <<>>
        /\ Shaped(c.writes, row.tripped, hist.vetoed, veto, c.mem.tripped)
    BY <1>0, <1>a, <2>2, CheckShaped, ReadingTypes
  <2>4. scan' = [scan EXCEPT !.at = "checking", !.mem = c.mem] /\ todo' = c.writes
    BY <2>1
  <2> HIDE DEF c
  <2>5. scan'.at = "checking" /\ scan'.mem = c.mem
    BY <1>0, <2>3, <2>4, ScanTypes, Zenon
  <2>6. hist'.vetoed = hist.vetoed
    BY <2>1, NoteTypes
  <2>7. UNCHANGED <<row, cst, veto>>
    BY <1>2 DEF PreCheck, store
  <2>8. mem' = c.mem.tripped
    <3>1. c.mem.tripped \in BOOLEAN
      BY <2>3 DEF Rows
    <3> QED
      BY <2>5, <3>1
  <2>9. Shaped(todo', row'.tripped, hist'.vetoed, veto', mem')
    BY <2>3, <2>4, <2>6, <2>7, <2>8
  <2> QED
    BY <1>a, <1>b, <2>2, <2>3, <2>4, <2>5, <2>6, <2>7, <2>9 DEF VetoInv
<1>3. CASE PreCheckFails
  <2>1. scan.at = "research" /\ todo = <<>> /\ UNCHANGED <<row, cst, veto, todo>>
    BY <1>a, <1>3 DEF PreCheckFails, At, store
  <2>2. scan'.mem = scan.mem
    BY <1>0, <1>3, ScanField, PlaceNames DEF PreCheckFails, Go
  <2>3. hist'.vetoed = hist.vetoed
    BY <1>0, <1>3, HistoryField DEF PreCheckFails
  <2> QED
    BY <1>a, <1>b, <1>c, <2>1, <2>2, <2>3
<1>4. CASE Judge
  <2>1. scan.at = "checking" /\ todo = <<>> /\ UNCHANGED <<row, cst, veto, hist, todo>>
    BY <1>4 DEF Judge, At, store
  <2>2. scan'.mem = scan.mem
    <3> DEFINE size == IF ramp > 0 THEN "half" ELSE "full"
    <3>1. size \in Sizes
      BY DEF Sizes
    <3>2. \/ scan' = [scan EXCEPT !.at = "research", !.chosen = size]
          \/ scan' = [scan EXCEPT !.at = "research"]
      BY <1>4, Zenon DEF Judge, Go
    <3> HIDE DEF size
    <3>3. CASE scan' = [scan EXCEPT !.at = "research", !.chosen = size]
      BY <1>0, <3>1, <3>3, ScanTypes, Zenon
    <3>4. CASE scan' = [scan EXCEPT !.at = "research"]
      BY <1>0, <3>4, ScanField, PlaceNames, Zenon
    <3> QED
      BY <3>2, <3>3, <3>4
  <2> QED
    BY <1>a, <1>b, <1>c, <2>1, <2>2
<1>5. CASE Switch
  <2>1. todo = <<>> /\ UNCHANGED <<row, cst, veto, hist, todo>>
    BY <1>a, <1>5 DEF Switch, At, store
  <2>2. scan'.at = "switched"
    BY <1>0, <1>5, FreshTypes, ScanTypes, PlaceNames DEF Switch, Scans, Sizes
  <2> QED
    BY <1>a, <1>b, <1>c, <2>1, <2>2
<1>6. CASE ExecCheck
  <2>1. PICK r \in Readings :
           LET w == [veto |-> veto, gates |-> "unreadable"]
               c == CheckDrawdown(row, cst, r.balance, FALSE, w)
           IN  /\ answer' = [tripped |-> c.tripped, pct |-> c.pct]
               /\ todo' = c.writes
               /\ Note(r)
    BY <1>6, Zenon DEF ExecCheck
  <2> DEFINE c == CheckDrawdown(row, cst, r.balance, FALSE, [veto |-> veto, gates |-> "unreadable"])
  <2>2. todo = <<>>
    BY <1>a, <1>6 DEF ExecCheck
  <2>3. /\ c.mem \in Rows /\ c.writes # <<>>
        /\ Shaped(c.writes, row.tripped, hist.vetoed, veto, c.mem.tripped)
    <3>1. "unreadable" \in GateReports
      BY DEF GateReports
    <3> QED
      BY <1>0, <2>2, <3>1, CheckShaped, ReadingTypes
  <2>4. todo' = c.writes
    BY <2>1
  <2> HIDE DEF c
  <2>5. scan'.at = "executing"
    BY <1>0, <1>6, FreshTypes, ScanTypes, PlaceNames DEF ExecCheck, Scans, Sizes
  <2>6. hist'.vetoed = hist.vetoed
    BY <2>1, NoteTypes
  <2>7. UNCHANGED <<row, cst, veto>>
    BY <1>6 DEF ExecCheck, store
  <2>8. mem' = TRUE
    BY <2>5
  <2>9. Shaped(todo', row'.tripped, hist'.vetoed, veto', mem')
    <3>1. Shaped(c.writes, row.tripped, hist.vetoed, veto, TRUE)
      BY <2>3, Weaker
    <3> QED
      BY <2>4, <2>6, <2>7, <2>8, <3>1
  <2> QED
    BY <1>a, <1>b, <2>2, <2>3, <2>4, <2>5, <2>6, <2>7, <2>9 DEF VetoInv
<1>7. CASE Enter \/ Refuse
  <2>1. todo = <<>> /\ UNCHANGED <<row, cst, veto, hist, todo>>
    BY <1>7 DEF Enter, Refuse, store
  <2>2. scan'.at = "done"
    <3>1. scan' = [Idle EXCEPT !.at = "done"]
      BY <1>7 DEF Enter, Refuse
    <3> QED
      BY <3>1, FreshTypes, ScanField, PlaceNames, Zenon
  <2> QED
    BY <1>a, <1>b, <1>c, <2>1, <2>2
<1>8. CASE EndScan
  <2>1. todo = <<>> /\ UNCHANGED <<row, cst, veto, todo>>
    BY <1>a, <1>8 DEF EndScan, store
  <2>2. hist'.vetoed = hist.vetoed
    BY <1>0, <1>8, HistoryFlags, Zenon DEF EndScan
  <2>3. scan'.at = "idle"
    BY <1>8, FreshTypes DEF EndScan
  <2> QED
    BY <1>a, <1>b, <1>c, <2>1, <2>2, <2>3
<1>9. CASE Write
  BY <1>9, WriteVetoInv
<1>10. CASE Market \/ SellOut
  BY <1>10 DEF Market, SellOut, store, VetoInv
<1>11. CASE TwoHours
  <2>1. scan.at = "idle" /\ todo = <<>> /\ UNCHANGED <<row, veto, hist, scan, todo>>
    BY <1>a, <1>11 DEF TwoHours, At
  <2>2. cst'.disabled = cst.disabled
    <3> DEFINE armed == IF cst.armed = "window" THEN "due" ELSE cst.armed
    <3>1. armed \in Armings
      BY <1>0 DEF Cooldowns, Armings
    <3>2. cst' = [cst EXCEPT !.armed = armed]
      BY <1>11, Zenon DEF TwoHours
    <3> HIDE DEF armed
    <3> QED
      BY <1>0, <3>1, <3>2, CooldownField, Zenon
  <2> QED
    BY <1>a, <1>b, <1>c, <2>1, <2>2
<1>12. CASE Day
  <2>1. scan.at = "idle" /\ todo = <<>> /\ UNCHANGED <<veto, scan, todo>>
    BY <1>a, <1>12 DEF Day, At
  <2>2. row'.tripped = row.tripped /\ cst'.disabled = cst.disabled
    BY <1>0, <1>12, RowTypes, OlderCooldownType DEF Day
  <2>3. hist'.vetoed = hist.vetoed
    BY <1>0, <1>12, HistoryOfDay
  <2> QED
    BY <1>a, <1>b, <1>c, <2>1, <2>2, <2>3
<1>13. CASE Reset
  <2>1. ~hist'.vetoed /\ ~row'.tripped /\ UNCHANGED <<veto, scan, todo>>
    BY <1>0, <1>13, HistoryOfReset, FreshTypes, BoundsAssumption DEF Reset, TypeOK
  <2>2. hist'.vetoed = FALSE /\ row'.tripped = FALSE
    <3>1. hist' \in Histories /\ row' \in Rows
      BY <1>13, NextTypeOK DEF TypeOK, Next
    <3> QED
      BY <2>1, <3>1 DEF Histories, Rows
  <2>3. todo' = <<>> \/ Shaped(todo', row'.tripped, hist'.vetoed, veto', mem')
    <3>1. ASSUME todo # <<>> PROVE Shaped(todo, FALSE, FALSE, veto, mem)
      BY <1>a, <3>1, Weaker
    <3> QED
      BY <2>1, <2>2, <3>1
  <2> QED
    BY <1>a, <2>1, <2>2, <2>3 DEF VetoInv
<1>14. CASE Veto
  <2>1. row.tripped /\ veto' = TRUE /\ UNCHANGED <<row, cst, scan, todo>>
    BY <1>14 DEF Veto
  <2>2. todo # <<>> => hist'.vetoed = hist.vetoed
    <3> DEFINE idle == todo = <<>>
    <3>1. idle \in BOOLEAN
      BY Zenon
    <3>2. hist' = [hist EXCEPT !.vetoed = @ \/ idle]
      BY <1>14, Zenon DEF Veto
    <3>3. hist'.vetoed = (hist.vetoed \/ idle)
      <4> HIDE DEF idle
      <4> QED
        BY <1>0, <3>1, <3>2, HistoryFlags, Zenon
    <3> QED
      BY <1>0, <3>3
  <2>3. todo' = <<>> \/ Shaped(todo', row'.tripped, hist'.vetoed, veto', mem')
    <3>1. ASSUME todo # <<>> PROVE Shaped(todo, row.tripped, hist.vetoed, TRUE, mem)
      BY <1>a, <3>1, Weaker
    <3> QED
      BY <2>1, <2>2, <3>1
  <2> QED
    BY <1>a, <2>1, <2>3 DEF VetoInv
<1>15. CASE Die
  <2>1. todo' = <<>> /\ UNCHANGED <<row, cst, veto>> /\ scan'.at = "idle"
    BY <1>15, FreshTypes DEF Die, store
  <2>2. hist'.vetoed = (hist.vetoed /\ (veto \/ cst.disabled))
    BY <1>0, <1>15, HistoryOfDeath
  <2> QED
    BY <1>a, <1>c, <2>1, <2>2
<1>16. CASE UNCHANGED vars
  BY <1>16 DEF vars, world, store, VetoInv
<1> QED
  BY <1>1, <1>2, <1>3, <1>4, <1>5, <1>6, <1>7, <1>8, <1>9, <1>10, <1>11, <1>12, <1>13,
     <1>14, <1>15, <1>16 DEF Next

\* A veto is in the store, in the writes to come, or has become the disarm.
THEOREM VetoInvariant == Spec => []VetoInv
BY InitVetoInv, NextVetoInv, TypeCorrect, PTL DEF Spec

\* A flat reset never gives up a trip that a person vetoed before its check
\* began, whatever is misread, dies or is written in between (_flat_vetoed).
THEOREM VetoKept == Spec => VetoHonoured
<1>1. TypeOK /\ VetoInv => (Releases("fire") => ~hist.vetoed)
  <2> SUFFICES ASSUME TypeOK, VetoInv, Releases("fire") PROVE ~hist.vetoed
    OBVIOUS
  <2>1. todo \in Seq(Writes) /\ todo # <<>> /\ IsRow(Head(todo), "fire")
    BY DEF TypeOK, Releases, IsRow
  <2>2. IsRow(todo[1], "fire")
    BY <2>1, TailFacts
  <2>3. Shaped(todo, row.tripped, hist.vetoed, veto, scan.at = "checking" => scan.mem.tripped)
    BY <2>1 DEF VetoInv
  <2> QED
    BY <2>2, <2>3 DEF Shaped, IsRow, IsCst
<1> QED
  BY <1>1, TypeCorrect, VetoInvariant, PTL DEF VetoHonoured

-----------------------------------------------------------------------------
(* What a check decides                                                     *)

SameTrip(n, m) == n.tripped = m.tripped /\ n.age = m.age
SameCooldown(k, c) ==
    k.mult = c.mult /\ k.chain = c.chain /\ k.flat = c.flat /\ k.disabled = c.disabled

\* The seven lists of writes a check may leave, for the row m it was given, the
\* cooldown state cs it read and the row n it leaves in memory.
Keeps(t, n, m) == Len(t) = 1 /\ t[1] = ToRow(n, "keep") /\ SameTrip(n, m)

Notes(t, n, m, cs) ==
    /\ Len(t) = 2 /\ t[2] = ToRow(n, "keep") /\ SameTrip(n, m) /\ m.tripped
    /\ \E k \in Cooldowns : t[1] = ToCooldown(k) /\ SameCooldown(k, cs)

Disables(t, n, m, cs) ==
    /\ Len(t) = 3 /\ t[1] = EatVeto /\ t[3] = ToRow(n, "keep") /\ SameTrip(n, m) /\ m.tripped
    /\ \E k \in Cooldowns :
          /\ t[2] = ToCooldown(k)
          /\ k.mult = cs.mult /\ k.chain = cs.chain /\ k.flat = cs.flat /\ k.disabled

Opens(k, cs) ==
    k.mult = cs.mult /\ k.chain = 0 /\ k.flat = cs.flat /\ k.disabled = cs.disabled

GivesBack(t, n, m, cs) ==
    /\ Len(t) = 3 /\ t[2] = ToRow(n, "tiered") /\ t[3] = ToRow(n, "keep")
    /\ \E k \in Cooldowns : t[1] = ToCooldown(k) /\ Opens(k, cs)
    /\ m.tripped /\ ~n.tripped /\ m.age >= Early * cs.mult

GivesBackAtPeak(t, n, m, cs) ==
    /\ Len(t) = 3 /\ t[3] = ToRow(n, "tiered")
    /\ \E p \in Rows : t[1] = ToRow(p, "keep") /\ SameTrip(p, m) /\ p.hwm = n.hwm
    /\ \E k \in Cooldowns : t[2] = ToCooldown(k) /\ Opens(k, cs)
    /\ m.tripped /\ ~n.tripped /\ m.age >= Early * cs.mult

Fires(t, n, m, cs) ==
    /\ Len(t) = 4 /\ t[2] = ToRow(n, "fire") /\ t[3] = ToRamp /\ t[4] = ToRow(n, "keep")
    /\ \E k \in Cooldowns :
          /\ t[1] = ToCooldown(k)
          /\ k.mult = cs.mult /\ k.chain = 0 /\ k.flat = 0 /\ k.disabled = cs.disabled
    /\ m.tripped /\ ~n.tripped /\ ~cs.disabled /\ m.age >= G1Days

Trips(t, n, m, cs) ==
    /\ Len(t) = 2 /\ t[2] = ToRow(n, "trip")
    /\ \E k \in Cooldowns :
          /\ t[1] = ToCooldown(k) /\ k.chain = cs.chain /\ k.flat = cs.flat
          /\ k.mult = IF cs.chain < Chain THEN Min({2 * cs.mult, Cap}) ELSE 1
          /\ k.disabled = (cs.chain < Chain /\ (cs.disabled \/ cs.flat < Retrip))
    /\ ~m.tripped /\ n.tripped /\ n.age = 0

\* The whole answer c of a check of a row m.
Decides(c, m, cs, balance, flat) ==
    /\ c.mem \in Rows /\ c.mem.hwm \in {m.hwm, balance}
    /\ c.tripped \in BOOLEAN /\ c.pct \in Int /\ c.writes \in Seq(Writes)
    /\ c.mem.tripped => c.tripped \/ PhantomSpike(m.hwm, balance)
    /\ \/ Keeps(c.writes, c.mem, m)
       \/ Notes(c.writes, c.mem, m, cs)
       \/ Disables(c.writes, c.mem, m, cs)
       \/ GivesBack(c.writes, c.mem, m, cs)
       \/ GivesBackAtPeak(c.writes, c.mem, m, cs)
       \/ Fires(c.writes, c.mem, m, cs) /\ ~c.tripped /\ c.pct = 0 /\ flat
       \/ Trips(c.writes, c.mem, m, cs)

\* An answer is sound when its parts are.
LEMMA AnswerDecides ==
    ASSUME NEW m, NEW cs, NEW balance, NEW flat, NEW n \in Rows, NEW t \in Seq(Writes),
           NEW b \in BOOLEAN, NEW p \in Int,
           n.hwm \in {m.hwm, balance}, n.tripped => b \/ PhantomSpike(m.hwm, balance),
           \/ Keeps(t, n, m)
           \/ Notes(t, n, m, cs)
           \/ Disables(t, n, m, cs)
           \/ GivesBack(t, n, m, cs)
           \/ GivesBackAtPeak(t, n, m, cs)
           \/ Fires(t, n, m, cs) /\ ~b /\ p = 0 /\ flat
           \/ Trips(t, n, m, cs)
    PROVE  Decides(Answer(n, t, b, p), m, cs, balance, flat)
<1> DEFINE c == Answer(n, t, b, p)
<1>1. c.mem = n /\ c.tripped = b /\ c.pct = p /\ c.writes = t
  BY DEF Answer
<1> HIDE DEF c
<1>2. Decides(c, m, cs, balance, flat)
  BY <1>1, Zenon DEF Decides
<1> QED
  BY <1>2 DEF c

\* What the operators on a cooldown state leave of it.
LEMMA DisarmedFields ==
    ASSUME NEW c \in Cooldowns
    PROVE  /\ SameCooldown(Disarmed(c), c)
           /\ Opens(ChainOpened(c), c)
           /\ LET k == Vetoed(c)
              IN  k.mult = c.mult /\ k.chain = c.chain /\ k.flat = c.flat /\ k.disabled
           /\ LET k == FlatShut(c)
              IN  k.mult = c.mult /\ k.chain = 0 /\ k.flat = 0 /\ k.disabled = c.disabled
           /\ \A g \in GateReports, m \in Rows : SameCooldown(GatesEvaluated(m, c, g), c)
BY DEF SameCooldown, Opens, Disarmed, ChainOpened, Vetoed, FlatShut, GatesEvaluated, Cooldowns

\* What the operators on a row leave of it.
LEMMA RowFields ==
    ASSUME NEW m \in Rows
    PROVE  /\ \A d \in Int : LET n == [m EXCEPT !.dd = d] IN SameTrip(n, m) /\ n.hwm = m.hwm
           /\ \A b \in Nat : LET n == [m EXCEPT !.hwm = b, !.dd = 0]
                             IN  SameTrip(n, m) /\ n.hwm = b
           /\ Released(m).hwm = m.hwm
           /\ Tripped(m).hwm = m.hwm /\ Tripped(m).age = 0
BY DEF Rows, SameTrip, Released, Tripped

\* The lists of writes a check may leave, read entry by entry.
LEMMA Lists ==
    ASSUME NEW a \in Writes, NEW b \in Writes, NEW c \in Writes, NEW d \in Writes
    PROVE  /\ <<a>> \in Seq(Writes) /\ Len(<<a>>) = 1 /\ <<a>>[1] = a
           /\ <<a, b>> \in Seq(Writes) /\ Len(<<a, b>>) = 2 /\ <<a, b>>[1] = a /\ <<a, b>>[2] = b
           /\ LET t == <<a, b, c>>
              IN  t \in Seq(Writes) /\ Len(t) = 3 /\ t[1] = a /\ t[2] = b /\ t[3] = c
           /\ LET t == <<a, b, c, d>>
              IN  t \in Seq(Writes) /\ Len(t) = 4 /\ t[1] = a /\ t[2] = b /\ t[3] = c /\ t[4] = d
OBVIOUS

\* What a check of a flat account decides under a standing trip.
LEMMA FlatResetDecides ==
    ASSUME NEW m \in Rows, NEW n \in Rows, SameTrip(n, m), n.hwm = m.hwm, m.tripped,
           NEW cs \in Cooldowns, NEW balance \in Nat, NEW w \in Worlds
    PROVE  Decides(FlatReset(n, cs, balance, w), m, cs, balance, TRUE)
<1> DEFINE fr == FlatReset(n, cs, balance, w)
           hold(writes) == Answer(n, writes, TRUE, n.dd)
           keep == ToRow(n, "keep")
           fired == Untripped(balance)
           shut == FlatShut(cs)
           turn == GatesEvaluated(n, cs, w.gates)
           fire == <<ToCooldown(shut), ToRow(fired, "fire"), ToRamp, ToRow(fired, "keep")>>
<1>1. \/ fr = hold(<<keep>>)
      \/ fr = hold(<<ToCooldown(Disarmed(cs)), keep>>)
      \/ fr = hold(<<ToCooldown(turn), keep>>)
      \/ fr = hold(<<EatVeto, ToCooldown(Vetoed(cs)), keep>>)
      \/ fr = Answer(fired, fire, FALSE, 0) /\ ~cs.disabled /\ n.age >= G1Days
  BY Zenon DEF FlatReset, Fire, GatesPass
<1>2. /\ Disarmed(cs) \in Cooldowns /\ Vetoed(cs) \in Cooldowns
      /\ shut \in Cooldowns /\ fired \in Rows
  BY CooldownTypes, RowTypes DEF FlatShut
<1>3. turn \in Cooldowns
  BY CooldownTypes, CooldownValues, Zenon DEF GatesEvaluated
<1>4. SameCooldown(turn, cs) /\ SameCooldown(Disarmed(cs), cs)
  BY DisarmedFields DEF Worlds
<1>5. /\ Vetoed(cs).mult = cs.mult /\ Vetoed(cs).chain = cs.chain /\ Vetoed(cs).flat = cs.flat
      /\ Vetoed(cs).disabled
      /\ shut.mult = cs.mult /\ shut.chain = 0 /\ shut.flat = 0 /\ shut.disabled = cs.disabled
  BY DisarmedFields
<1>6. fired.tripped = FALSE /\ fired.hwm = balance /\ n.dd \in Int /\ 0 \in Int
  BY DEF Untripped, Rows
<1>7. keep \in Writes /\ ToRow(fired, "keep") \in Writes /\ ToRow(fired, "fire") \in Writes
      /\ ToRamp \in Writes /\ EatVeto \in Writes /\ \A k \in Cooldowns : ToCooldown(k) \in Writes
  BY <1>2, WriteTypes
<1> SUFFICES Decides(fr, m, cs, balance, TRUE)
  OBVIOUS
<1> HIDE DEF fr, shut, turn, fired, keep
<1>8. CASE fr = hold(<<keep>>)
  <2>1. Keeps(<<keep>>, n, m) /\ <<keep>> \in Seq(Writes)
    BY <1>7, Lists DEF Keeps, keep
  <2> QED
    BY <1>6, <1>8, <2>1, AnswerDecides
<1>9. ASSUME NEW k \in Cooldowns, SameCooldown(k, cs), fr = hold(<<ToCooldown(k), keep>>)
      PROVE  Decides(fr, m, cs, balance, TRUE)
  <2> DEFINE t == <<ToCooldown(k), keep>>
  <2>1. t \in Seq(Writes) /\ Len(t) = 2 /\ t[1] = ToCooldown(k) /\ t[2] = keep
    BY <1>7, Lists
  <2> HIDE DEF t
  <2>2. Notes(t, n, m, cs)
    BY <1>9, <2>1 DEF Notes, keep
  <2> QED
    BY <1>6, <1>9, <2>1, <2>2, AnswerDecides DEF t
<1>10. CASE fr = hold(<<EatVeto, ToCooldown(Vetoed(cs)), keep>>)
  <2> DEFINE t == <<EatVeto, ToCooldown(Vetoed(cs)), keep>>
  <2>1. /\ t \in Seq(Writes) /\ Len(t) = 3
        /\ t[1] = EatVeto /\ t[2] = ToCooldown(Vetoed(cs)) /\ t[3] = keep
    BY <1>2, <1>7, Lists
  <2> HIDE DEF t
  <2>2. Disables(t, n, m, cs)
    BY <1>2, <1>5, <2>1 DEF Disables, keep
  <2> QED
    BY <1>6, <1>10, <2>1, <2>2, AnswerDecides DEF t
<1>11. CASE fr = Answer(fired, fire, FALSE, 0) /\ ~cs.disabled /\ n.age >= G1Days
  <2>1. /\ fire \in Seq(Writes) /\ Len(fire) = 4
        /\ fire[1] = ToCooldown(shut) /\ fire[2] = ToRow(fired, "fire")
        /\ fire[3] = ToRamp /\ fire[4] = ToRow(fired, "keep")
    BY <1>2, <1>7, Lists
  <2> HIDE DEF fire
  <2>2. Fires(fire, fired, m, cs)
    <3>1. ~fired.tripped /\ m.age >= G1Days
      BY <1>6, <1>11 DEF SameTrip
    <3> QED
      BY <1>2, <1>5, <1>11, <2>1, <3>1 DEF Fires
  <2> QED
    BY <1>2, <1>6, <1>11, <2>1, <2>2, AnswerDecides
<1> QED
  BY <1>1, <1>2, <1>3, <1>4, <1>8, <1>9, <1>10, <1>11

\* A reset is due only after the first cooldown, as often as it was doubled.
LEMMA DueInTime ==
    ASSUME NEW m \in Rows, NEW cs \in Cooldowns, NEW pct, ResetDue(m, cs, pct)
    PROVE  m.age >= Early * cs.mult
<1>1. m.age \in Nat /\ cs.mult \in Nat
  BY MaxAgeType DEF Rows, Cooldowns
<1>2. Early \in Nat /\ Recheck \in Nat /\ Early <= Recheck
  BY DurationsAssumption
<1>3. m.age >= Early * cs.mult \/ m.age >= Recheck * cs.mult
  BY DEF ResetDue
<1>4. \A k, a, b \in Nat : a <= b => a * k <= b * k /\ a * k \in Nat /\ b * k \in Nat
  OBVIOUS
<1>5. Early * cs.mult <= Recheck * cs.mult /\ Early * cs.mult \in Nat /\ Recheck * cs.mult \in Nat
  BY <1>1, <1>2, <1>4
<1> QED
  BY <1>1, <1>3, <1>5

\* What a check decides at a new peak.
LEMMA NewPeakDecides ==
    ASSUME NEW m \in Rows, NEW cs \in Cooldowns, NEW balance \in Nat, NEW flat
    PROVE  Decides(NewPeak(m, cs, balance), m, cs, balance, flat)
<1> DEFINE peak == [m EXCEPT !.hwm = balance, !.dd = 0]
           np == NewPeak(m, cs, balance)
           t == <<ToRow(peak, "keep"), ToCooldown(ChainOpened(cs)),
                  ToRow(Released(peak), "tiered")>>
           turned == <<ToRow(peak, "keep")>> \o TieredReset(peak, cs)
<1>1. peak \in Rows /\ SameTrip(peak, m) /\ peak.hwm = balance /\ 0 \in Int
  <2>1. peak \in Rows
    BY PeakStored
  <2>2. SameTrip(peak, m) /\ peak.hwm = balance
    BY RowFields, Zenon
  <2> QED
    BY <2>1, <2>2
<1>2. \/ np = Answer(Released(peak), turned, FALSE, 0) /\ peak.tripped /\ ResetDue(peak, cs, 0)
      \/ np = Answer(peak, <<ToRow(peak, "keep")>>, peak.tripped, 0)
  BY Zenon DEF NewPeak
<1>3. /\ ChainOpened(cs) \in Cooldowns /\ Opens(ChainOpened(cs), cs)
  BY CooldownTypes, DisarmedFields
<1> SUFFICES Decides(np, m, cs, balance, flat)
  OBVIOUS
<1> HIDE DEF peak, np, t
<1>4. /\ Released(peak) \in Rows /\ ~Released(peak).tripped
      /\ Released(peak).hwm = balance /\ peak.tripped \in BOOLEAN
  BY <1>1, RowTypes, RowFields DEF Rows
<1>5. /\ ToRow(peak, "keep") \in Writes /\ ToCooldown(ChainOpened(cs)) \in Writes
      /\ ToRow(Released(peak), "tiered") \in Writes
  BY <1>1, <1>3, <1>4, WriteTypes
<1>6. turned = t
  <2> DEFINE a == ToRow(peak, "keep")
             b == ToCooldown(ChainOpened(cs))
             c == ToRow(Released(peak), "tiered")
  <2>1. turned = <<a>> \o <<b, c>> /\ t = <<a, b, c>>
    BY Zenon DEF TieredReset, t
  <2>2. a \in Writes /\ b \in Writes /\ c \in Writes
    BY <1>5
  <2> HIDE DEF a, b, c
  <2> QED
    BY <2>1, <2>2, Joined
<1>7. CASE np = Answer(Released(peak), turned, FALSE, 0) /\ peak.tripped /\ ResetDue(peak, cs, 0)
  <2>1. /\ t \in Seq(Writes) /\ Len(t) = 3 /\ t[1] = ToRow(peak, "keep")
        /\ t[2] = ToCooldown(ChainOpened(cs)) /\ t[3] = ToRow(Released(peak), "tiered")
    BY <1>5, Lists DEF t
  <2>2. m.tripped /\ m.age >= Early * cs.mult
    <3>1. peak.age >= Early * cs.mult
      BY <1>1, <1>7, DueInTime
    <3> QED
      BY <1>1, <1>7, <3>1 DEF SameTrip
  <2>3. GivesBackAtPeak(t, Released(peak), m, cs)
    BY <1>1, <1>3, <1>4, <2>1, <2>2 DEF GivesBackAtPeak
  <2> QED
    BY <1>1, <1>4, <1>6, <1>7, <2>1, <2>3, AnswerDecides
<1>8. CASE np = Answer(peak, <<ToRow(peak, "keep")>>, peak.tripped, 0)
  <2>1. Keeps(<<ToRow(peak, "keep")>>, peak, m) /\ <<ToRow(peak, "keep")>> \in Seq(Writes)
    BY <1>1, <1>5, Lists DEF Keeps
  <2> QED
    BY <1>1, <1>4, <1>8, <2>1, AnswerDecides
<1> QED
  BY <1>2, <1>7, <1>8

\* What a check decides that trips.
LEMMA TripDecides ==
    ASSUME NEW m \in Rows, NEW n \in Rows, SameTrip(n, m), n.hwm = m.hwm, ~m.tripped,
           NEW cs \in Cooldowns, NEW balance, NEW flat, NEW pct \in Int
    PROVE  Decides(Answer(Tripped(n), Trip(n, cs), TRUE, pct), m, cs, balance, flat)
<1> DEFINE again == cs.chain < Chain
           mult == IF again THEN Min({2 * cs.mult, Cap}) ELSE 1
           disabled == again /\ (cs.disabled \/ cs.flat < Retrip)
           k == [Disarmed(cs) EXCEPT !.mult = mult, !.disabled = disabled]
           r == Tripped(n)
           t == <<ToCooldown(k), ToRow(r, "trip")>>
<1>1. mult \in 1 .. Cap /\ disabled \in BOOLEAN
  <2>1. cs.mult \in 1 .. Cap
    BY DEF Cooldowns
  <2>2. mult \in 1 .. Cap
    BY <2>1, CapType, CooldownValues
  <2> QED
    BY <2>2, Zenon
<1>2. Trip(n, cs) = t
  <2>1. Disarmed(cs).mult = cs.mult /\ Disarmed(cs).disabled = cs.disabled
    BY DEF Disarmed, Cooldowns
  <2>2. Trip(n, cs) = <<ToCooldown([Disarmed(cs) EXCEPT
              !.mult = IF again THEN Min({2 * Disarmed(cs).mult, Cap}) ELSE 1,
              !.disabled = again /\ (Disarmed(cs).disabled \/ cs.flat < Retrip)]),
          ToRow(Tripped(n), "trip")>>
    BY Zenon DEF Trip
  <2> QED
    BY <2>1, <2>2
<1> HIDE DEF mult, disabled
<1>3. /\ k \in Cooldowns /\ k.chain = cs.chain /\ k.flat = cs.flat
      /\ k.mult = mult /\ k.disabled = disabled
  BY <1>1 DEF Disarmed, Cooldowns, Armings
<1>4. r \in Rows /\ r.tripped /\ r.age = 0 /\ r.hwm = m.hwm
  BY TrippedTypes, RowFields
<1> HIDE DEF k, r
<1>5. t \in Seq(Writes) /\ Len(t) = 2 /\ t[1] = ToCooldown(k) /\ t[2] = ToRow(r, "trip")
  BY <1>3, <1>4, WriteTypes, Lists
<1> HIDE DEF t
<1>6. Trips(t, r, m, cs)
  BY <1>3, <1>4, <1>5 DEF Trips, mult, disabled
<1>7. Decides(Answer(r, t, TRUE, pct), m, cs, balance, flat)
  BY <1>4, <1>5, <1>6, AnswerDecides
<1> QED
  BY <1>2, <1>7 DEF r

\* What a check of a row decides, whatever it was given.
LEMMA CheckDecides ==
    ASSUME NEW m \in Rows, NEW cs \in Cooldowns, NEW balance \in Nat \ {0},
           NEW flat \in BOOLEAN, NEW w \in Worlds
    PROVE  Decides(CheckDrawdown(m, cs, balance, flat, w), m, cs, balance, flat)
<1> DEFINE pct == Pct(m.hwm, balance)
           now == [m EXCEPT !.dd = pct]
           cd == CheckDrawdown(m, cs, balance, flat, w)
           tiered == TieredReset(now, cs) \o <<ToRow(Released(now), "keep")>>
           t == <<ToCooldown(ChainOpened(cs)), ToRow(Released(now), "tiered"),
                  ToRow(Released(now), "keep")>>
<1>0. m.hwm \in Nat /\ m.tripped \in BOOLEAN
  BY DEF Rows
<1>1. CASE balance > m.hwm /\ ~PhantomSpike(m.hwm, balance)
  <2>0. ~(balance <= m.hwm)
    BY <1>0, <1>1
  <2>1. cd = NewPeak(m, cs, balance)
    BY <1>1, <2>0, Zenon DEF CheckDrawdown
  <2> QED
    BY <2>1, NewPeakDecides
<1>2. CASE ~(balance > m.hwm /\ ~PhantomSpike(m.hwm, balance))
  <2>1. m.hwm \in Nat \ {0}
    BY <1>0, <1>2 DEF PhantomSpike
  <2>2. pct \in Int
    BY <2>1, PctType
  <2>3. now \in Rows /\ SameTrip(now, m) /\ now.hwm = m.hwm
    BY <2>2, DrawdownStored, RowFields
  <2>4. \/ cd = Answer(m, <<ToRow(m, "keep")>>, FALSE, pct) /\ PhantomSpike(m.hwm, balance)
        \/ cd = Answer(Released(now), tiered, FALSE, pct) /\ now.tripped /\ ResetDue(now, cs, pct)
        \/ cd = FlatReset(now, cs, balance, w) /\ now.tripped /\ flat
        \/ cd = Answer(now, <<ToRow(now, "keep")>>, TRUE, pct)
        \/ cd = Answer(Tripped(now), Trip(now, cs), TRUE, pct) /\ ~now.tripped
        \/ cd = Answer(now, <<ToRow(now, "keep")>>, FALSE, pct) /\ ~now.tripped
    <3>1. CASE PhantomSpike(m.hwm, balance)
      <4>1. balance > m.hwm
        BY <1>0, <3>1 DEF PhantomSpike
      <4>2. ~(balance <= m.hwm)
        BY <1>0, <4>1
      <4> QED
        BY <3>1, <4>2, Zenon DEF CheckDrawdown
    <3>2. CASE ~PhantomSpike(m.hwm, balance)
      <4>1. balance <= m.hwm /\ ~(balance > m.hwm)
        BY <1>0, <1>2, <3>2
      <4> QED
        BY <3>2, <4>1, Zenon DEF CheckDrawdown
    <3> QED
      BY <3>1, <3>2
  <2> SUFFICES Decides(cd, m, cs, balance, flat)
    OBVIOUS
  <2> HIDE DEF cd, now, pct, t
  <2>5. /\ Released(now) \in Rows /\ ~Released(now).tripped /\ Released(now).hwm = m.hwm
        /\ ChainOpened(cs) \in Cooldowns /\ Opens(ChainOpened(cs), cs)
    BY <2>3, RowTypes, RowFields, CooldownTypes, DisarmedFields
  <2>6. /\ ToRow(Released(now), "tiered") \in Writes /\ ToRow(Released(now), "keep") \in Writes
        /\ ToCooldown(ChainOpened(cs)) \in Writes
    BY <2>5, WriteTypes
  <2>7. tiered = t
    <3> DEFINE a == ToCooldown(ChainOpened(cs))
               b == ToRow(Released(now), "tiered")
               c == ToRow(Released(now), "keep")
    <3>1. tiered = <<a, b>> \o <<c>> /\ t = <<a, b, c>>
      BY Zenon DEF TieredReset, t
    <3>2. a \in Writes /\ b \in Writes /\ c \in Writes
      BY <2>6
    <3> HIDE DEF a, b, c
    <3> QED
      BY <3>1, <3>2, Joined
  <2>8. \A n \in Rows : SameTrip(n, m) =>
           /\ Keeps(<<ToRow(n, "keep")>>, n, m) /\ <<ToRow(n, "keep")>> \in Seq(Writes)
    BY WriteTypes, Lists DEF Keeps
  <2>9. CASE cd = Answer(m, <<ToRow(m, "keep")>>, FALSE, pct) /\ PhantomSpike(m.hwm, balance)
    <3>1. Keeps(<<ToRow(m, "keep")>>, m, m) /\ <<ToRow(m, "keep")>> \in Seq(Writes)
      BY <2>8 DEF SameTrip
    <3> QED
      BY <2>2, <2>9, <3>1, AnswerDecides
  <2>10. ASSUME NEW b \in BOOLEAN, now.tripped => b, cd = Answer(now, <<ToRow(now, "keep")>>, b, pct)
         PROVE  Decides(cd, m, cs, balance, flat)
    BY <2>2, <2>3, <2>8, <2>10, AnswerDecides
  <2>11. CASE /\ cd = Answer(Released(now), tiered, FALSE, pct)
              /\ now.tripped /\ ResetDue(now, cs, pct)
    <3>1. /\ t \in Seq(Writes) /\ Len(t) = 3 /\ t[1] = ToCooldown(ChainOpened(cs))
          /\ t[2] = ToRow(Released(now), "tiered") /\ t[3] = ToRow(Released(now), "keep")
      BY <2>6, Lists DEF t
    <3>2. m.tripped /\ m.age >= Early * cs.mult
      <4>1. now.age >= Early * cs.mult
        BY <2>3, <2>11, DueInTime
      <4> QED
        BY <2>3, <2>11, <4>1 DEF SameTrip
    <3>3. GivesBack(t, Released(now), m, cs)
      BY <2>5, <3>1, <3>2 DEF GivesBack
    <3> QED
      BY <2>2, <2>5, <2>7, <2>11, <3>1, <3>3, AnswerDecides
  <2>12. CASE cd = FlatReset(now, cs, balance, w) /\ now.tripped /\ flat
    <3>1. m.tripped /\ flat = TRUE
      BY <2>3, <2>12 DEF SameTrip
    <3> QED
      BY <2>3, <2>12, <3>1, FlatResetDecides
  <2>13. CASE cd = Answer(Tripped(now), Trip(now, cs), TRUE, pct) /\ ~now.tripped
    BY <2>2, <2>3, <2>13, TripDecides DEF SameTrip
  <2> QED
    BY <2>4, <2>9, <2>10, <2>11, <2>12, <2>13
<1> QED
  BY <1>1, <1>2

-----------------------------------------------------------------------------
(* What the steps do to the clocks of the history                           *)

SameClocks(g, h) == g.fired = h.fired /\ g.owed = h.owed /\ g.since = h.since

\* Marks of the history that move no clock.
LEMMA HistoryKept ==
    ASSUME NEW h \in Histories
    PROVE  /\ \A x : LET g == [h EXCEPT !.misread = x]
                     IN  /\ SameClocks(g, h) /\ g.crossed = h.crossed /\ g.bare = h.bare
                         /\ g.fresh = h.fresh
           /\ \A x : LET g == [h EXCEPT !.vetoed = x]
                     IN  /\ SameClocks(g, h) /\ g.crossed = h.crossed /\ g.bare = h.bare
                         /\ g.fresh = h.fresh /\ g.misread = h.misread
           /\ LET g == ScanOver(h)
              IN  SameClocks(g, h) /\ ~g.crossed /\ g.bare = h.bare
BY DEF Histories, SameClocks, ScanOver

\* A step that leaves alone what the machine knows of its trip, and the writes
\* that are to come.
Quiet ==
    /\ row' = row /\ ramp' = ramp /\ todo' = todo
    /\ SameCooldown(cst', cst) /\ SameClocks(hist', hist) /\ hist'.bare = hist.bare
    /\ todo # <<>> => scan' = scan /\ answer' = answer /\ hist'.crossed = hist.crossed
    /\ \/ hist'.crossed = hist.crossed /\ (scan'.at = "idle" => scan.at = "idle")
       \/ ~hist'.crossed /\ scan'.at = "idle"
    /\ scan'.at \in {"research", "checking"} =>
          \/ scan'.mem = row
          \/ scan'.mem = scan.mem /\ scan.at \in {"research", "checking"}

\* A check of the row m, given the reading r, that decides c.
Checks(c, m, r) ==
    /\ r \in Readings /\ todo = <<>> /\ UNCHANGED <<row, cst, ramp>>
    /\ todo' = c.writes /\ answer' = [tripped |-> c.tripped, pct |-> c.pct]
    /\ SameClocks(hist', hist) /\ hist'.bare = hist.bare /\ hist'.fresh = hist.fresh
    /\ hist'.crossed = hist.crossed
    /\ hist'.misread = (hist.misread \/ r.wrong)
    /\ \/ /\ scan.at = "research" /\ scan'.at = "checking" /\ scan'.chosen = scan.chosen
          /\ m = scan.mem /\ scan'.mem = c.mem
          /\ Decides(c, m, cst, r.balance, r.flat)
       \/ /\ scan.at \in {"research", "switched"} /\ scan'.at = "executing" /\ m = row
          /\ scan.chosen # "no" /\ scan'.chosen = scan.chosen /\ scan'.mem = Idle.mem
          /\ Decides(c, m, cst, r.balance, FALSE)

\* What a scan keeps when it moves.
LEMMA ScanMoves ==
    ASSUME NEW s \in Scans
    PROVE  /\ \A p : LET n == [s EXCEPT !.at = p]
                     IN  n.at = p /\ n.mem = s.mem /\ n.chosen = s.chosen
           /\ \A p, m : LET n == [s EXCEPT !.at = p, !.mem = m]
                        IN  n.at = p /\ n.mem = m /\ n.chosen = s.chosen
           /\ \A p, c : LET n == [s EXCEPT !.at = p, !.chosen = c]
                        IN  n.at = p /\ n.mem = s.mem /\ n.chosen = c
BY DEF Scans

\* What the note of a reading leaves of the history.
LEMMA NoteFields ==
    ASSUME TypeOK, NEW r \in Readings, Note(r)
    PROVE  /\ SameClocks(hist', hist) /\ hist'.bare = hist.bare /\ hist'.fresh = hist.fresh
           /\ hist'.crossed = hist.crossed
           /\ hist'.misread = (hist.misread \/ r.wrong)
<1> DEFINE x == hist.misread \/ r.wrong
<1>1. hist \in Histories /\ hist' = [hist EXCEPT !.misread = x] /\ x \in BOOLEAN
  BY Zenon DEF TypeOK, Note
<1> HIDE DEF x
<1>2. hist'.misread = x
  BY <1>1 DEF Histories
<1>3. /\ SameClocks(hist', hist) /\ hist'.crossed = hist.crossed /\ hist'.bare = hist.bare
      /\ hist'.fresh = hist.fresh
  BY <1>1, HistoryKept
<1> QED
  BY <1>2, <1>3 DEF x

\* The check of a candidate is a check of the row the scan holds.
LEMMA PreCheckChecks ==
    ASSUME TypeOK, VetoInv, PreCheck
    PROVE  \E c, m, r : Checks(c, m, r)
<1>1. PICK r \in Readings, gates \in GateReports :
         LET w == [veto |-> veto, gates |-> gates]
             c == CheckDrawdown(scan.mem, cst, r.balance, r.flat, w)
         IN  /\ scan' = [scan EXCEPT !.at = "checking", !.mem = c.mem]
             /\ answer' = [tripped |-> c.tripped, pct |-> c.pct]
             /\ todo' = c.writes
             /\ Note(r)
  BY Zenon DEF PreCheck
<1> DEFINE w == [veto |-> veto, gates |-> gates]
           c == CheckDrawdown(scan.mem, cst, r.balance, r.flat, w)
<1>2. /\ w \in Worlds /\ scan.mem \in Rows /\ cst \in Cooldowns /\ scan \in Scans
      /\ scan.at = "research" /\ todo = <<>> /\ UNCHANGED <<row, cst, ramp>>
  BY DEF TypeOK, Worlds, Scans, PreCheck, At, store, VetoInv
<1>3. Decides(c, scan.mem, cst, r.balance, r.flat)
  BY <1>2, ReadingTypes, CheckDecides
<1>4. /\ scan' = [scan EXCEPT !.at = "checking", !.mem = c.mem]
      /\ answer' = [tripped |-> c.tripped, pct |-> c.pct] /\ todo' = c.writes /\ Note(r)
  BY <1>1
<1> HIDE DEF c
<1>5. scan'.at = "checking" /\ scan'.mem = c.mem /\ scan'.chosen = scan.chosen
  BY <1>2, <1>4, ScanMoves
<1>6. Checks(c, scan.mem, r)
  BY <1>2, <1>3, <1>4, <1>5, NoteFields, Zenon DEF Checks
<1> QED
  BY <1>6

\* The check before the execution is a check of the stored row.
LEMMA ExecCheckChecks ==
    ASSUME TypeOK, VetoInv, ExecCheck
    PROVE  \E c, m, r : Checks(c, m, r)
<1>1. PICK r \in Readings :
         LET w == [veto |-> veto, gates |-> "unreadable"]
             c == CheckDrawdown(row, cst, r.balance, FALSE, w)
         IN  /\ answer' = [tripped |-> c.tripped, pct |-> c.pct]
             /\ todo' = c.writes
             /\ Note(r)
  BY Zenon DEF ExecCheck
<1> DEFINE w == [veto |-> veto, gates |-> "unreadable"]
           c == CheckDrawdown(row, cst, r.balance, FALSE, w)
<1>2. /\ w \in Worlds /\ row \in Rows /\ cst \in Cooldowns /\ Idle \in Scans
      /\ scan.at \in {"research", "switched"} /\ scan.chosen # "no"
      /\ todo = <<>> /\ UNCHANGED <<row, cst, ramp>>
      /\ scan' = [Idle EXCEPT !.at = "executing", !.chosen = scan.chosen]
  BY FreshTypes DEF TypeOK, Worlds, GateReports, ExecCheck, At, store, VetoInv
<1>3. Decides(c, row, cst, r.balance, FALSE)
  BY <1>2, ReadingTypes, CheckDecides
<1>4. answer' = [tripped |-> c.tripped, pct |-> c.pct] /\ todo' = c.writes /\ Note(r)
  BY <1>1
<1> HIDE DEF c
<1>5. scan'.at = "executing" /\ scan'.mem = Idle.mem /\ scan'.chosen = scan.chosen
  BY <1>2, ScanMoves
<1>6. Checks(c, row, r)
  BY <1>2, <1>3, <1>4, <1>5, NoteFields, Zenon DEF Checks
<1> QED
  BY <1>6

\* The steps that are neither a check, a write, a day, a reset nor a death.
LEMMA QuietSteps ==
    ASSUME TypeOK, VetoInv,
           \/ StartScan \/ PreCheckFails \/ Judge \/ Switch \/ Enter \/ Refuse \/ EndScan
           \/ Market \/ SellOut \/ TwoHours \/ Veto \/ UNCHANGED vars
    PROVE  Quiet
<1>0. /\ scan \in Scans /\ Idle \in Scans /\ hist \in Histories /\ cst \in Cooldowns
      /\ todo # <<>> => scan.at \in {"checking", "executing"}
      /\ SameCooldown(cst, cst) /\ SameClocks(hist, hist)
  BY FreshTypes DEF TypeOK, VetoInv, SameCooldown, SameClocks
<1>1. CASE StartScan
  <2>1. /\ scan.at = "idle" /\ todo = <<>> /\ scan'.at = "research" /\ scan'.mem = row
        /\ UNCHANGED <<row, cst, ramp, todo, hist>>
    BY <1>0, <1>1 DEF StartScan, At, store
  <2> QED
    BY <1>0, <2>1 DEF Quiet
<1>2. CASE PreCheckFails
  <2>1. /\ scan.at = "research" /\ todo = <<>> /\ UNCHANGED <<row, cst, ramp, todo>>
        /\ scan' = [scan EXCEPT !.at = "checking"] /\ hist' = [hist EXCEPT !.misread = TRUE]
    BY <1>0, <1>2 DEF PreCheckFails, At, Go, store
  <2>2. scan'.at = "checking" /\ scan'.mem = scan.mem
    BY <1>0, <2>1, ScanMoves
  <2>3. /\ SameClocks(hist', hist) /\ hist'.crossed = hist.crossed /\ hist'.bare = hist.bare
    BY <1>0, <2>1, HistoryKept
  <2> QED
    BY <1>0, <2>1, <2>2, <2>3 DEF Quiet
<1>3. CASE Judge
  <2>1. /\ scan.at = "checking" /\ todo = <<>> /\ UNCHANGED <<row, cst, ramp, todo, hist>>
        /\ \/ \E c : scan' = [scan EXCEPT !.at = "research", !.chosen = c]
           \/ scan' = [scan EXCEPT !.at = "research"]
    BY <1>3, Zenon DEF Judge, At, Go, store
  <2>2. scan'.at = "research" /\ scan'.mem = scan.mem
    <3>1. CASE scan' = [scan EXCEPT !.at = "research"]
      BY <1>0, <3>1, ScanMoves
    <3>2. ASSUME NEW c, scan' = [scan EXCEPT !.at = "research", !.chosen = c]
          PROVE  scan'.at = "research" /\ scan'.mem = scan.mem
      BY <1>0, <3>2, ScanMoves
    <3> QED
      BY <2>1, <3>1, <3>2
  <2> QED
    BY <1>0, <2>1, <2>2 DEF Quiet
<1>4. CASE Switch
  <2>1. /\ scan.at = "research" /\ todo = <<>> /\ UNCHANGED <<row, cst, ramp, todo, hist>>
        /\ scan' = [Idle EXCEPT !.at = "switched", !.chosen = scan.chosen]
    BY <1>0, <1>4 DEF Switch, At, store
  <2>2. scan'.at = "switched"
    BY <1>0, <2>1, ScanMoves
  <2> QED
    BY <1>0, <2>1, <2>2 DEF Quiet
<1>5. CASE Enter \/ Refuse
  <2>1. /\ scan.at = "executing" /\ todo = <<>> /\ UNCHANGED <<row, cst, ramp, todo, hist>>
        /\ scan' = [Idle EXCEPT !.at = "done"]
    BY <1>0, <1>5 DEF Enter, Refuse, At, store
  <2>2. scan'.at = "done"
    BY <1>0, <2>1, ScanMoves
  <2> QED
    BY <1>0, <2>1, <2>2 DEF Quiet
<1>6. CASE EndScan
  <2>1. /\ todo = <<>> /\ UNCHANGED <<row, cst, ramp, todo>>
        /\ scan' = Idle /\ hist' = ScanOver(hist)
    BY <1>0, <1>6 DEF EndScan, store
  <2>2. SameClocks(hist', hist) /\ ~hist'.crossed /\ hist'.bare = hist.bare
    BY <1>0, <2>1, HistoryKept
  <2> QED
    BY <1>0, <2>1, <2>2, FreshTypes DEF Quiet
<1>7. CASE Market \/ SellOut \/ UNCHANGED vars
  <2>1. UNCHANGED <<row, cst, ramp, todo, hist, scan, answer>>
    BY <1>7 DEF Market, SellOut, vars, store
  <2> QED
    BY <1>0, <2>1 DEF Quiet
<1>8. CASE TwoHours
  <2>1. UNCHANGED <<row, ramp, todo, hist, scan, answer>>
    BY <1>8 DEF TwoHours
  <2>2. \E a : cst' = [cst EXCEPT !.armed = a]
    BY <1>8, Zenon DEF TwoHours
  <2>3. SameCooldown(cst', cst)
    BY <1>0, <2>2 DEF SameCooldown, Cooldowns
  <2> QED
    BY <1>0, <2>1, <2>3 DEF Quiet
<1>9. CASE Veto
  <2>1. UNCHANGED <<row, cst, ramp, todo, scan, answer>>
    BY <1>9 DEF Veto
  <2>2. \E v : hist' = [hist EXCEPT !.vetoed = v]
    BY <1>9, Zenon DEF Veto
  <2>3. SameClocks(hist', hist) /\ hist'.crossed = hist.crossed /\ hist'.bare = hist.bare
    BY <1>0, <2>2, HistoryKept
  <2> QED
    BY <1>0, <2>1, <2>3 DEF Quiet
<1> QED
  BY <1>1, <1>2, <1>3, <1>4, <1>5, <1>6, <1>7, <1>8, <1>9

\* Every step is of one of six kinds.
LEMMA StepKinds ==
    ASSUME TypeOK, VetoInv, [Next]_vars
    PROVE  Quiet \/ (\E c, m, r : Checks(c, m, r)) \/ Write \/ Day \/ Reset \/ Die
<1>1. \/ \/ StartScan \/ PreCheckFails \/ Judge \/ Switch \/ Enter \/ Refuse \/ EndScan
         \/ Market \/ SellOut \/ TwoHours \/ Veto \/ UNCHANGED vars
      \/ PreCheck \/ ExecCheck \/ Write \/ Day \/ Reset \/ Die
  BY DEF Next
<1> QED
  BY <1>1, QuietSteps, PreCheckChecks, ExecCheckChecks, Zenon

\* A day only grows the ages.
LEMMA DayFields ==
    ASSUME TypeOK, VetoInv, Day
    PROVE  /\ scan.at = "idle" /\ todo = <<>> /\ UNCHANGED <<scan, todo, answer>>
           /\ row'.tripped = row.tripped /\ row'.hwm = row.hwm /\ row'.age <= row.age + 1
           /\ cst'.mult = cst.mult /\ cst'.disabled = cst.disabled
           /\ cst'.chain = Min({cst.chain + 1, Chain}) /\ cst'.flat = Min({cst.flat + 1, Retrip})
           /\ ramp' = Max({ramp - 1, 0})
           /\ hist'.fired = Min({hist.fired + 1, FireWindow})
           /\ hist'.since = Min({hist.since + 1, Chain}) /\ hist'.owed = hist.owed
           /\ hist'.bare = (hist.bare /\ hist.fired + 1 < RampDays)
           /\ hist'.crossed = hist.crossed
<1>0. /\ row \in Rows /\ cst \in Cooldowns /\ hist \in Histories /\ scan.at = "idle"
      /\ todo = <<>> /\ UNCHANGED <<scan, todo, answer>> /\ ramp' = Max({ramp - 1, 0})
  BY DEF TypeOK, VetoInv, Day, At
<1>1. row'.tripped = row.tripped /\ row'.hwm = row.hwm /\ row'.age <= row.age + 1
  <2> DEFINE age == IF row.tripped THEN Min({row.age + 1, MaxAge}) ELSE 0
  <2>1. age <= row.age + 1 /\ age \in Nat
    BY <1>0, MaxAgeType, MinOfTwo DEF Rows
  <2>2. row' = [row EXCEPT !.age = age]
    BY Zenon DEF Day, OlderRow
  <2> HIDE DEF age
  <2> QED
    BY <1>0, <2>1, <2>2 DEF Rows
<1>2. /\ cst'.mult = cst.mult /\ cst'.disabled = cst.disabled
      /\ cst'.chain = Min({cst.chain + 1, Chain}) /\ cst'.flat = Min({cst.flat + 1, Retrip})
  BY <1>0 DEF Day, OlderCooldown, Cooldowns
<1>3. /\ hist'.fired = Min({hist.fired + 1, FireWindow})
      /\ hist'.since = Min({hist.since + 1, Chain}) /\ hist'.owed = hist.owed
      /\ hist'.crossed = hist.crossed
  <2>1. hist' = [hist EXCEPT !.fired = Min({@ + 1, FireWindow}),
                            !.since = Min({@ + 1, Chain}),
                            !.bare = @ /\ hist.fired + 1 < RampDays]
    BY DEF Day
  <2> QED
    BY <1>0, <2>1, Zenon DEF Histories
<1>4. hist'.bare = (hist.bare /\ hist.fired + 1 < RampDays)
  <2>1. hist' = [hist EXCEPT !.fired = Min({@ + 1, FireWindow}),
                            !.since = Min({@ + 1, Chain}),
                            !.bare = @ /\ hist.fired + 1 < RampDays]
    BY DEF Day
  <2> QED
    BY <1>0, <2>1, Zenon DEF Histories
<1> QED
  BY <1>0, <1>1, <1>2, <1>3, <1>4

\* What a reset by a person leaves.
LEMMA ResetFields ==
    ASSUME TypeOK, Reset
    PROVE  /\ row' = Untripped(equity) /\ row'.tripped = FALSE /\ row'.hwm = equity
           /\ UNCHANGED <<scan, todo, answer>> /\ ramp' = 0
           /\ cst'.mult = 1 /\ cst'.chain = 0 /\ cst'.flat = Retrip /\ cst'.disabled = FALSE
           /\ hist'.fired = FireWindow /\ hist'.owed = 1
           /\ hist'.since = IF todo = <<>> THEN 0 ELSE Chain
           /\ hist'.bare = FALSE /\ (hist'.crossed <=> scan.at # "idle")
<1>0. /\ cst \in Cooldowns /\ hist \in Histories
      /\ row' = Untripped(equity) /\ cst' = ManualReset(cst)
      /\ UNCHANGED <<scan, todo, answer>> /\ ramp' = 0
  BY DEF TypeOK, Reset
<1>1. row'.tripped = FALSE /\ row'.hwm = equity
  BY <1>0 DEF Untripped
<1>2. cst'.mult = 1 /\ cst'.chain = 0 /\ cst'.flat = Retrip /\ cst'.disabled = FALSE
  BY <1>0 DEF ManualReset, Disarmed, Cooldowns
<1>3. hist' = [hist EXCEPT !.fired = FireWindow, !.owed = 1,
                           !.since = IF todo = <<>> THEN 0 ELSE Chain,
                           !.vetoed = FALSE, !.bare = FALSE, !.crossed = ~At("idle")]
  BY DEF Reset
<1>4. /\ hist'.fired = FireWindow /\ hist'.owed = 1
      /\ hist'.since = IF todo = <<>> THEN 0 ELSE Chain
      /\ hist'.bare = FALSE
  BY <1>0, <1>3 DEF Histories
<1>5. hist'.crossed <=> scan.at # "idle"
  BY <1>0, <1>3 DEF Histories, At
<1> QED
  BY <1>0, <1>1, <1>2, <1>4, <1>5

\* What a death of the scan leaves.
LEMMA DieFields ==
    ASSUME TypeOK, Die
    PROVE  /\ UNCHANGED <<row, cst, ramp>> /\ todo' = <<>> /\ answer' = NoAnswer
           /\ scan' = Idle /\ scan'.at = "idle"
           /\ SameClocks(hist', hist) /\ hist'.crossed = FALSE
           /\ hist'.bare = (hist.bare \/ todo = <<ToRamp>> \/ todo = <<ToRamp, ToRow(scan.mem, "keep")>>)
<1>0. /\ hist \in Histories /\ UNCHANGED <<row, cst, ramp>> /\ todo' = <<>> /\ answer' = NoAnswer
      /\ scan' = Idle /\ scan'.at = "idle"
  BY FreshTypes DEF TypeOK, Die, store
<1> DEFINE h == ScanOver(hist)
           bare == h.bare \/ todo = <<ToRamp>> \/ todo = <<ToRamp, ToRow(scan.mem, "keep")>>
           v == h.vetoed /\ (veto \/ cst.disabled)
<1>1. hist' = [h EXCEPT !.vetoed = v, !.bare = bare]
  BY Zenon DEF Die
<1>2. h \in Histories /\ SameClocks(h, hist) /\ h.bare = hist.bare /\ h.crossed = FALSE
  <2>1. h \in Histories
    BY <1>0, HistoryFlags, Zenon
  <2>2. SameClocks(h, hist) /\ h.bare = hist.bare /\ ~h.crossed
    BY <1>0, HistoryKept
  <2> HIDE DEF h
  <2> QED
    BY <2>1, <2>2 DEF Histories
<1>3. bare \in BOOLEAN
  BY <1>2 DEF Histories
<1> HIDE DEF h, v
<1>4. bare = (hist.bare \/ todo = <<ToRamp>> \/ todo = <<ToRamp, ToRow(scan.mem, "keep")>>)
  BY <1>2
<1> HIDE DEF bare
<1>5. SameClocks(hist', hist) /\ hist'.crossed = FALSE /\ hist'.bare = bare
  BY <1>1, <1>2, <1>3 DEF Histories, SameClocks
<1> QED
  BY <1>0, <1>4, <1>5

\* What the write of a row does to the history.
RowHistory(w, g, h) ==
    \/ /\ w.why = "trip" /\ ~row.tripped
       /\ g.fired = h.fired /\ g.since = h.since /\ g.bare = h.bare /\ g.crossed = h.crossed
       /\ g.misread = h.misread /\ g.fresh
       /\ g.owed = IF h.since < Chain /\ ~h.crossed THEN Min({2 * h.owed, Cap}) ELSE 1
    \/ /\ w.why = "tiered" /\ row.tripped
       /\ g.fired = h.fired /\ g.since = 0 /\ g.owed = h.owed /\ g.bare = h.bare
       /\ g.crossed = h.crossed /\ g.misread = h.misread /\ g.fresh = h.fresh
    \/ /\ w.why = "fire" /\ row.tripped
       /\ g.fired = 0 /\ g.since = 0 /\ g.owed = h.owed /\ g.bare = FALSE
       /\ g.crossed = h.crossed /\ g.misread = h.misread /\ g.fresh = h.fresh
    \/ /\ g = h /\ ~(w.why = "trip" /\ ~row.tripped)
       /\ ~(w.why \in {"tiered", "fire"} /\ row.tripped)

\* The write of a row marks the history as RowHistory says.
LEMMA RowHistoryOf ==
    ASSUME TypeOK, NEW w, WriteRow(w)
    PROVE  RowHistory(w, hist', hist)
<1>0. hist \in Histories
  BY DEF TypeOK
<1>1. CASE w.why = "trip" /\ ~row.tripped
  <2> DEFINE owed == IF hist.since < Chain /\ ~hist.crossed THEN Min({2 * hist.owed, Cap}) ELSE 1
  <2>1. hist' = [hist EXCEPT !.owed = owed, !.vetoed = FALSE, !.fresh = TRUE]
    BY <1>1, Zenon DEF WriteRow
  <2>2. /\ hist'.fired = hist.fired /\ hist'.since = hist.since /\ hist'.bare = hist.bare
        /\ hist'.crossed = hist.crossed /\ hist'.misread = hist.misread /\ hist'.fresh
        /\ hist'.owed = owed
    <3> HIDE DEF owed
    <3> QED
      BY <1>0, <2>1 DEF Histories
  <2> QED
    BY <1>1, <2>2 DEF RowHistory
<1>2. CASE w.why = "tiered" /\ row.tripped
  <2>1. hist' = [hist EXCEPT !.since = 0, !.vetoed = FALSE]
    BY <1>2 DEF WriteRow
  <2>2. /\ hist'.fired = hist.fired /\ hist'.since = 0 /\ hist'.owed = hist.owed
        /\ hist'.bare = hist.bare /\ hist'.crossed = hist.crossed
        /\ hist'.misread = hist.misread /\ hist'.fresh = hist.fresh
    BY <1>0, <2>1 DEF Histories
  <2> QED
    BY <1>2, <2>2 DEF RowHistory
<1>3. CASE w.why = "fire" /\ row.tripped
  <2>1. hist' = [hist EXCEPT !.since = 0, !.fired = 0, !.bare = FALSE, !.vetoed = FALSE]
    BY <1>3 DEF WriteRow
  <2>2. /\ hist'.fired = 0 /\ hist'.since = 0 /\ hist'.owed = hist.owed
        /\ hist'.bare = FALSE /\ hist'.crossed = hist.crossed
        /\ hist'.misread = hist.misread /\ hist'.fresh = hist.fresh
    BY <1>0, <2>1 DEF Histories
  <2> QED
    BY <1>3, <2>2 DEF RowHistory
<1>4. CASE ~(w.why = "trip" /\ ~row.tripped) /\ ~(w.why \in {"tiered", "fire"} /\ row.tripped)
  <2>1. hist' = hist
    BY <1>4, Zenon DEF WriteRow
  <2> QED
    BY <1>4, <2>1 DEF RowHistory
<1> QED
  BY <1>1, <1>2, <1>3, <1>4

\* The first of the outstanding writes is done.
LEMMA WriteFields ==
    ASSUME TypeOK, VetoInv, Write
    PROVE  LET w == todo[1]
           IN  /\ Len(todo) \in Nat /\ Len(todo) > 0 /\ todo' \in Seq(Writes) /\ w \in Writes
               /\ Len(todo') = Len(todo) - 1 /\ todo' = Tail(todo)
               /\ \A i \in 1 .. Len(todo') : todo'[i] = todo[i + 1]
               /\ UNCHANGED <<scan, answer>>
               /\ scan.at \in {"checking", "executing"}
               /\ Shaped(todo, row.tripped, hist.vetoed, veto,
                         scan.at = "checking" => scan.mem.tripped)
               /\ \/ /\ w.to = "row" /\ row' = w.val /\ row' \in Rows
                     /\ UNCHANGED <<cst, ramp>> /\ RowHistory(w, hist', hist)
                  \/ /\ w.to = "cst" /\ cst' = w.val /\ cst' \in Cooldowns
                     /\ UNCHANGED <<row, ramp, hist>>
                  \/ /\ w.to = "ramp" /\ ramp' = RampDays
                     /\ UNCHANGED <<row, cst, hist>>
                  \/ /\ w.to = "veto" /\ UNCHANGED <<row, cst, ramp, hist>>
<1> DEFINE w == todo[1]
<1>1. todo \in Seq(Writes) /\ todo # <<>> /\ todo' = Tail(todo) /\ UNCHANGED <<scan, answer>>
  BY DEF TypeOK, Write
<1>2. /\ Len(todo) \in Nat /\ Len(todo) > 0 /\ Len(todo') = Len(todo) - 1
      /\ todo' \in Seq(Writes) /\ w \in Writes /\ Head(todo) = w
      /\ \A i \in 1 .. Len(todo') : todo'[i] = todo[i + 1]
  BY <1>1
<1>3. /\ scan.at \in {"checking", "executing"}
      /\ Shaped(todo, row.tripped, hist.vetoed, veto, scan.at = "checking" => scan.mem.tripped)
  BY <1>1 DEF VetoInv
<1>4. WriteRow(w) \/ WriteCooldown(w) \/ SetRamp(w) \/ ConsumeVeto(w)
  BY <1>2 DEF Write
<1> HIDE DEF w
<1>5. \/ /\ w.to = "row" /\ row' = w.val /\ row' \in Rows
         /\ UNCHANGED <<cst, ramp>> /\ RowHistory(w, hist', hist)
      \/ /\ w.to = "cst" /\ cst' = w.val /\ cst' \in Cooldowns
         /\ UNCHANGED <<row, ramp, hist>>
      \/ /\ w.to = "ramp" /\ ramp' = RampDays
         /\ UNCHANGED <<row, cst, hist>>
      \/ /\ w.to = "veto" /\ UNCHANGED <<row, cst, ramp, hist>>
  <2>1. CASE WriteRow(w)
    <3>1. RowHistory(w, hist', hist)
      BY <2>1, RowHistoryOf
    <3> QED
      BY <1>2, <2>1, <3>1, WriteOf DEF WriteRow
  <2>2. CASE WriteCooldown(w)
    BY <1>2, <2>2, WriteOf DEF WriteCooldown
  <2>3. CASE SetRamp(w)
    BY <2>3 DEF SetRamp
  <2>4. CASE ConsumeVeto(w)
    BY <2>4 DEF ConsumeVeto
  <2> QED
    BY <1>4, <2>1, <2>2, <2>3, <2>4
<1> QED
  BY <1>1, <1>2, <1>3, <1>5 DEF w

-----------------------------------------------------------------------------
(* The row in memory and the row in the store                               *)

IsFiring(w) == w.to = "ramp" \/ IsRow(w, "fire")

\* The row a scan holds is the stored one, or will be when its writes are done,
\* unless a person's reset came in between; only then does a write that keeps a
\* trip store one.  A flat reset is the work of a check that lets its candidate
\* through.
TwinInv ==
    /\ todo = <<>> /\ scan.at \in {"research", "checking"} =>
          scan.mem = row \/ (hist.crossed /\ ~row.tripped /\ hist.fired = FireWindow)
    /\ todo # <<>> /\ scan.at = "checking" =>
          todo[Len(todo)].to = "row" /\ todo[Len(todo)].val = scan.mem
    /\ \A i \in 1 .. Len(todo) : IsFiring(todo[i]) =>
          scan.at = "checking" /\ ~answer.tripped /\ answer.pct = 0
    /\ \A i \in 1 .. Len(todo) : IsRow(todo[i], "keep") /\ todo[i].val.tripped =>
          row.tripped \/ hist.crossed

\* What the writes a check leaves have in common.
LEMMA DecidesEntries ==
    ASSUME NEW c, NEW m, NEW cs, NEW balance, NEW flat, Decides(c, m, cs, balance, flat)
    PROVE  LET t == c.writes
           IN  /\ t \in Seq(Writes) /\ Len(t) \in 1 .. 4
               /\ t[Len(t)].to = "row" /\ t[Len(t)].val = c.mem
               /\ \A i \in 1 .. Len(t) :
                     /\ IsFiring(t[i]) => ~c.tripped /\ c.pct = 0 /\ flat
                     /\ IsRow(t[i], "keep") /\ t[i].val.tripped => m.tripped
<1> DEFINE t == c.writes
           n == c.mem
<1>0. t \in Seq(Writes)
  BY DEF Decides
<1> HIDE DEF t, n
<1>1. CASE Keeps(t, n, m)
  BY <1>0, <1>1 DEF Keeps, SameTrip, ToRow, IsFiring, IsRow, t, n
<1>2. CASE Notes(t, n, m, cs)
  BY <1>0, <1>2 DEF Notes, SameTrip, ToRow, ToCooldown, IsFiring, IsRow, t, n
<1>3. CASE Disables(t, n, m, cs)
  BY <1>0, <1>3 DEF Disables, SameTrip, ToRow, ToCooldown, EatVeto, IsFiring, IsRow, t, n
<1>4. CASE GivesBack(t, n, m, cs)
  BY <1>0, <1>4 DEF GivesBack, SameTrip, ToRow, ToCooldown, IsFiring, IsRow, t, n
<1>5. CASE GivesBackAtPeak(t, n, m, cs)
  BY <1>0, <1>5 DEF GivesBackAtPeak, SameTrip, ToRow, ToCooldown, IsFiring, IsRow, t, n
<1>6. CASE Fires(t, n, m, cs) /\ ~c.tripped /\ c.pct = 0 /\ flat
  BY <1>0, <1>6 DEF Fires, SameTrip, ToRow, ToCooldown, ToRamp, IsFiring, IsRow, t, n
<1>7. CASE Trips(t, n, m, cs)
  BY <1>0, <1>7 DEF Trips, SameTrip, ToRow, ToCooldown, IsFiring, IsRow, t, n
<1> QED
  BY <1>1, <1>2, <1>3, <1>4, <1>5, <1>6, <1>7 DEF Decides, t, n

\* What may follow the first of the outstanding writes.
LEMMA WriteOrder ==
    ASSUME NEW t \in Seq(Writes), NEW stored, NEW vetoed, NEW kept, NEW mem,
           Shaped(t, stored, vetoed, kept, mem)
    PROVE  /\ t[1].to = "row" =>
                 \/ t[1].why = "keep" /\ Len(t) = 1
                 \/ t[1].why = "keep" /\ Len(t) = 3 /\ IsCst(t[2]) /\ IsRow(t[3], "tiered")
                 \/ t[1].why = "tiered" /\ ~t[1].val.tripped /\ Len(t) = 1
                 \/ /\ t[1].why = "tiered" /\ ~t[1].val.tripped
                    /\ Len(t) = 2 /\ IsRow(t[2], "keep") /\ ~t[2].val.tripped
                 \/ /\ t[1].why = "fire" /\ ~t[1].val.tripped
                    /\ Len(t) = 3 /\ t[2].to = "ramp" /\ IsRow(t[3], "keep") /\ ~t[3].val.tripped
                 \/ t[1].why = "trip" /\ Len(t) = 1 /\ ~stored
           /\ t[1].to = "cst" => Len(t) > 1 /\ t[2].to = "row" /\ (t[2].why = "trip" => ~stored)
           /\ t[1].to = "ramp" => Len(t) = 2 /\ IsRow(t[2], "keep") /\ ~t[2].val.tripped /\ ~stored
           /\ t[1].to = "veto" => Len(t) = 3 /\ IsCst(t[2]) /\ IsRow(t[3], "keep")
BY DEF Shaped, IsRow, IsCst

\* A fresh scan holds nothing, and no write is outstanding.
THEOREM InitTwinInv == Init => TwinInv
BY FreshTypes DEF Init, TwinInv

\* A write keeps the row in memory the twin of the stored one.
LEMMA WriteTwin ==
    ASSUME TypeOK, VetoInv, TwinInv, Write
    PROVE  TwinInv'
<1>0. /\ Len(todo) \in Nat /\ Len(todo) > 0 /\ todo' \in Seq(Writes)
      /\ Len(todo') = Len(todo) - 1
      /\ \A i \in 1 .. Len(todo') : todo'[i] = todo[i + 1]
      /\ UNCHANGED <<scan, answer>>
      /\ todo[1].to = "row" => row' = todo[1].val
      /\ scan.at \in {"checking", "executing"}
  BY WriteFields
<1>6. /\ todo \in Seq(Writes)
      /\ Shaped(todo, row.tripped, hist.vetoed, veto, scan.at = "checking" => scan.mem.tripped)
      /\ todo[1].to # "row" => UNCHANGED <<row, hist>>
  BY WriteFields DEF TypeOK
<1>1. scan.at = "checking" => todo[Len(todo)].to = "row" /\ todo[Len(todo)].val = scan.mem
  BY <1>0 DEF TwinInv
<1>2. todo' = <<>> /\ scan'.at \in {"research", "checking"} => scan'.mem = row'
  <2>1. todo' = <<>> => Len(todo) = 1
    BY <1>0, EmptySeq
  <2> QED
    BY <1>0, <1>1, <2>1
<1>3. todo' # <<>> /\ scan'.at = "checking" =>
         todo'[Len(todo')].to = "row" /\ todo'[Len(todo')].val = scan'.mem
  BY <1>0, <1>1
<1>4. \A i \in 1 .. Len(todo') : IsFiring(todo'[i]) =>
         scan'.at = "checking" /\ ~answer'.tripped /\ answer'.pct = 0
  BY <1>0 DEF TwinInv
<1>5. \A i \in 1 .. Len(todo') : IsRow(todo'[i], "keep") /\ todo'[i].val.tripped =>
         row'.tripped \/ hist'.crossed
  <2> SUFFICES ASSUME NEW i \in 1 .. Len(todo'), IsRow(todo'[i], "keep"), todo'[i].val.tripped
               PROVE  row'.tripped \/ hist'.crossed
    OBVIOUS
  <2>1. /\ i + 1 \in 1 .. Len(todo) /\ todo'[i] = todo[i + 1]
        /\ row.tripped \/ hist.crossed
    BY <1>0 DEF TwinInv
  <2>2. CASE todo[1].to = "row"
    <3>1. \/ Len(todo) = 1
          \/ Len(todo) = 2 /\ ~todo[2].val.tripped
          \/ Len(todo) = 3 /\ IsCst(todo[2]) /\ IsRow(todo[3], "tiered")
          \/ Len(todo) = 3 /\ todo[2].to = "ramp" /\ ~todo[3].val.tripped
      BY <1>6, <2>2, WriteOrder
    <3>2. IsRow(todo[i + 1], "keep") /\ todo[i + 1].val.tripped
      BY <2>1
    <3>3. i + 1 # 1 /\ i + 1 \in 1 .. Len(todo)
      BY <2>1
    <3> DEFINE j == i + 1
    <3> HIDE DEF j
    <3> QED
      BY <3>1, <3>2, <3>3 DEF IsRow, IsCst, j
  <2>3. CASE todo[1].to # "row"
    BY <2>1, <2>3, <1>6
  <2> QED
    BY <2>2, <2>3
<1> QED
  BY <1>2, <1>3, <1>4, <1>5, Zenon DEF TwinInv, IsFiring, IsRow

\* Every step keeps the row in memory the twin of the stored one.
THEOREM NextTwinInv == TypeOK /\ VetoInv /\ TwinInv /\ [Next]_vars => TwinInv'
<1> SUFFICES ASSUME TypeOK, VetoInv, TwinInv, [Next]_vars PROVE TwinInv'
  OBVIOUS
<1>1. CASE Quiet
  BY <1>1 DEF Quiet, TwinInv, IsFiring, IsRow, SameClocks
<1>2. ASSUME NEW c, NEW m, NEW r, Checks(c, m, r) PROVE TwinInv'
  <2>1. /\ todo' = c.writes /\ answer' = [tripped |-> c.tripped, pct |-> c.pct]
        /\ \/ /\ scan'.at = "checking" /\ scan'.mem = c.mem
              /\ Decides(c, m, cst, r.balance, r.flat)
           \/ scan'.at = "executing" /\ Decides(c, m, cst, r.balance, FALSE)
    BY <1>2 DEF Checks
  <2>2. /\ todo' \in Seq(Writes) /\ Len(todo') \in 1 .. 4
        /\ todo'[Len(todo')].to = "row" /\ todo'[Len(todo')].val = c.mem
        /\ \A i \in 1 .. Len(todo') : IsFiring(todo'[i]) => ~c.tripped /\ c.pct = 0
        /\ scan'.at = "executing" => \A i \in 1 .. Len(todo') : ~IsFiring(todo'[i])
    BY <2>1, DecidesEntries
  <2>3. answer'.tripped = c.tripped /\ answer'.pct = c.pct
    BY <2>1
  <2>7. \A i \in 1 .. Len(todo') : IsRow(todo'[i], "keep") /\ todo'[i].val.tripped =>
           row'.tripped \/ hist'.crossed
    <3>1. m.tripped => row.tripped \/ hist.crossed
      BY <1>2 DEF Checks, TwinInv
    <3>2. \A i \in 1 .. Len(c.writes) :
             IsRow(c.writes[i], "keep") /\ c.writes[i].val.tripped => m.tripped
      <4>1. CASE Decides(c, m, cst, r.balance, r.flat)
        BY <4>1, DecidesEntries
      <4>2. CASE Decides(c, m, cst, r.balance, FALSE)
        BY <4>2, DecidesEntries
      <4> QED
        BY <2>1, <4>1, <4>2
    <3>3. row' = row /\ hist'.crossed = hist.crossed
      BY <1>2 DEF Checks
    <3> QED
      BY <2>1, <3>1, <3>2, <3>3
  <2>4. \A i \in 1 .. Len(todo') : IsFiring(todo'[i]) =>
           scan'.at = "checking" /\ ~answer'.tripped /\ answer'.pct = 0
    BY <2>1, <2>2, <2>3
  <2>5. todo' # <<>>
    <3>1. Len(todo') \in 1 .. 4
      BY <2>2, Zenon
    <3> QED
      BY <3>1
  <2>6. /\ scan'.at = "checking" => scan'.mem = c.mem
        /\ scan'.at \in {"checking", "executing"}
    BY <2>1
  <2> QED
    BY <2>2, <2>4, <2>5, <2>6, <2>7 DEF TwinInv, IsFiring, IsRow
<1>3. CASE Write
  BY <1>3, WriteTwin
<1>4. CASE Day
  BY <1>4, DayFields DEF TwinInv
<1>5. CASE Reset
  <2>1. /\ row'.tripped = FALSE /\ UNCHANGED <<scan, todo, answer>>
        /\ hist'.fired = FireWindow /\ (hist'.crossed <=> scan.at # "idle")
        /\ todo # <<>> => scan.at # "idle"
    BY <1>5, ResetFields DEF VetoInv
  <2>2. \A i \in 1 .. Len(todo) : hist'.crossed
    <3>1. Len(<<>>) = 0
      OBVIOUS
    <3> QED
      BY <2>1, <3>1
  <2> QED
    BY <2>1, <2>2 DEF TwinInv, IsFiring, IsRow
<1>6. CASE Die
  <2>1. todo' = <<>> /\ scan'.at = "idle" /\ Len(todo') = 0
    BY <1>6, DieFields
  <2> QED
    BY <2>1 DEF TwinInv
<1> QED
  BY <1>1, <1>2, <1>3, <1>4, <1>5, <1>6, StepKinds

\* The row a scan checks with is the stored one, unless a person reset it meanwhile.
THEOREM TwinInvariant == Spec => []TwinInv
BY InitTwinInv, NextTwinInv, TypeCorrect, VetoInvariant, PTL DEF Spec

-----------------------------------------------------------------------------
(* The cooldown a trip has earned                                           *)

\* The multiplier c has is the one the next trip will owe.
Doubled(c, h) == h.since < Chain /\ ~h.crossed => Min({2 * h.owed, Cap}) <= c.mult

\* A cooldown state c that is to be stored ahead of the write w.
CooldownEarned(c, w, h) ==
    /\ c.chain <= h.since
    /\ IF w.why = "trip" THEN Doubled(c, h) ELSE h.owed <= c.mult
    /\ w.why \in {"tiered", "fire"} => c.chain = 0

ReleaseEarned(w, r, h) ==
    /\ IsRow(w, "tiered") /\ r.tripped => r.age >= Early * h.owed
    /\ IsRow(w, "fire") /\ r.tripped => r.age >= G1Days

EarnedWrites(t, r, h) ==
    \A i \in 1 .. Len(t) :
        /\ ReleaseEarned(t[i], r, h)
        /\ IsCst(t[i]) => i < Len(t) /\ CooldownEarned(t[i].val, t[i + 1], h)
        /\ IsRow(t[i], "keep") /\ i < Len(t) => t[i].val.age >= Early * h.owed

EarnedHead(w, r, c, h) ==
    /\ IsRow(w, "trip") => Doubled(c, h)
    /\ (IsRow(w, "tiered") \/ IsRow(w, "fire")) /\ r.tripped => c.chain = 0

EarnedStore(r, c, h) ==
    /\ c.chain <= h.since
    /\ h.owed <= c.mult \/ (h.since >= Chain /\ ~r.tripped)
    /\ h.crossed => h.owed = 1

\* The multiplier in the store, or on its way there, is never below the one the
\* history owes, and a release that is to come respects it.
EarnedInv ==
    /\ EarnedStore(row, cst, hist)
    /\ hist.crossed => scan.at # "idle"
    /\ todo # <<>> => EarnedHead(todo[1], row, cst, hist)
    /\ EarnedWrites(todo, row, hist)

\* A larger multiplier is a longer cooldown, doubled or not.
LEMMA Doubling ==
    ASSUME NEW a \in 1 .. Cap, NEW b \in 1 .. Cap, a <= b
    PROVE  /\ Min({2 * a, Cap}) <= Min({2 * b, Cap}) /\ a <= Min({2 * a, Cap})
           /\ Early * a <= Early * b /\ Early * a \in Nat /\ Early * b \in Nat
<1>1. Min({2 * a, Cap}) <= Min({2 * b, Cap}) /\ a <= Min({2 * a, Cap})
  BY MinOfTwo, DurationsAssumption
<1>2. \A k, x, y \in Nat : x <= y => k * x <= k * y /\ k * x \in Nat /\ k * y \in Nat
  OBVIOUS
<1>3. Early \in Nat /\ a \in Nat /\ b \in Nat
  BY DurationsAssumption
<1> QED
  BY <1>1, <1>2, <1>3

\* The types the cooldown argument needs.
LEMMA EarnedTypes ==
    ASSUME TypeOK
    PROVE  /\ row.age \in Nat /\ cst.mult \in 1 .. Cap /\ cst.chain \in 0 .. Chain
           /\ hist.since \in 0 .. Chain /\ hist.owed \in 1 .. Cap
           /\ \A i \in 1 .. Len(todo) : /\ todo[i] \in Writes
                                        /\ IsCst(todo[i]) => todo[i].val \in Cooldowns
                                        /\ todo[i].to = "row" => todo[i].val \in Rows
<1>1. row \in Rows /\ cst \in Cooldowns /\ hist \in Histories /\ todo \in Seq(Writes)
  BY DEF TypeOK
<1>2. \A i \in 1 .. Len(todo) : todo[i] \in Writes
  BY <1>1
<1>3. row.age \in Nat
  BY <1>1, MaxAgeType DEF Rows
<1> QED
  BY <1>1, <1>2, <1>3, WriteOf DEF Cooldowns, Histories, IsCst

\* A check leaves writes that respect what the history owes.
LEMMA CheckEarned ==
    ASSUME TypeOK, TwinInv, EarnedInv, NEW c, NEW m, NEW r, Checks(c, m, r)
    PROVE  EarnedInv'
<1> DEFINE t == c.writes
           n == c.mem
<1>0. /\ row.age \in Nat /\ cst.mult \in 1 .. Cap /\ cst.chain \in 0 .. Chain
      /\ hist.since \in 0 .. Chain /\ hist.owed \in 1 .. Cap /\ cst \in Cooldowns
  BY EarnedTypes DEF TypeOK
<1>1. /\ todo = <<>> /\ row' = row /\ cst' = cst /\ todo' = t /\ SameClocks(hist', hist)
      /\ hist'.crossed = hist.crossed /\ scan'.at # "idle"
      /\ \E flat : Decides(c, m, cst, r.balance, flat)
  BY DEF Checks
<1>2. m.tripped => m = row \/ (hist.crossed /\ ~row.tripped)
  BY DEF Checks, TwinInv
<1>3. EarnedStore(row, cst, hist)
  BY DEF EarnedInv
<1>4. m.tripped => hist.owed <= cst.mult
  BY <1>0, <1>2, <1>3 DEF EarnedStore
<1>6. m.age \in Nat
  <2>1. row \in Rows /\ scan.mem \in Rows
    BY DEF TypeOK, Scans
  <2>2. m \in Rows
    BY <2>1 DEF Checks
  <2> QED
    BY <2>2, MaxAgeType DEF Rows
<1>5. m.tripped /\ m.age >= Early * cst.mult => m.age >= Early * hist.owed
  <2> SUFFICES ASSUME m.tripped, m.age >= Early * cst.mult
               PROVE  m.age >= Early * hist.owed
    OBVIOUS
  <2> DEFINE x == Early * hist.owed
             y == Early * cst.mult
  <2>1. x <= y /\ x \in Nat /\ y \in Nat
    BY <1>0, <1>4, Doubling
  <2>2. m.age >= y
    OBVIOUS
  <2> HIDE DEF x, y
  <2>3. m.age >= x
    BY <1>6, <2>1, <2>2
  <2> QED
    BY <2>3 DEF x
<1> HIDE DEF t, n
<1>7. /\ SameTrip(n, m) => n.age = m.age
      /\ \A k \in Cooldowns : ToCooldown(k).to = "cst" /\ ToCooldown(k).val = k
      /\ \A p, why : ToRow(p, why).to = "row" /\ ToRow(p, why).val = p /\ ToRow(p, why).why = why
      /\ ToRamp.to = "ramp" /\ EatVeto.to = "veto"
  BY DEF SameTrip, ToRow, ToCooldown, ToRamp, EatVeto
<1> DEFINE Earned == EarnedHead(t[1], row, cst, hist) /\ EarnedWrites(t, row, hist)
<1>8. cst.chain <= hist.since
  BY <1>3 DEF EarnedStore
<1>9. ASSUME Keeps(t, n, m)
      PROVE  Earned
  <2>1. Len(t) = 1 /\ t[1].to = "row" /\ t[1].why = "keep"
    BY <1>7, <1>9 DEF Keeps
  <2> QED
    BY <2>1 DEF EarnedHead, EarnedWrites, ReleaseEarned, IsRow, IsCst
<1>10. ASSUME Notes(t, n, m, cst)
       PROVE  Earned
  <2>1. /\ Len(t) = 2 /\ t[1].to = "cst" /\ t[2].to = "row" /\ t[2].why = "keep"
        /\ t[1].val.mult = cst.mult /\ t[1].val.chain = cst.chain /\ m.tripped
    BY <1>7, <1>10 DEF Notes, SameCooldown
  <2> QED
    BY <1>4, <1>8, <2>1
    DEF EarnedHead, EarnedWrites, ReleaseEarned, CooldownEarned, IsRow, IsCst
<1>11. ASSUME Disables(t, n, m, cst)
       PROVE  Earned
  <2>1. /\ Len(t) = 3 /\ t[1].to = "veto" /\ t[2].to = "cst" /\ t[3].to = "row"
        /\ t[3].why = "keep" /\ t[2].val.mult = cst.mult /\ t[2].val.chain = cst.chain
        /\ m.tripped
    BY <1>7, <1>11 DEF Disables
  <2> QED
    BY <1>4, <1>8, <2>1
    DEF EarnedHead, EarnedWrites, ReleaseEarned, CooldownEarned, IsRow, IsCst
<1>12. ASSUME GivesBack(t, n, m, cst)
       PROVE  Earned
  <2>1. /\ Len(t) = 3 /\ t[1].to = "cst" /\ t[2].to = "row" /\ t[2].why = "tiered"
        /\ t[3].to = "row" /\ t[3].why = "keep"
        /\ t[1].val.mult = cst.mult /\ t[1].val.chain = 0 /\ m.tripped
    BY <1>7, <1>12 DEF GivesBack, Opens
  <2>2. m.age >= Early * hist.owed
    BY <1>5, <1>12 DEF GivesBack
  <2>3. row.tripped => row.age >= Early * hist.owed
    BY <1>2, <2>1, <2>2
  <2> QED
    BY <1>0, <1>4, <2>1, <2>3
    DEF EarnedHead, EarnedWrites, ReleaseEarned, CooldownEarned, IsRow, IsCst
<1>13. ASSUME GivesBackAtPeak(t, n, m, cst)
       PROVE  Earned
  <2>1. /\ Len(t) = 3 /\ t[1].to = "row" /\ t[1].why = "keep" /\ t[1].val.age = m.age
        /\ t[2].to = "cst" /\ t[3].to = "row" /\ t[3].why = "tiered"
        /\ t[2].val.mult = cst.mult /\ t[2].val.chain = 0 /\ m.tripped
    BY <1>7, <1>13 DEF GivesBackAtPeak, Opens, SameTrip
  <2>2. m.age >= Early * hist.owed
    BY <1>5, <1>13 DEF GivesBackAtPeak
  <2>3. row.tripped => row.age >= Early * hist.owed
    BY <1>2, <2>1, <2>2
  <2> QED
    BY <1>0, <1>4, <2>1, <2>2, <2>3
    DEF EarnedHead, EarnedWrites, ReleaseEarned, CooldownEarned, IsRow, IsCst
<1>14. ASSUME Fires(t, n, m, cst)
       PROVE  Earned
  <2>1. /\ Len(t) = 4 /\ t[1].to = "cst" /\ t[2].to = "row" /\ t[2].why = "fire"
        /\ t[3].to = "ramp" /\ t[4].to = "row" /\ t[4].why = "keep"
        /\ t[1].val.mult = cst.mult /\ t[1].val.chain = 0 /\ m.tripped /\ m.age >= G1Days
    BY <1>7, <1>14 DEF Fires
  <2>2. row.tripped => row.age >= G1Days
    BY <1>2, <2>1
  <2> QED
    BY <1>0, <1>4, <2>1, <2>2
    DEF EarnedHead, EarnedWrites, ReleaseEarned, CooldownEarned, IsRow, IsCst
<1>15. ASSUME Trips(t, n, m, cst)
       PROVE  Earned
  <2>1. /\ Len(t) = 2 /\ t[1].to = "cst" /\ t[2].to = "row" /\ t[2].why = "trip"
        /\ t[1].val.mult = IF cst.chain < Chain THEN Min({2 * cst.mult, Cap}) ELSE 1
        /\ t[1].val.chain = cst.chain
    BY <1>7, <1>15 DEF Trips
  <2>2. Doubled(t[1].val, hist)
    <3> SUFFICES ASSUME hist.since < Chain PROVE Min({2 * hist.owed, Cap}) <= t[1].val.mult
      BY DEF Doubled
    <3>1. cst.chain < Chain /\ hist.owed <= cst.mult
      BY <1>0, <1>3, <1>8, DurationsAssumption DEF EarnedStore
    <3>2. Min({2 * hist.owed, Cap}) <= Min({2 * cst.mult, Cap})
      BY <1>0, <3>1, Doubling
    <3> QED
      BY <2>1, <3>1, <3>2
  <2> QED
    BY <1>8, <2>1, <2>2
    DEF EarnedHead, EarnedWrites, ReleaseEarned, CooldownEarned, IsRow, IsCst
<1>16. Earned
  BY <1>1, <1>9, <1>10, <1>11, <1>12, <1>13, <1>14, <1>15 DEF Decides, t, n
<1>17. EarnedHead(t[1], row, cst, hist') /\ EarnedWrites(t, row, hist')
  BY <1>1, <1>16
  DEF SameClocks, EarnedHead, EarnedWrites, ReleaseEarned, CooldownEarned, Doubled
<1>18. EarnedStore(row, cst, hist')
  BY <1>1, <1>3 DEF SameClocks, EarnedStore
<1> QED
  BY <1>1, <1>17, <1>18, Zenon DEF EarnedInv

\* The store of a cooldown state, a ramp or a veto leaves the rest earned.
LEMMA StoreEarned ==
    ASSUME TypeOK, VetoInv, TwinInv, EarnedInv, Write, todo[1].to # "row"
    PROVE  EarnedInv'
<1> DEFINE w == todo[1]
           stored == row.tripped
           mem == scan.at = "checking" => scan.mem.tripped
<1>0. /\ row.age \in Nat /\ cst.mult \in 1 .. Cap /\ cst.chain \in 0 .. Chain
      /\ hist.since \in 0 .. Chain /\ hist.owed \in 1 .. Cap
      /\ \A i \in 1 .. Len(todo) : IsCst(todo[i]) => todo[i].val \in Cooldowns
  BY EarnedTypes
<1>1. /\ Len(todo) \in Nat /\ Len(todo) > 0 /\ todo' \in Seq(Writes) /\ w \in Writes
      /\ Len(todo') = Len(todo) - 1
      /\ \A i \in 1 .. Len(todo') : todo'[i] = todo[i + 1]
      /\ row' = row /\ hist' = hist /\ scan' = scan /\ todo # <<>>
      /\ Shaped(todo, stored, hist.vetoed, veto, mem)
      /\ IF w.to = "cst" THEN cst' = w.val ELSE cst' = cst
  BY WriteFields DEF Write
<1>2. /\ w.to = "cst" => Len(todo) > 1 /\ todo[2].to = "row" /\ (todo[2].why = "trip" => ~stored)
      /\ w.to = "ramp" => Len(todo) = 2 /\ IsRow(todo[2], "keep")
      /\ w.to = "veto" => Len(todo) = 3 /\ IsCst(todo[2]) /\ IsRow(todo[3], "keep")
      /\ w.to \in {"cst", "ramp", "veto"}
  BY <1>1, WriteOrder DEF TypeOK, Writes
<1>3. EarnedStore(row, cst, hist) /\ EarnedWrites(todo, row, hist) /\ (hist.crossed => scan.at # "idle")
  BY DEF EarnedInv
<1>4. EarnedWrites(todo', row, hist)
  <2> SUFFICES ASSUME NEW i \in 1 .. Len(todo')
               PROVE  /\ ReleaseEarned(todo'[i], row, hist)
                      /\ IsCst(todo'[i]) =>
                            i < Len(todo') /\ CooldownEarned(todo'[i].val, todo'[i + 1], hist)
                      /\ IsRow(todo'[i], "keep") /\ i < Len(todo') =>
                            todo'[i].val.age >= Early * hist.owed
    BY DEF EarnedWrites
  <2>1. i + 1 \in 1 .. Len(todo) /\ todo'[i] = todo[i + 1]
    BY <1>1
  <2> DEFINE j == i + 1
  <2>2. j < Len(todo) => i < Len(todo') /\ todo'[i + 1] = todo[j + 1]
    BY <1>1
  <2>3. i < Len(todo') => j < Len(todo)
    BY <1>1
  <2> HIDE DEF j
  <2>4. /\ ReleaseEarned(todo[j], row, hist)
        /\ IsCst(todo[j]) => j < Len(todo) /\ CooldownEarned(todo[j].val, todo[j + 1], hist)
        /\ IsRow(todo[j], "keep") /\ j < Len(todo) => todo[j].val.age >= Early * hist.owed
    BY <1>3, <2>1 DEF EarnedWrites, j
  <2>5. todo'[i] = todo[j]
    BY <2>1 DEF j
  <2> QED
    BY <2>2, <2>3, <2>4, <2>5, Zenon
<1>5. EarnedStore(row, cst', hist) /\ EarnedHead(todo'[1], row, cst', hist)
  <2>1. CASE w.to = "cst"
    <3>1. todo'[1] = todo[2] /\ cst' = w.val /\ cst' \in Cooldowns /\ todo[2].to = "row"
      BY <1>0, <1>1, <1>2, <2>1 DEF IsCst
    <3>2. CooldownEarned(w.val, todo[2], hist)
      BY <1>1, <1>3, <2>1 DEF EarnedWrites, IsCst
    <3>3. cst'.mult \in 1 .. Cap
      BY <3>1 DEF Cooldowns
    <3>4. CASE todo[2].why # "trip"
      BY <1>0, <1>3, <3>1, <3>2, <3>3, <3>4
      DEF EarnedStore, EarnedHead, CooldownEarned, IsRow
    <3>5. CASE todo[2].why = "trip"
      <4>1. ~row.tripped /\ Doubled(cst', hist) /\ cst'.chain <= hist.since
        BY <1>2, <2>1, <3>1, <3>2, <3>5 DEF CooldownEarned
      <4>2. hist.owed <= Min({2 * hist.owed, Cap}) /\ Min({2 * hist.owed, Cap}) \in 1 .. Cap
        BY <1>0, MinOfTwo, DurationsAssumption
      <4>3. hist.owed <= cst'.mult \/ hist.since >= Chain
        BY <1>0, <1>3, <3>3, <4>1, <4>2, DurationsAssumption DEF Doubled, EarnedStore
      <4>4. EarnedHead(todo'[1], row, cst', hist)
        BY <3>1, <3>5, <4>1 DEF EarnedHead, IsRow
      <4> QED
        BY <1>3, <4>1, <4>3, <4>4 DEF EarnedStore
    <3> QED
      BY <3>4, <3>5
  <2>2. CASE w.to # "cst"
    <3>1. cst' = cst /\ (IsRow(todo'[1], "keep") \/ IsCst(todo'[1]))
      BY <1>1, <1>2, <2>2
    <3> QED
      BY <1>3, <3>1 DEF EarnedHead, IsRow, IsCst
  <2> QED
    BY <2>1, <2>2
<1> QED
  BY <1>1, <1>3, <1>4, <1>5, Zenon DEF EarnedInv

\* The store of a row: a release opens the chain window, a trip owes what the
\* history asks of it.
LEMMA RowEarned ==
    ASSUME TypeOK, VetoInv, TwinInv, EarnedInv, Write, todo[1].to = "row"
    PROVE  EarnedInv'
<1> DEFINE w == todo[1]
           stored == row.tripped
           mem == scan.at = "checking" => scan.mem.tripped
<1>0. /\ row.age \in Nat /\ cst.mult \in 1 .. Cap /\ cst.chain \in 0 .. Chain
      /\ hist.since \in 0 .. Chain /\ hist.owed \in 1 .. Cap /\ Chain \in Nat
  BY EarnedTypes, DurationsAssumption
<1>1. /\ Len(todo) \in Nat /\ Len(todo) > 0 /\ todo' \in Seq(Writes) /\ w \in Writes
      /\ Len(todo') = Len(todo) - 1
      /\ \A i \in 1 .. Len(todo') : todo'[i] = todo[i + 1]
      /\ row' = w.val /\ cst' = cst /\ scan' = scan /\ RowHistory(w, hist', hist)
      /\ Shaped(todo, stored, hist.vetoed, veto, mem)
      /\ scan.at \in {"checking", "executing"} /\ todo # <<>>
  BY WriteFields DEF Write
<1>2. \/ w.why = "keep" /\ Len(todo) = 1
      \/ w.why = "keep" /\ Len(todo) = 3 /\ IsCst(todo[2]) /\ IsRow(todo[3], "tiered")
      \/ w.why = "tiered" /\ ~w.val.tripped /\ Len(todo) = 1
      \/ /\ w.why = "tiered" /\ ~w.val.tripped
         /\ Len(todo) = 2 /\ IsRow(todo[2], "keep")
      \/ /\ w.why = "fire" /\ ~w.val.tripped
         /\ Len(todo) = 3 /\ todo[2].to = "ramp" /\ IsRow(todo[3], "keep")
      \/ w.why = "trip" /\ Len(todo) = 1 /\ ~stored
  BY <1>1, WriteOrder DEF TypeOK
<1>3. EarnedStore(row, cst, hist) /\ EarnedWrites(todo, row, hist)
      /\ EarnedHead(w, row, cst, hist)
  BY <1>1 DEF EarnedInv
<1>4. scan'.at # "idle"
  BY <1>1
<1>5. CASE w.why = "keep"
  <2>1. hist' = hist
    BY <1>1, <1>5 DEF RowHistory
  <2>2. w.val.tripped => row.tripped \/ hist.crossed
    BY <1>1, <1>5 DEF TwinInv, IsRow
  <2>3. EarnedStore(row', cst', hist')
    BY <1>0, <1>1, <1>3, <2>1, <2>2 DEF EarnedStore
  <2>4. CASE Len(todo) = 1
    <3>1. Len(todo') = 0 /\ todo' = <<>>
      BY <1>1, <2>4, EmptySeq
    <3> QED
      BY <1>4, <2>3, <3>1 DEF EarnedInv, EarnedWrites
  <2>5. CASE Len(todo) = 3 /\ IsCst(todo[2]) /\ IsRow(todo[3], "tiered")
    <3>1. Len(todo') = 2 /\ todo'[1] = todo[2] /\ todo'[2] = todo[3]
      BY <1>1, <2>5
    <3>2. row'.age >= Early * hist.owed
      BY <1>1, <1>3, <1>5, <2>5 DEF EarnedWrites, IsRow
    <3>3. CooldownEarned(todo[2].val, todo[3], hist)
      BY <1>3, <2>5 DEF EarnedWrites
    <3>4. EarnedHead(todo'[1], row', cst', hist')
      BY <2>5, <3>1 DEF EarnedHead, IsRow, IsCst
    <3>5. EarnedWrites(todo', row', hist')
      BY <2>1, <2>5, <3>1, <3>2, <3>3 DEF EarnedWrites, ReleaseEarned, IsRow, IsCst
    <3> QED
      BY <1>4, <2>3, <3>4, <3>5, Zenon DEF EarnedInv
  <2> QED
    BY <1>2, <1>5, <2>4, <2>5
<1>6. CASE w.why \in {"tiered", "fire"}
  <2>1. ~row'.tripped
    BY <1>1, <1>2, <1>6
  <2>2. EarnedStore(row', cst', hist')
    BY <1>0, <1>1, <1>3, <1>6, <2>1 DEF EarnedStore, EarnedHead, RowHistory, IsRow
  <2>3. \/ todo' = <<>> /\ Len(todo') = 0
        \/ Len(todo') = 1 /\ IsRow(todo'[1], "keep")
        \/ Len(todo') = 2 /\ todo'[1].to = "ramp" /\ IsRow(todo'[2], "keep")
    BY <1>1, <1>2, <1>6, EmptySeq
  <2>4. CASE todo' = <<>> /\ Len(todo') = 0
    BY <1>4, <2>2, <2>4 DEF EarnedInv, EarnedWrites
  <2>5. CASE Len(todo') = 1 /\ IsRow(todo'[1], "keep")
    <3>1. EarnedWrites(todo', row', hist')
      BY <2>5 DEF EarnedWrites, ReleaseEarned, IsRow, IsCst
    <3>2. EarnedHead(todo'[1], row', cst', hist')
      BY <2>5 DEF EarnedHead, IsRow
    <3> QED
      BY <1>4, <2>2, <3>1, <3>2, Zenon DEF EarnedInv
  <2>6. CASE Len(todo') = 2 /\ todo'[1].to = "ramp" /\ IsRow(todo'[2], "keep")
    <3>1. EarnedWrites(todo', row', hist')
      BY <2>6 DEF EarnedWrites, ReleaseEarned, IsRow, IsCst
    <3>2. EarnedHead(todo'[1], row', cst', hist')
      BY <2>6 DEF EarnedHead, IsRow
    <3> QED
      BY <1>4, <2>2, <3>1, <3>2, Zenon DEF EarnedInv
  <2> QED
    BY <2>3, <2>4, <2>5, <2>6
<1>7. CASE w.why = "trip"
  <2>6. Len(todo) = 1 /\ ~row.tripped
    BY <1>2, <1>7
  <2>7. Len(todo') = 0
    BY <1>1, <2>6
  <2>1. Len(todo') = 0 /\ todo' = <<>> /\ ~row.tripped
    BY <1>1, <2>6, <2>7, EmptySeq
  <2>2. Doubled(cst, hist)
    BY <1>1, <1>3, <1>7 DEF EarnedHead, IsRow
  <2>3. /\ hist'.since = hist.since /\ hist'.crossed = hist.crossed
        /\ hist'.owed = IF hist.since < Chain /\ ~hist.crossed THEN Min({2 * hist.owed, Cap}) ELSE 1
    BY <1>1, <1>7, <2>1 DEF RowHistory
  <2>4. hist'.owed <= cst.mult
    BY <1>0, <2>2, <2>3 DEF Doubled
  <2>5. EarnedStore(row', cst', hist')
    BY <1>1, <1>3, <2>3, <2>4 DEF EarnedStore
  <2> QED
    BY <1>4, <2>1, <2>5 DEF EarnedInv, EarnedWrites
<1> QED
  BY <1>2, <1>5, <1>6, <1>7

\* At the start nothing is owed beyond the plain cooldown.
THEOREM InitEarnedInv == Init => EarnedInv
<1> SUFFICES ASSUME Init PROVE EarnedInv
  OBVIOUS
<1>1. /\ cst.chain = Chain /\ cst.mult = 1 /\ hist.since = Chain /\ hist.owed = 1
      /\ hist.crossed = FALSE /\ todo = <<>> /\ Len(todo) = 0 /\ Chain \in Nat
  BY DurationsAssumption DEF Init, FreshCooldown, NoHistory
<1> QED
  BY <1>1 DEF EarnedInv, EarnedStore, EarnedWrites

\* A person's reset leaves nothing owed.
LEMMA ResetEarned ==
    ASSUME TypeOK, VetoInv, EarnedInv, Reset
    PROVE  EarnedInv'
<1>0. /\ row'.tripped = FALSE /\ scan' = scan /\ todo' = todo
      /\ cst'.mult = 1 /\ cst'.chain = 0
      /\ hist'.since = IF todo = <<>> THEN 0 ELSE Chain
      /\ hist'.owed = 1 /\ (hist'.crossed <=> scan.at # "idle")
  BY ResetFields
<1>1. Chain \in Nat /\ Early \in Nat /\ hist.owed \in 1 .. Cap /\ 1 \in 1 .. Cap
  BY EarnedTypes, DurationsAssumption
<1>2. EarnedStore(row', cst', hist')
  BY <1>0, <1>1 DEF EarnedStore
<1>3. todo # <<>> => EarnedHead(todo[1], row', cst', hist')
  BY <1>0, <1>1 DEF EarnedHead, Doubled
<1>4. EarnedWrites(todo, row', hist')
  <2> SUFFICES ASSUME NEW i \in 1 .. Len(todo)
               PROVE  /\ ReleaseEarned(todo[i], row', hist')
                      /\ IsCst(todo[i]) =>
                            i < Len(todo) /\ CooldownEarned(todo[i].val, todo[i + 1], hist')
                      /\ IsRow(todo[i], "keep") /\ i < Len(todo) =>
                            todo[i].val.age >= Early * hist'.owed
    BY DEF EarnedWrites
  <2>1. /\ IsCst(todo[i]) =>
              i < Len(todo) /\ CooldownEarned(todo[i].val, todo[i + 1], hist)
        /\ IsRow(todo[i], "keep") /\ i < Len(todo) => todo[i].val.age >= Early * hist.owed
    BY DEF EarnedInv, EarnedWrites
  <2>2. hist'.since = Chain
    <3>1. Len(<<>>) = 0
      OBVIOUS
    <3> QED
      BY <1>0, <3>1
  <2>3. ReleaseEarned(todo[i], row', hist')
    BY <1>0 DEF ReleaseEarned
  <2>4. IsCst(todo[i]) => i < Len(todo) /\ CooldownEarned(todo[i].val, todo[i + 1], hist')
    <3> SUFFICES ASSUME IsCst(todo[i])
                 PROVE  i < Len(todo) /\ CooldownEarned(todo[i].val, todo[i + 1], hist')
      OBVIOUS
    <3>1. todo[i].val.mult \in 1 .. Cap /\ todo[i].val.chain \in 0 .. Chain
      BY EarnedTypes DEF Cooldowns
    <3>2. i < Len(todo)
      BY <2>1
    <3>3. CooldownEarned(todo[i].val, todo[i + 1], hist')
      BY <1>0, <1>1, <2>1, <2>2, <3>1 DEF CooldownEarned, Doubled
    <3> QED
      BY <3>2, <3>3
  <2>5. IsRow(todo[i], "keep") /\ i < Len(todo) => todo[i].val.age >= Early * hist'.owed
    <3> SUFFICES ASSUME IsRow(todo[i], "keep"), i < Len(todo)
                 PROVE  todo[i].val.age >= Early * hist'.owed
      OBVIOUS
    <3> DEFINE x == Early * hist.owed
               y == Early * 1
               age == todo[i].val.age
    <3>1. age \in Nat
      BY EarnedTypes, MaxAgeType DEF IsRow, Rows
    <3>2. y <= x /\ x \in Nat /\ y \in Nat
      BY <1>1, Doubling
    <3>3. age >= x
      BY <2>1
    <3> HIDE DEF x, y, age
    <3>4. age >= y
      BY <3>1, <3>2, <3>3
    <3> QED
      BY <1>0, <3>4 DEF y, age
  <2> QED
    BY <2>3, <2>4, <2>5
<1> QED
  BY <1>0, <1>2, <1>3, <1>4, Zenon DEF EarnedInv

\* Every step keeps the multiplier at what the history of the trips owes.
THEOREM NextEarnedInv == TypeOK /\ VetoInv /\ TwinInv /\ EarnedInv /\ [Next]_vars => EarnedInv'
<1> SUFFICES ASSUME TypeOK, VetoInv, TwinInv, EarnedInv, [Next]_vars PROVE EarnedInv'
  OBVIOUS
<1>0. /\ Len(<<>>) = 0 /\ Chain \in Nat
      /\ EarnedStore(row, cst, hist) /\ EarnedWrites(todo, row, hist)
      /\ hist.crossed => scan.at # "idle"
      /\ todo # <<>> => EarnedHead(todo[1], row, cst, hist)
  BY DurationsAssumption DEF EarnedInv
<1>1. CASE Quiet
  <2>1. /\ row' = row /\ todo' = todo /\ cst'.mult = cst.mult /\ cst'.chain = cst.chain
        /\ hist'.owed = hist.owed /\ hist'.since = hist.since
        /\ hist'.crossed => hist.crossed /\ scan'.at # "idle"
        /\ todo # <<>> => hist'.crossed = hist.crossed
    BY <1>0, <1>1 DEF Quiet, SameCooldown, SameClocks
  <2>2. EarnedStore(row', cst', hist')
    BY <1>0, <2>1 DEF EarnedStore
  <2>3. todo # <<>> => EarnedHead(todo[1], row', cst', hist')
    BY <1>0, <2>1 DEF EarnedHead, Doubled
  <2>4. EarnedWrites(todo, row', hist')
    <3>1. CASE todo = <<>>
      BY <1>0, <3>1 DEF EarnedWrites
    <3>2. CASE todo # <<>>
      BY <1>0, <2>1, <3>2 DEF EarnedWrites, ReleaseEarned, CooldownEarned, Doubled
    <3> QED
      BY <3>1, <3>2
  <2> QED
    BY <2>1, <2>2, <2>3, <2>4, Zenon DEF EarnedInv
<1>2. ASSUME NEW c, NEW m, NEW r, Checks(c, m, r) PROVE EarnedInv'
  BY <1>2, CheckEarned
<1>3. CASE Write
  BY <1>3, StoreEarned, RowEarned
<1>4. CASE Day
  <2>1. /\ todo' = <<>> /\ row'.tripped = row.tripped /\ cst'.mult = cst.mult
        /\ cst'.chain = Min({cst.chain + 1, Chain}) /\ hist'.since = Min({hist.since + 1, Chain})
        /\ hist'.owed = hist.owed /\ hist'.crossed = hist.crossed /\ scan.at = "idle"
    BY <1>4, DayFields
  <2>2. cst.chain \in Nat /\ hist.since \in 0 .. Chain /\ hist.owed \in Nat /\ cst.mult \in Nat
    BY EarnedTypes
  <2>3. cst'.chain <= hist'.since
    BY <1>0, <2>1, <2>2, MinOfTwo DEF EarnedStore
  <2>4. hist.since >= Chain => hist'.since >= Chain
    BY <1>0, <2>1, <2>2, MinOfTwo
  <2>5. EarnedStore(row', cst', hist')
    BY <1>0, <2>1, <2>3, <2>4 DEF EarnedStore
  <2> QED
    BY <1>0, <2>1, <2>5 DEF EarnedInv, EarnedWrites
<1>5. CASE Reset
  BY <1>5, ResetEarned
<1>6. CASE Die
  <2>1. /\ UNCHANGED <<row, cst>> /\ todo' = <<>> /\ hist'.crossed = FALSE
        /\ hist'.owed = hist.owed /\ hist'.since = hist.since
    BY <1>6, DieFields DEF SameClocks
  <2>2. EarnedStore(row', cst', hist')
    BY <1>0, <2>1 DEF EarnedStore
  <2> QED
    BY <1>0, <2>1, <2>2 DEF EarnedInv, EarnedWrites
<1> QED
  BY <1>1, <1>2, <1>3, <1>4, <1>5, <1>6, StepKinds

\* The stored multiplier, or the one on its way, is never below the one that is owed.
THEOREM EarnedInvariant == Spec => []EarnedInv
BY InitEarnedInv, NextEarnedInv, TypeCorrect, VetoInvariant, TwinInvariant, PTL DEF Spec

\* No check gives up a standing trip before the cooldown its history earned is
\* over, a flat reset none before its first gate, whatever died, was misread or
\* was written in between (check_drawdown, _tiered_auto_reset, _flat_fire).
THEOREM HeldLongEnough == Spec => HeldForItsTime
<1>1. TypeOK /\ EarnedInv => /\ Releases("tiered") => row.age >= Early * hist.owed
                             /\ Releases("fire") => row.age >= G1Days
  <2> SUFFICES ASSUME TypeOK, EarnedInv, NEW why, Releases(why)
               PROVE  /\ why = "tiered" => row.age >= Early * hist.owed
                      /\ why = "fire" => row.age >= G1Days
    BY Zenon
  <2>1. todo \in Seq(Writes) /\ todo # <<>>
    BY DEF TypeOK, Releases
  <2>2. 1 \in 1 .. Len(todo) /\ Head(todo) = todo[1]
    BY <2>1, TailFacts
  <2>3. ReleaseEarned(todo[1], row, hist)
    BY <2>2 DEF EarnedInv, EarnedWrites
  <2> QED
    BY <2>2, <2>3 DEF Releases, ReleaseEarned, IsRow
<1> QED
  BY <1>1, TypeCorrect, EarnedInvariant, PTL DEF HeldForItsTime

-----------------------------------------------------------------------------
(* What the steps do to the choice of a scan                                *)

\* The choice is dropped, or never made.
Dropped == scan'.chosen = "no" /\ scan'.at \in {"idle", "research", "done"}

\* The scan does not move.
Rests ==
    /\ UNCHANGED <<scan, answer>> /\ hist'.misread = hist.misread
    /\ hist.fresh => hist'.fresh
    /\ Reset \/ (hist.crossed => hist'.crossed)

\* The scan goes on with its choice, to a check or to a switch.
Onward ==
    /\ scan.at \in {"research", "switched"} /\ scan'.at \in {"checking", "switched", "executing"}
    /\ scan'.chosen = scan.chosen /\ (scan'.at # "checking" => scan.chosen # "no")
    /\ row' = row /\ hist'.fresh = hist.fresh /\ hist'.crossed = hist.crossed
    /\ hist.misread => hist'.misread
    /\ scan'.at = "checking" => answer'.tripped \/ \E c, m, r : Checks(c, m, r)

\* A candidate is let through or blocked.
Judged ==
    /\ scan.at = "checking" /\ scan'.at = "research" /\ todo = <<>>
    /\ UNCHANGED <<row, ramp, hist>>
    /\ \/ ~answer.tripped /\ scan'.chosen = IF ramp > 0 THEN "half" ELSE "full"
       \/ /\ answer.tripped \/ BlocksNewTrades(LevelOf(ladder, answer.pct, FALSE))
          /\ scan'.chosen = scan.chosen

\* The level of a call is the one it stores.
LEMMA LadderLevel ==
    ASSUME NEW st \in LadderStates, NEW pct
    PROVE  LadderAfter(st, pct).level = LevelOf(st, pct, FALSE)
<1> DEFINE level == LevelOf(st, pct, FALSE)
           esc == TimeEscalates(st, pct)
           kept == st.escalated /\ level >= Moderate
<1>1. \/ LadderAfter(st, pct) = [stored |-> TRUE, level |-> level, long |-> FALSE,
                                 escalated |-> esc]
      \/ LadderAfter(st, pct) = [st EXCEPT !.escalated = kept] /\ level = st.level
  BY Zenon DEF LadderAfter
<1> HIDE DEF level, esc, kept
<1>2. [st EXCEPT !.escalated = kept].level = st.level
  <2>1. CASE st \in [stored : {FALSE}, level : {Normal}, long : {FALSE}, escalated : {FALSE}]
    BY <2>1
  <2>2. CASE st \in [stored : {TRUE}, level : Normal .. Critical, long : BOOLEAN, escalated : BOOLEAN]
    BY <2>2
  <2> QED
    BY <2>1, <2>2 DEF LadderStates
<1>3. LadderAfter(st, pct).level = level
  <2>1. CASE LadderAfter(st, pct) = [stored |-> TRUE, level |-> level, long |-> FALSE,
                                     escalated |-> esc]
    BY <2>1, SMT
  <2>2. CASE LadderAfter(st, pct) = [st EXCEPT !.escalated = kept] /\ level = st.level
    BY <1>2, <2>2, Zenon
  <2> QED
    BY <1>1, <2>1, <2>2
<1> QED
  BY <1>3 DEF level

\* Every step drops the choice of the scan, rests, goes on or judges.
LEMMA ScanSteps ==
    ASSUME TypeOK, VetoInv, [Next]_vars
    PROVE  Dropped \/ Rests \/ Onward \/ Judged
<1>0. scan \in Scans /\ Idle \in Scans /\ hist \in Histories /\ ladder \in LadderStates
  BY FreshTypes DEF TypeOK
<1>1. CASE StartScan
  <2>1. scan' = [at |-> "research", mem |-> row, chosen |-> "no"]
    BY <1>1 DEF StartScan
  <2> QED
    BY <2>1 DEF Dropped
<1>2. CASE Enter \/ Refuse
  <2>1. scan' = [Idle EXCEPT !.at = "done"] /\ Idle.chosen = "no"
    BY <1>2 DEF Enter, Refuse, Idle
  <2>2. scan'.at = "done" /\ scan'.chosen = "no"
    BY <1>0, <2>1, ScanMoves
  <2> QED
    BY <2>2 DEF Dropped
<1>3. CASE EndScan \/ Die
  <2>1. scan' = Idle /\ Idle.chosen = "no" /\ Idle.at = "idle"
    BY <1>3 DEF EndScan, Die, Idle
  <2> QED
    BY <2>1 DEF Dropped
<1>4. CASE PreCheck
  <2>1. PICK c, m, r : Checks(c, m, r)
    BY <1>4, PreCheckChecks
  <2>2. scan.at = "research" /\ scan'.at = "checking"
    <3>1. scan.at = "research" /\ \E m0 : scan' = [scan EXCEPT !.at = "checking", !.mem = m0]
      BY <1>4, Zenon DEF PreCheck, At
    <3> QED
      BY <1>0, <3>1, ScanMoves
  <2> QED
    BY <2>1, <2>2 DEF Onward, Checks
<1>5. CASE ExecCheck
  <2>1. PICK c, m, r : Checks(c, m, r)
    BY <1>5, ExecCheckChecks
  <2>2. scan'.at = "executing"
    <3>1. scan' = [Idle EXCEPT !.at = "executing", !.chosen = scan.chosen]
      BY <1>5 DEF ExecCheck
    <3> QED
      BY <1>0, <3>1, ScanMoves
  <2> QED
    BY <2>1, <2>2 DEF Onward, Checks
<1>6. CASE PreCheckFails
  <2>1. /\ scan.at = "research" /\ row' = row /\ answer' = [tripped |-> TRUE, pct |-> 0]
        /\ scan' = [scan EXCEPT !.at = "checking"] /\ hist' = [hist EXCEPT !.misread = TRUE]
    BY <1>6 DEF PreCheckFails, At, Go, store
  <2>2. scan'.at = "checking" /\ scan'.chosen = scan.chosen
    BY <1>0, <2>1, ScanMoves
  <2>3. hist'.fresh = hist.fresh /\ hist'.crossed = hist.crossed /\ hist'.misread
    BY <1>0, <2>1 DEF Histories
  <2>4. answer'.tripped
    BY <2>1
  <2> QED
    BY <2>1, <2>2, <2>3, <2>4 DEF Onward
<1>7. CASE Switch
  <2>1. /\ scan.at = "research" /\ scan.chosen # "no" /\ row' = row /\ hist' = hist
        /\ scan' = [Idle EXCEPT !.at = "switched", !.chosen = scan.chosen]
    BY <1>7 DEF Switch, At, store
  <2>2. scan'.at = "switched" /\ scan'.chosen = scan.chosen
    BY <1>0, <2>1, ScanMoves
  <2> QED
    BY <2>1, <2>2 DEF Onward
<1>8. CASE Judge
  <2>1. /\ scan.at = "checking" /\ todo = <<>> /\ UNCHANGED <<row, ramp, hist>>
        /\ ladder' = LadderAfter(ladder, answer.pct)
        /\ \/ /\ ~answer.tripped
              /\ scan' = [scan EXCEPT !.at = "research",
                                      !.chosen = IF ramp > 0 THEN "half" ELSE "full"]
           \/ /\ answer.tripped \/ BlocksNewTrades(ladder'.level)
              /\ scan' = [scan EXCEPT !.at = "research"]
    BY <1>8 DEF Judge, At, Go, store
  <2>2. ladder'.level = LevelOf(ladder, answer.pct, FALSE)
    BY <1>0, <2>1, LadderLevel
  <2>3. CASE /\ ~answer.tripped
             /\ scan' = [scan EXCEPT !.at = "research",
                                     !.chosen = IF ramp > 0 THEN "half" ELSE "full"]
    <3>1. scan'.at = "research" /\ scan'.chosen = IF ramp > 0 THEN "half" ELSE "full"
      BY <1>0, <2>3, ScanMoves
    <3> QED
      BY <2>1, <2>3, <3>1 DEF Judged
  <2>4. CASE /\ answer.tripped \/ BlocksNewTrades(ladder'.level)
             /\ scan' = [scan EXCEPT !.at = "research"]
    <3>1. scan'.at = "research" /\ scan'.chosen = scan.chosen
      BY <1>0, <2>4, ScanMoves
    <3> QED
      BY <2>1, <2>2, <2>4, <3>1 DEF Judged
  <2> QED
    BY <2>1, <2>3, <2>4
<1>9. CASE Market \/ SellOut \/ TwoHours \/ UNCHANGED vars
  <2>1. UNCHANGED <<scan, answer, hist>>
    BY <1>9 DEF Market, SellOut, TwoHours, vars
  <2> QED
    BY <2>1 DEF Rests
<1>10. CASE Veto
  <2>1. UNCHANGED <<scan, answer>> /\ \E v : hist' = [hist EXCEPT !.vetoed = v]
    BY <1>10, Zenon DEF Veto
  <2>2. hist'.misread = hist.misread /\ hist'.fresh = hist.fresh /\ hist'.crossed = hist.crossed
    BY <1>0, <2>1, HistoryKept
  <2> QED
    BY <2>1, <2>2 DEF Rests
<1>11. CASE Day
  <2>1. /\ UNCHANGED <<scan, answer>>
        /\ hist' = [hist EXCEPT !.fired = Min({@ + 1, FireWindow}),
                                !.since = Min({@ + 1, Chain}),
                                !.bare = @ /\ hist.fired + 1 < RampDays]
    BY <1>11 DEF Day
  <2>2. hist'.misread = hist.misread /\ hist'.fresh = hist.fresh /\ hist'.crossed = hist.crossed
    BY <1>0, <2>1 DEF Histories
  <2> QED
    BY <2>1, <2>2 DEF Rests
<1>12. CASE Reset
  <2>1. /\ UNCHANGED <<scan, answer>>
        /\ hist' = [hist EXCEPT !.fired = FireWindow, !.owed = 1,
                           !.since = IF todo = <<>> THEN 0 ELSE Chain,
                           !.vetoed = FALSE, !.bare = FALSE, !.crossed = ~At("idle")]
    BY <1>12 DEF Reset
  <2>2. hist'.misread = hist.misread /\ hist'.fresh = hist.fresh
    BY <1>0, <2>1 DEF Histories
  <2> QED
    BY <1>12, <2>1, <2>2 DEF Rests
<1>13. CASE Write
  <2>1. UNCHANGED <<scan, answer>> /\ (RowHistory(todo[1], hist', hist) \/ hist' = hist)
    BY <1>13, WriteFields
  <2>2. hist'.misread = hist.misread /\ (hist.fresh => hist'.fresh) /\ hist'.crossed = hist.crossed
    BY <2>1 DEF RowHistory
  <2> QED
    BY <2>1, <2>2 DEF Rests
<1> QED
  BY <1>1, <1>2, <1>3, <1>4, <1>5, <1>6, <1>7, <1>8, <1>9, <1>10, <1>11, <1>12, <1>13 DEF Next

\* A scan switches or executes only what it has chosen.
ChosenInv == scan.at \in {"switched", "executing"} => scan.chosen # "no"

\* Nothing is switched or executed that a check did not choose.
THEOREM ChosenInvariant == Spec => []ChosenInv
<1>1. Init => ChosenInv
  BY DEF Init, Idle, ChosenInv
<1>2. TypeOK /\ VetoInv /\ ChosenInv /\ [Next]_vars => ChosenInv'
  <2> SUFFICES ASSUME TypeOK, VetoInv, ChosenInv, [Next]_vars PROVE ChosenInv'
    OBVIOUS
  <2>1. Dropped \/ Rests \/ Onward \/ Judged
    BY ScanSteps
  <2> QED
    BY <2>1 DEF ChosenInv, Dropped, Rests, Onward, Judged
<1> QED
  BY <1>1, <1>2, TypeCorrect, VetoInvariant, PTL DEF Spec

-----------------------------------------------------------------------------
(* The ramp after a flat reset                                              *)

\* The ramp is over before the history forgets the flat reset it follows.
ShortRamp == RampDays <= FireWindow

Unramped == hist.fired < RampDays /\ ~hist.bare

\* On the day of a flat reset the ramp is in the store, or is the next write;
\* a choice of full size is then one the running check has yet to judge.
RampInv ==
    /\ Unramped => ramp + hist.fired >= RampDays \/ (todo # <<>> /\ todo[1].to = "ramp")
    /\ scan.chosen = "full" /\ Unramped =>
          scan.at = "checking" /\ ~answer.tripped /\ answer.pct = 0

\* Without a drawdown the ladder blocks nothing.
LEMMA NormalLevel == ASSUME NEW st \in LadderStates PROVE ~BlocksNewTrades(LevelOf(st, 0, FALSE))
<1>1. LevelFor(0) = Normal /\ ~TimeEscalates(st, 0)
  BY DEF LevelFor, TimeEscalates, Normal, Mild, Moderate
<1>2. LevelOf(st, 0, FALSE) = Normal
  BY <1>1 DEF LevelOf, Normal, Moderate
<1> DEFINE level == LevelOf(st, 0, FALSE)
<1>3. level = 0
  BY <1>2 DEF Normal
<1> HIDE DEF level
<1>4. ~BlocksNewTrades(level)
  BY <1>3 DEF BlocksNewTrades, Severe
<1> QED
  BY <1>4 DEF level

\* The types the argument about the ramp needs.
LEMMA RampTypes ==
    ASSUME TypeOK
    PROVE  /\ ramp \in Nat /\ RampDays \in Nat /\ FireWindow \in Nat
           /\ hist.fired \in 0 .. FireWindow /\ hist.bare \in BOOLEAN /\ ladder \in LadderStates
           /\ scan \in Scans
BY BoundsAssumption, FireWindowType DEF TypeOK, Histories

\* What the steps do to the days of the ramp.
LEMMA RampSteps ==
    ASSUME ShortRamp, TypeOK, VetoInv, TwinInv, [Next]_vars
    PROVE  \/ /\ hist'.fired = hist.fired /\ hist'.bare = hist.bare
              /\ ramp' = ramp \/ ramp' = RampDays
              /\ todo # <<>> /\ todo[1].to = "ramp" => todo' = todo \/ ramp' = RampDays
           \/ /\ Write /\ IsRow(todo[1], "fire") /\ todo' # <<>> /\ todo'[1].to = "ramp"
           \/ /\ scan' = scan /\ scan.at = "idle" /\ todo = <<>>
              /\ Unramped' => Unramped /\ ramp' + hist'.fired >= ramp + hist.fired
           \/ ~Unramped'
           \/ scan'.chosen = "no" /\ UNCHANGED ramp /\ (Unramped' =>
                Unramped /\ hist'.fired = hist.fired /\ ~(todo # <<>> /\ todo[1].to = "ramp"))
<1>1. CASE Quiet
  BY <1>1 DEF Quiet, SameClocks
<1>2. ASSUME NEW c, NEW m, NEW r, Checks(c, m, r)
      PROVE  /\ hist'.fired = hist.fired /\ hist'.bare = hist.bare /\ ramp' = ramp
             /\ todo = <<>>
  BY <1>2 DEF Checks, SameClocks
<1>3. CASE Write
  <2> DEFINE w == todo[1]
  <2>1. /\ todo \in Seq(Writes) /\ todo' \in Seq(Writes) /\ Len(todo) \in Nat
        /\ Len(todo') = Len(todo) - 1
        /\ \A i \in 1 .. Len(todo') : todo'[i] = todo[i + 1]
        /\ Shaped(todo, row.tripped, hist.vetoed, veto,
                  scan.at = "checking" => scan.mem.tripped)
        /\ \/ w.to = "row" /\ UNCHANGED ramp /\ RowHistory(w, hist', hist)
           \/ w.to = "cst" /\ UNCHANGED <<ramp, hist>>
           \/ w.to = "ramp" /\ ramp' = RampDays /\ UNCHANGED hist
           \/ w.to = "veto" /\ UNCHANGED <<ramp, hist>>
    BY <1>3, WriteFields DEF TypeOK
  <2>2. CASE w.to = "row" /\ w.why = "fire" /\ row.tripped
    <3>1. Len(todo) = 3 /\ todo[2].to = "ramp"
      BY <2>1, <2>2, WriteOrder
    <3>2. todo' # <<>> /\ todo'[1].to = "ramp"
      <4>1. Len(todo') = 2
        BY <2>1, <3>1
      <4>2. todo'[1] = todo[1 + 1]
        <5>1. 1 \in 1 .. Len(todo')
          BY <4>1
        <5> QED
          BY <2>1, <5>1
      <4>3. todo' # <<>>
        BY <4>1, EmptySeq, <2>1
      <4> QED
        BY <3>1, <4>2, <4>3
    <3> QED
      BY <1>3, <2>2, <3>2 DEF IsRow
  <2>3. CASE ~(w.to = "row" /\ w.why = "fire" /\ row.tripped)
    BY <2>1, <2>3 DEF RowHistory
  <2> QED
    BY <2>2, <2>3
<1>4. CASE Day
  <2>1. /\ ramp' = Max({ramp - 1, 0}) /\ hist'.fired = Min({hist.fired + 1, FireWindow})
        /\ hist'.bare = (hist.bare /\ hist.fired + 1 < RampDays)
        /\ scan' = scan /\ scan.at = "idle" /\ todo = <<>>
    BY <1>4, DayFields
  <2>2. ramp' >= ramp - 1
    BY <2>1, RampTypes, MaxOfTwo
  <2>3. hist'.fired < RampDays => hist'.fired = hist.fired + 1
    BY <2>1, RampTypes, MinOfTwo DEF ShortRamp
  <2>5. ASSUME Unramped' PROVE Unramped /\ ramp' + hist'.fired >= ramp + hist.fired
    <3>1. hist'.fired < RampDays /\ ~hist'.bare
      BY <2>5 DEF Unramped
    <3>2. hist.fired + 1 < RampDays
      BY <2>3, <3>1
    <3>3. ~hist.bare
      BY <2>1, <3>1, <3>2
    <3>4. ramp' \in Int
      BY <2>1, RampTypes, MaxOfTwo
    <3> QED
      BY <2>2, <2>3, <3>1, <3>2, <3>3, <3>4, RampTypes DEF Unramped
  <2> QED
    BY <2>1, <2>5
<1>5. CASE Reset
  <2>1. hist'.fired = FireWindow
    BY <1>5, ResetFields
  <2>2. ~Unramped'
    BY <2>1, RampTypes DEF Unramped, ShortRamp
  <2> QED
    BY <2>2
<1>6. CASE Die
  <2>1. /\ UNCHANGED ramp /\ hist'.fired = hist.fired /\ scan' = Idle
        /\ hist'.bare = (hist.bare \/ todo = <<ToRamp>> \/ todo = <<ToRamp, ToRow(scan.mem, "keep")>>)
    BY <1>6, DieFields DEF SameClocks
  <2>2. ASSUME Unramped', todo # <<>>, todo[1].to = "ramp" PROVE FALSE
    <3>1. /\ todo \in Seq(Writes) /\ Len(todo) \in Nat /\ Len(todo) > 0
          /\ Shaped(todo, row.tripped, hist.vetoed, veto,
                    scan.at = "checking" => scan.mem.tripped)
      BY <2>2, EmptySeq DEF TypeOK, VetoInv
    <3>2. Len(todo) = 2 /\ IsRow(todo[2], "keep")
      BY <2>2, <3>1, WriteOrder
    <3>3. scan.at = "checking"
      BY <2>2, <3>1 DEF TwinInv, IsFiring
    <3>4. todo[2].val = scan.mem
      BY <2>2, <3>2, <3>3 DEF TwinInv
    <3>5. todo[1] = ToRamp /\ todo[2] = ToRow(scan.mem, "keep")
      <4>1. todo[1] \in Writes /\ todo[2] \in Writes
        <5>1. \A i \in 1 .. Len(todo) : todo[i] \in Writes
          BY EarnedTypes
        <5>2. 1 \in 1 .. Len(todo) /\ 2 \in 1 .. Len(todo)
          BY <3>2
        <5> QED
          BY <5>1, <5>2
      <4>2. todo[1] = ToRamp
        BY <2>2, <4>1 DEF Writes, ToRamp
      <4>3. todo[2] = ToRow(scan.mem, "keep")
        BY <3>2, <3>4, <4>1 DEF Writes, ToRow, IsRow
      <4> QED
        BY <4>2, <4>3
    <3>8. ToRamp \in Writes /\ ToRow(scan.mem, "keep") \in Writes
      <4>1. scan.mem \in Rows
        BY DEF TypeOK, Scans
      <4> QED
        BY <4>1, WriteTypes
    <3>6. todo = <<ToRamp, ToRow(scan.mem, "keep")>>
      <4> DEFINE a == ToRamp
                 b == ToRow(scan.mem, "keep")
      <4>1. Len(todo) = 2 /\ todo[1] = a /\ todo[2] = b /\ a \in Writes /\ b \in Writes
        BY <3>2, <3>5, <3>8
      <4> HIDE DEF a, b
      <4>2. todo = <<a, b>>
        BY <3>1, <4>1
      <4> QED
        BY <4>2 DEF a, b
    <3>7. hist'.bare
      BY <2>1, <3>6, Zenon
    <3> QED
      BY <2>2, <3>7 DEF Unramped
  <2>3. Unramped' => Unramped
    BY <2>1 DEF Unramped
  <2>4. scan'.chosen = "no"
    BY <2>1 DEF Idle
  <2> QED
    BY <2>1, <2>2, <2>3, <2>4
<1> QED
  BY <1>1, <1>2, <1>3, <1>4, <1>5, <1>6, StepKinds

\* At the start no flat reset is remembered.
THEOREM InitRampInv == ASSUME ShortRamp PROVE Init => RampInv
BY BoundsAssumption, FireWindowType DEF Init, NoHistory, RampInv, Unramped, ShortRamp

\* Every step keeps the ramp, or leaves it as the next write.
THEOREM NextRampInv ==
    ASSUME ShortRamp
    PROVE  TypeOK /\ VetoInv /\ TwinInv /\ RampInv /\ [Next]_vars => RampInv'
<1> SUFFICES ASSUME TypeOK, VetoInv, TwinInv, RampInv, [Next]_vars PROVE RampInv'
  OBVIOUS
<1>0. /\ ramp \in Nat /\ ramp' \in Nat /\ RampDays \in Nat
      /\ hist.fired \in Nat /\ hist'.fired \in Nat
      /\ Unramped => ramp + hist.fired >= RampDays \/ (todo # <<>> /\ todo[1].to = "ramp")
      /\ scan.chosen = "full" /\ Unramped =>
            scan.at = "checking" /\ ~answer.tripped /\ answer.pct = 0
  <2>1. TypeOK'
    BY NextTypeOK
  <2>2. ramp' \in Nat /\ hist'.fired \in Nat
    BY <2>1, BoundsAssumption, FireWindowType DEF TypeOK, Histories
  <2> QED
    BY <2>2, RampTypes DEF RampInv
<1>1. Unramped' => ramp' + hist'.fired >= RampDays \/ (todo' # <<>> /\ todo'[1].to = "ramp")
  BY <1>0, RampSteps DEF Unramped
<1>2. scan'.chosen = "full" /\ Unramped' =>
         scan'.at = "checking" /\ ~answer'.tripped /\ answer'.pct = 0
  <2> SUFFICES ASSUME scan'.chosen = "full", Unramped'
               PROVE  scan'.at = "checking" /\ ~answer'.tripped /\ answer'.pct = 0
    OBVIOUS
  <2>1. Unramped \/ (Write /\ IsRow(todo[1], "fire"))
    BY RampSteps DEF Unramped
  <2>2. CASE Write /\ IsRow(todo[1], "fire")
    <3>1. 1 \in 1 .. Len(todo) /\ UNCHANGED <<scan, answer>>
      BY <2>2, WriteFields
    <3> QED
      BY <2>2, <3>1 DEF TwinInv, IsFiring
  <2>3. CASE Unramped
    <3>1. CASE Dropped
      BY <3>1 DEF Dropped
    <3>2. CASE Rests
      BY <1>0, <2>3, <3>2 DEF Rests
    <3>3. CASE Onward
      BY <1>0, <2>3, <3>3 DEF Onward
    <3>4. CASE Judged
      <4>1. ~(ramp > 0)
        <5>1. CASE ramp > 0
          <6>1. scan.chosen = "full" /\ BlocksNewTrades(LevelOf(ladder, answer.pct, FALSE))
            BY <1>0, <2>3, <3>4, <5>1 DEF Judged
          <6>2. answer.pct = 0
            BY <1>0, <2>3, <6>1
          <6> QED
            BY <6>1, <6>2, RampTypes, NormalLevel
        <5> QED
          BY <5>1
      <4>2. todo = <<>>
        BY <3>4 DEF Judged
      <4> QED
        BY <1>0, <2>3, <4>1, <4>2 DEF Unramped
    <3> QED
      BY <3>1, <3>2, <3>3, <3>4, ScanSteps
  <2> QED
    BY <2>1, <2>2, <2>3
<1> QED
  BY <1>1, <1>2 DEF RampInv

\* The ramp of a flat reset is there for its day, and a full size is not chosen in it.
THEOREM RampInvariant == ASSUME ShortRamp PROVE Spec => []RampInv
BY InitRampInv, NextRampInv, TypeCorrect, VetoInvariant, TwinInvariant, PTL DEF Spec

\* On the day of a flat reset a scan enters its candidates at half size, unless
\* the process died between the reset and its ramp (_flat_fire, ramp_active), when
\* the ramp is no longer than the window in which a re-trip would count.
THEOREM RampApplies == ASSUME ShortRamp PROVE Spec => RampedEntries
<1>1. TypeOK /\ RampInv /\ ChosenInv =>
         (Enter /\ hist.fired < RampDays /\ ~hist.bare => scan.chosen = "half")
  <2> SUFFICES ASSUME TypeOK, RampInv, ChosenInv, Enter, hist.fired < RampDays, ~hist.bare
               PROVE  scan.chosen = "half"
    OBVIOUS
  <2>1. scan.at = "executing" /\ scan.chosen \in {"no", "full", "half"}
    BY DEF Enter, At, TypeOK, Scans
  <2> QED
    BY <2>1 DEF RampInv, Unramped, ChosenInv
<1> QED
  BY <1>1, TypeCorrect, RampInvariant, ChosenInvariant, PTL DEF RampedEntries

-----------------------------------------------------------------------------
(* A standing trip stops the entries                                        *)

\* No value of the account is more than five times the half of another one: what
\* reads as a phantom is a wrong reading.
Narrow == \A a, b \in Equities : a <= 5 * (b \div 2)

\* The peak of a row makes no value of the account a phantom.
Peaked(m) == m.hwm > 0 => \A a \in Equities : a <= 5 * m.hwm

\* Every peak there is, in the store, in memory or on its way, is a value of the
\* account or a reading of one.
PeakInv ==
    /\ Peaked(row)
    /\ scan.at \in {"research", "checking"} => Peaked(scan.mem)
    /\ \A i \in 1 .. Len(todo) : todo[i].to = "row" => Peaked(todo[i].val)

\* A candidate is let through by a check that found no trip in memory; a trip
\* stored over a choice came later in the same scan, or a reading was wrong, or a
\* person reset the breaker.
StopInv ==
    /\ scan.chosen # "no" /\ row.tripped => hist.fresh \/ hist.misread \/ hist.crossed
    /\ scan.at = "checking" /\ ~answer.tripped /\ ~hist.misread => ~scan.mem.tripped

\* What a reading may be of.
LEMMA ReadingOf ==
    ASSUME Narrow, TypeOK, NEW r \in Readings
    PROVE  /\ r.balance \in Nat /\ \A a \in Equities : a <= 5 * r.balance
           /\ ~r.wrong => r.balance = equity
<1>1. equity \in Equities /\ Equities \subseteq Nat
  BY BoundsAssumption DEF TypeOK
<1> DEFINE free == ~held
<1>2. \/ r = [balance |-> equity, flat |-> free, wrong |-> FALSE]
      \/ r = [balance |-> 6 * equity, flat |-> free, wrong |-> TRUE]
      \/ r = [balance |-> equity \div 2, flat |-> TRUE, wrong |-> TRUE]
  BY Zenon DEF Readings
<1> HIDE DEF free
<1>3. /\ \/ r.balance = equity
         \/ r.wrong /\ r.balance \in {6 * equity, equity \div 2}
      /\ r.balance \in {equity, 6 * equity, equity \div 2}
  BY <1>2
<1>4. \A a \in Equities : a \in Nat /\ a <= 5 * (equity \div 2)
  BY <1>1 DEF Narrow
<1>5. equity \div 2 \in Nat /\ equity \in Nat /\ equity \div 2 <= equity
  BY <1>1
<1>6. r.balance \in Nat /\ equity \div 2 <= r.balance
  BY <1>3, <1>5
<1>7. \A a \in Equities : a <= 5 * r.balance
  <2> DEFINE half == equity \div 2
             b == r.balance
  <2>1. half \in Nat /\ b \in Nat /\ half <= b /\ \A a \in Equities : a \in Nat /\ a <= 5 * half
    BY <1>4, <1>5, <1>6
  <2> HIDE DEF half, b
  <2>2. \A a \in Equities : a <= 5 * b
    BY <2>1
  <2> QED
    BY <2>2 DEF b
<1> QED
  BY <1>3, <1>6, <1>7

\* Every row a check is to store has the peak that the check leaves in memory.
LEMMA DecidesPeak ==
    ASSUME NEW c, NEW m, NEW cs, NEW balance, NEW flat, Decides(c, m, cs, balance, flat)
    PROVE  \A i \in 1 .. Len(c.writes) :
              c.writes[i].to = "row" => c.writes[i].val.hwm = c.mem.hwm
<1> DEFINE t == c.writes
           n == c.mem
<1>0. t \in Seq(Writes)
  BY DEF Decides
<1> HIDE DEF t, n
<1>1. CASE Keeps(t, n, m)
  BY <1>0, <1>1 DEF Keeps, ToRow, t, n
<1>2. CASE Notes(t, n, m, cs)
  BY <1>0, <1>2 DEF Notes, ToRow, ToCooldown, t, n
<1>3. CASE Disables(t, n, m, cs)
  BY <1>0, <1>3 DEF Disables, ToRow, ToCooldown, EatVeto, t, n
<1>4. CASE GivesBack(t, n, m, cs)
  BY <1>0, <1>4 DEF GivesBack, ToRow, ToCooldown, t, n
<1>5. CASE GivesBackAtPeak(t, n, m, cs)
  BY <1>0, <1>5 DEF GivesBackAtPeak, ToRow, ToCooldown, t, n
<1>6. CASE Fires(t, n, m, cs)
  BY <1>0, <1>6 DEF Fires, ToRow, ToCooldown, ToRamp, t, n
<1>7. CASE Trips(t, n, m, cs)
  BY <1>0, <1>7 DEF Trips, ToRow, ToCooldown, t, n
<1> QED
  BY <1>1, <1>2, <1>3, <1>4, <1>5, <1>6, <1>7 DEF Decides, t, n

\* At the start there is no peak.
THEOREM InitPeakInv == ASSUME Narrow PROVE Init => PeakInv
<1> SUFFICES ASSUME Init PROVE PeakInv
  OBVIOUS
<1>1. row.hwm = 0 /\ scan.at = "idle" /\ Len(todo) = 0
  BY DEF Init, Idle, Untripped
<1> QED
  BY <1>1 DEF PeakInv, Peaked

\* Every step leaves only peaks that make no value of the account a phantom.
THEOREM NextPeakInv ==
    ASSUME Narrow
    PROVE  TypeOK /\ VetoInv /\ PeakInv /\ [Next]_vars => PeakInv'
<1> SUFFICES ASSUME TypeOK, VetoInv, PeakInv, [Next]_vars PROVE PeakInv'
  OBVIOUS
<1>1. CASE Quiet
  BY <1>1 DEF Quiet, PeakInv, Peaked
<1>2. ASSUME NEW c, NEW m, NEW r, Checks(c, m, r) PROVE PeakInv'
  <2>1. PICK flat : Decides(c, m, cst, r.balance, flat)
    BY <1>2 DEF Checks
  <2>2. Peaked(m)
    BY <1>2 DEF Checks, PeakInv
  <2>3. r \in Readings /\ row' = row /\ todo' = c.writes
        /\ \/ scan'.at = "checking" /\ scan'.mem = c.mem
           \/ scan'.at = "executing"
    BY <1>2 DEF Checks
  <2>4. \A a \in Equities : a <= 5 * r.balance
    BY <2>3, ReadingOf
  <2>5. c.mem.hwm \in {m.hwm, r.balance}
    BY <2>1 DEF Decides
  <2>6. Peaked(c.mem)
    BY <2>2, <2>4, <2>5 DEF Peaked
  <2>7. \A i \in 1 .. Len(todo') : todo'[i].to = "row" => Peaked(todo'[i].val)
    BY <2>1, <2>3, <2>6, DecidesPeak DEF Peaked
  <2> QED
    BY <2>3, <2>6, <2>7 DEF PeakInv, Peaked
<1>3. CASE Write
  <2>1. /\ Len(todo) \in Nat /\ Len(todo) > 0 /\ Len(todo') = Len(todo) - 1
        /\ \A i \in 1 .. Len(todo') : todo'[i] = todo[i + 1]
        /\ scan' = scan
        /\ row' = row \/ (todo[1].to = "row" /\ row' = todo[1].val)
    BY <1>3, WriteFields
  <2>2. Peaked(row')
    BY <2>1 DEF PeakInv
  <2>3. \A i \in 1 .. Len(todo') : todo'[i].to = "row" => Peaked(todo'[i].val)
    BY <2>1 DEF PeakInv
  <2> QED
    BY <2>1, <2>2, <2>3, Zenon DEF PeakInv, Peaked
<1>4. CASE Day
  BY <1>4, DayFields DEF PeakInv, Peaked
<1>5. CASE Reset
  <2>1. row'.hwm = equity /\ UNCHANGED <<scan, todo>> /\ equity \in Equities /\ Equities \subseteq Nat
    BY <1>5, ResetFields, BoundsAssumption DEF TypeOK
  <2>2. \A a \in Equities : a \in Nat /\ a <= 5 * (equity \div 2)
    BY <2>1 DEF Narrow
  <2>3. equity \in Nat /\ equity \div 2 \in Nat /\ equity \div 2 <= equity
    BY <2>1
  <2>4. \A a \in Equities : a <= 5 * equity
    <3> DEFINE half == equity \div 2
    <3>1. half \in Nat /\ half <= equity /\ \A a \in Equities : a \in Nat /\ a <= 5 * half
      BY <2>2, <2>3
    <3> HIDE DEF half
    <3> QED
      BY <2>3, <3>1
  <2>5. Peaked(row')
    BY <2>1, <2>4 DEF Peaked
  <2> QED
    BY <2>1, <2>5 DEF PeakInv, Peaked
<1>6. CASE Die
  <2>1. row' = row /\ todo' = <<>> /\ Len(todo') = 0 /\ scan'.at = "idle"
    BY <1>6, DieFields
  <2> QED
    BY <2>1 DEF PeakInv
<1> QED
  BY <1>1, <1>2, <1>3, <1>4, <1>5, <1>6, StepKinds

\* No peak, stored or held or on its way, makes a true value of the account a phantom.
THEOREM PeakInvariant == ASSUME Narrow PROVE Spec => []PeakInv
BY InitPeakInv, NextPeakInv, TypeCorrect, VetoInvariant, PTL DEF Spec

\* When the stored row is tripped after a step that was not a write of the scan's
\* own trip.
LEMMA TripSteps ==
    ASSUME TypeOK, VetoInv, TwinInv, [Next]_vars, row'.tripped
    PROVE  row.tripped \/ hist'.fresh \/ hist.crossed
<1>1. CASE Write
  <2> DEFINE w == todo[1]
  <2>1. /\ todo \in Seq(Writes) /\ Len(todo) \in Nat /\ Len(todo) > 0
        /\ Shaped(todo, row.tripped, hist.vetoed, veto,
                  scan.at = "checking" => scan.mem.tripped)
        /\ row' = row \/ (w.to = "row" /\ row' = w.val /\ RowHistory(w, hist', hist))
    BY <1>1, WriteFields DEF TypeOK
  <2>2. CASE w.to = "row" /\ row' = w.val /\ RowHistory(w, hist', hist)
    <3>1. w.why = "keep" \/ (w.why = "trip" /\ ~row.tripped) \/ ~w.val.tripped
      BY <2>1, <2>2, WriteOrder
    <3>2. w.why = "keep" /\ w.val.tripped => row.tripped \/ hist.crossed
      BY <2>1, <2>2 DEF TwinInv, IsRow
    <3> QED
      BY <2>2, <3>1, <3>2 DEF RowHistory
  <2> QED
    BY <2>1, <2>2
<1>2. CASE Reset
  BY <1>2, ResetFields
<1>3. CASE Day
  BY <1>3, DayFields
<1>4. CASE Quiet \/ Die \/ \E c, m, r : Checks(c, m, r)
  BY <1>4, DieFields DEF Quiet, Checks
<1> QED
  BY <1>1, <1>2, <1>3, <1>4, StepKinds

\* At the start nothing is chosen.
THEOREM InitStopInv == Init => StopInv
BY DEF Init, Idle, StopInv

\* Every step keeps a choice and a standing trip apart, but for what excuses it.
THEOREM NextStopInv ==
    ASSUME Narrow
    PROVE  TypeOK /\ VetoInv /\ TwinInv /\ PeakInv /\ StopInv /\ [Next]_vars => StopInv'
<1> SUFFICES ASSUME TypeOK, VetoInv, TwinInv, PeakInv, StopInv, [Next]_vars PROVE StopInv'
  OBVIOUS
<1> DEFINE Excused == hist.fresh \/ hist.misread \/ hist.crossed
<1>0. /\ scan.chosen # "no" /\ row.tripped => Excused
      /\ scan.at = "checking" /\ ~answer.tripped /\ ~hist.misread => ~scan.mem.tripped
  BY DEF StopInv
<1>1. scan'.chosen # "no" /\ row'.tripped => Excused'
  <2> SUFFICES ASSUME scan'.chosen # "no", row'.tripped PROVE Excused'
    OBVIOUS
  <2>1. row.tripped \/ hist'.fresh \/ hist.crossed
    BY TripSteps
  <2>2. CASE Dropped
    BY <2>2 DEF Dropped
  <2>3. CASE Rests
    <3>1. ~Reset
      BY ResetFields
    <3>2. scan'.chosen = scan.chosen
      BY <2>3 DEF Rests
    <3> QED
      BY <1>0, <2>1, <2>3, <3>1, <3>2 DEF Rests
  <2>4. CASE Onward
    BY <1>0, <2>4 DEF Onward
  <2>5. CASE Judged
    <3>1. /\ scan.at = "checking" /\ todo = <<>> /\ UNCHANGED <<row, hist>>
          /\ ~answer.tripped \/ scan'.chosen = scan.chosen
      BY <2>5 DEF Judged
    <3>2. CASE scan'.chosen = scan.chosen
      BY <1>0, <3>1, <3>2
    <3>3. CASE ~answer.tripped
      <4>1. scan.mem = row \/ ~row.tripped
        BY <3>1 DEF TwinInv
      <4> QED
        BY <1>0, <3>1, <3>3, <4>1
    <3> QED
      BY <3>1, <3>2, <3>3
  <2> QED
    BY <2>2, <2>3, <2>4, <2>5, ScanSteps
<1>2. scan'.at = "checking" /\ ~answer'.tripped /\ ~hist'.misread => ~scan'.mem.tripped
  <2> SUFFICES ASSUME scan'.at = "checking", ~answer'.tripped, ~hist'.misread
               PROVE  ~scan'.mem.tripped
    OBVIOUS
  <2>1. CASE Dropped
    BY <2>1 DEF Dropped
  <2>2. CASE Rests
    BY <1>0, <2>2 DEF Rests
  <2>3. CASE Judged
    BY <2>3 DEF Judged
  <2>4. CASE Onward
    <3>1. PICK c, m, r : Checks(c, m, r)
      BY <2>4 DEF Onward
    <3>2. /\ r \in Readings /\ ~r.wrong /\ answer' = [tripped |-> c.tripped, pct |-> c.pct]
          /\ scan.at = "research" /\ m = scan.mem /\ scan'.mem = c.mem
          /\ Decides(c, m, cst, r.balance, r.flat)
      BY <3>1 DEF Checks
    <3>3. ~c.tripped
      BY <3>2
    <3>4. ~PhantomSpike(m.hwm, r.balance)
      <4>1. r.balance = equity /\ equity \in Equities /\ Peaked(m)
        BY <3>2, ReadingOf DEF TypeOK, PeakInv
      <4>2. m.hwm \in Nat /\ equity \in Nat
        <5>1. m \in Rows
          BY <3>2 DEF TypeOK, Scans
        <5> QED
          BY <4>1, <5>1, BoundsAssumption DEF Rows
      <4> QED
        BY <4>1, <4>2 DEF PhantomSpike, Peaked
    <3> QED
      BY <3>2, <3>3, <3>4 DEF Decides
  <2> QED
    BY <2>1, <2>2, <2>3, <2>4, ScanSteps
<1> QED
  BY <1>1, <1>2 DEF StopInv

\* A scan that holds a choice under a standing trip has one of the three excuses.
THEOREM StopInvariant == ASSUME Narrow PROVE Spec => []StopInv
BY InitStopInv, NextStopInv, TypeCorrect, VetoInvariant, TwinInvariant, PeakInvariant, PTL
DEF Spec

\* The executor, which looks at the level and not at the trip, enters under a
\* standing trip only when this scan stored it after it had let the candidate
\* through, or misread the account, or met a person's reset (check_drawdown,
\* pre_trade_check, _pretrade_risk_checks), when no true value of the account
\* reads as a phantom.
THEOREM TripStops == ASSUME Narrow PROVE Spec => TripStopsEntries
<1>1. StopInv /\ ChosenInv =>
         (Enter => ~row.tripped \/ hist.fresh \/ hist.misread \/ hist.crossed)
  BY DEF StopInv, ChosenInv, Enter, At
<1> QED
  BY <1>1, StopInvariant, ChosenInvariant, PTL DEF TripStopsEntries

-----------------------------------------------------------------------------
(* Two flat resets are far apart                                            *)

\* A re-trip inside of the window of a flat reset is inside of the chain window.
Nested == Retrip <= Chain

\* A standing trip that a flat reset may release began after the window of the
\* last one, or the history has forgotten that one.
Apart(m, disabled, h) ==
    m.tripped /\ ~disabled => h.fired >= FireWindow \/ h.fired >= Retrip + m.age

\* The cooldown state dates the last flat reset no later than it was.
Dated(c, h) == c.flat <= h.fired /\ (c.chain <= h.fired \/ Retrip <= h.fired)

\* A cooldown state c that is to be stored ahead of the write w.
CooldownApart(c, w, r, h) ==
    /\ Dated(c, h) /\ Apart(r, c.disabled, h) /\ Apart(w.val, c.disabled, h)
    /\ w.why = "fire" => c.chain = 0 /\ c.flat = 0

ApartWrites(t, r, h) ==
    \A i \in 1 .. Len(t) :
        /\ IsRow(t[i], "fire") => h.fired >= FireWindow
        /\ IsCst(t[i]) => i < Len(t) /\ CooldownApart(t[i].val, t[i + 1], r, h)
        /\ IsCst(t[i]) /\ i > 1 /\ t[i - 1].to = "row" => Apart(t[i - 1].val, t[i].val.disabled, h)

ApartHead(w, r, c, h) ==
    w.to = "row" => /\ Apart(w.val, c.disabled, h)
                    /\ w.why = "fire" /\ r.tripped => c.chain = 0 /\ c.flat = 0

\* A trip in the store, in memory or on its way is for a person, or old enough.
ApartInv ==
    /\ Dated(cst, hist) /\ Apart(row, cst.disabled, hist)
    /\ todo # <<>> => ApartHead(todo[1], row, cst, hist)
    /\ ApartWrites(todo, row, hist)

\* The types the argument about the flat resets needs.
LEMMA ApartTypes ==
    ASSUME TypeOK
    PROVE  /\ Retrip \in Nat /\ G1Days \in Nat /\ Chain \in Nat
           /\ FireWindow \in Nat /\ FireWindow = Retrip + G1Days
           /\ row.age \in Nat /\ cst.flat \in 0 .. Retrip /\ cst.chain \in 0 .. Chain
           /\ hist.fired \in 0 .. FireWindow
           /\ \A i \in 1 .. Len(todo) :
                 /\ IsCst(todo[i]) => todo[i].val.flat \in 0 .. Retrip
                 /\ todo[i].to = "row" => todo[i].val.age \in Nat
<1>1. /\ row \in Rows /\ cst \in Cooldowns /\ hist \in Histories
      /\ \A i \in 1 .. Len(todo) : /\ IsCst(todo[i]) => todo[i].val \in Cooldowns
                                   /\ todo[i].to = "row" => todo[i].val \in Rows
  BY EarnedTypes DEF TypeOK
<1>2. FireWindow \in Nat /\ FireWindow = Retrip + G1Days /\ Retrip \in Nat /\ G1Days \in Nat
      /\ Chain \in Nat
  BY FireWindowType, DurationsAssumption DEF FireWindow
<1>3. \A m \in Rows : m.age \in Nat
  BY MaxAgeType DEF Rows
<1>4. \A c \in Cooldowns : c.flat \in 0 .. Retrip /\ c.chain \in 0 .. Chain
  BY DEF Cooldowns
<1>5. hist.fired \in 0 .. FireWindow
  BY <1>1 DEF Histories
<1> QED
  BY <1>1, <1>2, <1>3, <1>4, <1>5

\* What a check leaves in the list is apart.
LEMMA CheckApart ==
    ASSUME Nested, TypeOK, TwinInv, ApartInv, NEW c, NEW m, NEW r, Checks(c, m, r)
    PROVE  ApartInv'
<1> DEFINE t == c.writes
           n == c.mem
<1>0. /\ Retrip \in Nat /\ G1Days \in Nat /\ Chain \in Nat
      /\ FireWindow \in Nat /\ FireWindow = Retrip + G1Days
      /\ cst.flat \in 0 .. Retrip /\ cst.chain \in 0 .. Chain
      /\ hist.fired \in 0 .. FireWindow
  BY ApartTypes
<1>1. /\ todo = <<>> /\ row' = row /\ cst' = cst /\ todo' = t /\ SameClocks(hist', hist)
      /\ \E flat : Decides(c, m, cst, r.balance, flat)
  BY DEF Checks
<1>2. m = row \/ (~row.tripped /\ hist.fired = FireWindow)
  BY DEF Checks, TwinInv
<1>3. Dated(cst, hist) /\ Apart(row, cst.disabled, hist)
  BY DEF ApartInv
<1>4. Apart(m, cst.disabled, hist)
  BY <1>0, <1>2, <1>3 DEF Apart
<1>5. m.age \in Nat
  <2>1. row \in Rows /\ scan.mem \in Rows
    BY DEF TypeOK, Scans
  <2>2. m \in Rows
    BY <2>1 DEF Checks
  <2> QED
    BY <2>2, MaxAgeType DEF Rows
<1>6. m.tripped \/ ~row.tripped
  BY <1>2
<1> HIDE DEF t, n
<1>7. /\ \A x, d : SameTrip(x, m) => (Apart(x, d, hist) <=> Apart(m, d, hist))
      /\ \A x, d : ~x.tripped => Apart(x, d, hist)
      /\ \A k \in Cooldowns : ToCooldown(k).to = "cst" /\ ToCooldown(k).val = k
      /\ \A p, why : ToRow(p, why).to = "row" /\ ToRow(p, why).val = p /\ ToRow(p, why).why = why
      /\ ToRamp.to = "ramp" /\ EatVeto.to = "veto"
  BY DEF Apart, SameTrip, ToRow, ToCooldown, ToRamp, EatVeto
<1>8. ASSUME NEW k, SameCooldown(k, cst)
      PROVE  Dated(k, hist) /\ Apart(row, k.disabled, hist) /\ Apart(m, k.disabled, hist)
  BY <1>3, <1>4, <1>8 DEF SameCooldown, Dated
<1>9. ASSUME NEW k, Opens(k, cst)
      PROVE  /\ Dated(k, hist) /\ Apart(row, k.disabled, hist) /\ Apart(m, k.disabled, hist)
             /\ k.chain = 0
  BY <1>0, <1>3, <1>4, <1>9 DEF Opens, Dated
<1> DEFINE Fine == ApartHead(t[1], row, cst, hist) /\ ApartWrites(t, row, hist)
<1>10. ASSUME Keeps(t, n, m)
       PROVE  Fine
  <2>1. Len(t) = 1 /\ t[1].to = "row" /\ t[1].why = "keep" /\ Apart(t[1].val, cst.disabled, hist)
    BY <1>4, <1>7, <1>10 DEF Keeps
  <2> QED
    BY <2>1 DEF ApartHead, ApartWrites, IsRow, IsCst
<1>11. ASSUME Notes(t, n, m, cst)
       PROVE  Fine
  <2>1. PICK k \in Cooldowns : t[1] = ToCooldown(k) /\ SameCooldown(k, cst)
    BY <1>11 DEF Notes
  <2>2. /\ Len(t) = 2 /\ t[1].to = "cst" /\ t[1].val = k /\ t[2].to = "row" /\ t[2].why = "keep"
        /\ Apart(t[2].val, k.disabled, hist)
    BY <1>7, <1>8, <1>11, <2>1 DEF Notes
  <2> QED
    BY <1>8, <2>1, <2>2 DEF ApartHead, ApartWrites, CooldownApart, IsRow, IsCst
<1>12. ASSUME Disables(t, n, m, cst)
       PROVE  Fine
  <2>1. PICK k \in Cooldowns : /\ t[2] = ToCooldown(k)
                               /\ k.mult = cst.mult /\ k.chain = cst.chain
                               /\ k.flat = cst.flat /\ k.disabled
    BY <1>12 DEF Disables
  <2>2. /\ Len(t) = 3 /\ t[1].to = "veto" /\ t[2].to = "cst" /\ t[2].val = k
        /\ t[3].to = "row" /\ t[3].why = "keep"
    BY <1>7, <1>12, <2>1 DEF Disables
  <2>3. Dated(k, hist) /\ \A x : Apart(x, k.disabled, hist)
    BY <1>3, <2>1 DEF Dated, Apart
  <2> QED
    BY <2>2, <2>3 DEF ApartHead, ApartWrites, CooldownApart, IsRow, IsCst
<1>13. ASSUME GivesBack(t, n, m, cst)
       PROVE  Fine
  <2>1. PICK k \in Cooldowns : t[1] = ToCooldown(k) /\ Opens(k, cst)
    BY <1>13 DEF GivesBack
  <2>2. /\ Len(t) = 3 /\ t[1].to = "cst" /\ t[1].val = k /\ t[2].to = "row" /\ t[2].why = "tiered"
        /\ t[3].to = "row" /\ t[3].why = "keep" /\ Apart(t[2].val, k.disabled, hist)
    BY <1>7, <1>13, <2>1 DEF GivesBack
  <2> QED
    BY <1>9, <2>1, <2>2 DEF ApartHead, ApartWrites, CooldownApart, IsRow, IsCst
<1>14. ASSUME GivesBackAtPeak(t, n, m, cst)
       PROVE  Fine
  <2>1. PICK k \in Cooldowns : t[2] = ToCooldown(k) /\ Opens(k, cst)
    BY <1>14 DEF GivesBackAtPeak
  <2>2. PICK p \in Rows : t[1] = ToRow(p, "keep") /\ SameTrip(p, m)
    BY <1>14 DEF GivesBackAtPeak
  <2>3. /\ Len(t) = 3 /\ t[1].to = "row" /\ t[1].why = "keep" /\ t[1].val = p
        /\ t[2].to = "cst" /\ t[2].val = k /\ t[3].to = "row" /\ t[3].why = "tiered"
        /\ Apart(t[3].val, k.disabled, hist)
    BY <1>7, <1>14, <2>1, <2>2 DEF GivesBackAtPeak
  <2>4. Apart(p, cst.disabled, hist) /\ Apart(p, k.disabled, hist)
    BY <1>4, <1>7, <1>9, <2>1, <2>2
  <2> QED
    BY <1>9, <2>1, <2>3, <2>4 DEF ApartHead, ApartWrites, CooldownApart, IsRow, IsCst
<1>15. ASSUME Fires(t, n, m, cst)
       PROVE  Fine
  <2>1. PICK k \in Cooldowns : /\ t[1] = ToCooldown(k) /\ k.mult = cst.mult /\ k.chain = 0
                               /\ k.flat = 0 /\ k.disabled = cst.disabled
    BY <1>15 DEF Fires
  <2>2. /\ Len(t) = 4 /\ t[1].to = "cst" /\ t[1].val = k /\ t[2].to = "row" /\ t[2].why = "fire"
        /\ t[3].to = "ramp" /\ t[4].to = "row" /\ t[4].why = "keep"
        /\ Apart(t[2].val, k.disabled, hist)
    BY <1>7, <1>15, <2>1 DEF Fires
  <2>3. hist.fired >= FireWindow
    BY <1>0, <1>4, <1>5, <1>15 DEF Fires, Apart
  <2>4. Dated(k, hist) /\ Apart(row, k.disabled, hist)
    BY <1>0, <1>3, <2>1 DEF Dated
  <2> QED
    BY <2>1, <2>2, <2>3, <2>4 DEF ApartHead, ApartWrites, CooldownApart, IsRow, IsCst
<1>16. ASSUME Trips(t, n, m, cst)
       PROVE  Fine
  <2>1. PICK k \in Cooldowns :
           /\ t[1] = ToCooldown(k) /\ k.chain = cst.chain /\ k.flat = cst.flat
           /\ k.disabled = (cst.chain < Chain /\ (cst.disabled \/ cst.flat < Retrip))
    BY <1>16 DEF Trips
  <2>2. /\ Len(t) = 2 /\ t[1].to = "cst" /\ t[1].val = k /\ t[2].to = "row" /\ t[2].why = "trip"
        /\ t[2].val = n /\ n.age = 0 /\ ~m.tripped
    BY <1>7, <1>16, <2>1 DEF Trips
  <2>3. ~k.disabled => cst.chain >= Chain \/ cst.flat >= Retrip
    <3>1. cst.chain < Chain /\ cst.flat < Retrip => k.disabled
      BY <2>1, Zenon
    <3> QED
      BY <1>0, <3>1
  <2>4. ~k.disabled => hist.fired >= Retrip
    BY <1>0, <1>3, <2>3 DEF Dated, Nested
  <2>5. Apart(n, k.disabled, hist)
    BY <1>0, <2>2, <2>4 DEF Apart
  <2>6. Dated(k, hist) /\ Apart(row, k.disabled, hist)
    BY <1>3, <1>6, <1>7, <2>1, <2>2 DEF Dated
  <2> QED
    BY <2>2, <2>5, <2>6 DEF ApartHead, ApartWrites, CooldownApart, IsRow, IsCst
<1>17. Fine
  BY <1>1, <1>10, <1>11, <1>12, <1>13, <1>14, <1>15, <1>16 DEF Decides, t, n
<1>18. ApartHead(t[1], row, cst, hist') /\ ApartWrites(t, row, hist')
  BY <1>1, <1>17 DEF SameClocks, ApartHead, ApartWrites, CooldownApart, Dated, Apart
<1>19. Dated(cst, hist') /\ Apart(row, cst.disabled, hist')
  BY <1>1, <1>3 DEF SameClocks, Dated, Apart
<1> QED
  BY <1>1, <1>18, <1>19, Zenon DEF ApartInv

\* The stores of a list that is apart leave the rest of it so.
LEMMA WriteApart ==
    ASSUME TypeOK, VetoInv, ApartInv, Write
    PROVE  ApartInv'
<1> DEFINE w == todo[1]
<1>0. /\ Retrip \in Nat /\ FireWindow \in Nat /\ hist.fired \in 0 .. FireWindow
      /\ todo \in Seq(Writes)
  BY ApartTypes DEF TypeOK
<1>1. /\ Len(todo) \in Nat /\ Len(todo) > 0 /\ todo' \in Seq(Writes) /\ w \in Writes
      /\ Len(todo') = Len(todo) - 1
      /\ \A i \in 1 .. Len(todo') : todo'[i] = todo[i + 1]
      /\ Shaped(todo, row.tripped, hist.vetoed, veto, scan.at = "checking" => scan.mem.tripped)
      /\ \/ w.to = "row" /\ row' = w.val /\ cst' = cst /\ RowHistory(w, hist', hist)
         \/ w.to = "cst" /\ cst' = w.val /\ UNCHANGED <<row, hist>>
         \/ w.to = "ramp" /\ UNCHANGED <<row, cst, hist>>
         \/ w.to = "veto" /\ UNCHANGED <<row, cst, hist>>
  BY WriteFields
<1>2. todo # <<>>
  BY <1>0, <1>1, EmptySeq
<1>3. /\ Dated(cst, hist) /\ Apart(row, cst.disabled, hist)
      /\ ApartHead(w, row, cst, hist) /\ ApartWrites(todo, row, hist)
  BY <1>2 DEF ApartInv
<1>4. /\ w.to = "row" =>
            \/ w.why = "keep" /\ Len(todo) = 1
            \/ w.why = "keep" /\ Len(todo) = 3 /\ IsCst(todo[2]) /\ IsRow(todo[3], "tiered")
            \/ w.why = "tiered" /\ ~w.val.tripped /\ Len(todo) = 1
            \/ /\ w.why = "tiered" /\ ~w.val.tripped
               /\ Len(todo) = 2 /\ IsRow(todo[2], "keep") /\ ~todo[2].val.tripped
            \/ /\ w.why = "fire" /\ ~w.val.tripped
               /\ Len(todo) = 3 /\ todo[2].to = "ramp" /\ IsRow(todo[3], "keep")
               /\ ~todo[3].val.tripped
            \/ w.why = "trip" /\ Len(todo) = 1
      /\ w.to = "cst" => Len(todo) > 1 /\ todo[2].to = "row"
      /\ w.to = "ramp" => Len(todo) = 2 /\ IsRow(todo[2], "keep") /\ ~todo[2].val.tripped
      /\ w.to = "veto" => Len(todo) = 3 /\ IsCst(todo[2]) /\ IsRow(todo[3], "keep")
  BY <1>0, <1>1, WriteOrder
<1> HIDE DEF w
<1>5. CASE w.to # "row"
  <2>1. hist' = hist /\ row' = row /\ (w.to = "cst" \/ cst' = cst) /\ Len(todo) > 1
    BY <1>1, <1>4, <1>5
  <2>2. 1 \in 1 .. Len(todo) /\ 1 \in 1 .. Len(todo') /\ todo'[1] = todo[2]
    <3>1. 1 \in 1 .. Len(todo) /\ 1 \in 1 .. Len(todo')
      BY <1>1, <2>1
    <3>2. todo'[1] = todo[1 + 1]
      BY <1>1, <3>1
    <3> QED
      BY <3>1, <3>2
  <2>3. w.to = "cst" => CooldownApart(w.val, todo[2], row, hist) /\ cst' = w.val
    BY <1>1, <1>3, <2>2 DEF ApartWrites, IsCst, w
  <2>4. Dated(cst', hist') /\ Apart(row', cst'.disabled, hist')
    BY <1>3, <2>1, <2>3 DEF CooldownApart
  <2>5. ApartHead(todo'[1], row', cst', hist')
    <3>1. CASE w.to = "cst"
      BY <2>1, <2>2, <2>3, <3>1 DEF ApartHead, CooldownApart
    <3>2. CASE w.to = "ramp"
      BY <1>4, <2>2, <3>2 DEF ApartHead, Apart, IsRow
    <3>3. CASE w.to = "veto"
      BY <1>4, <2>2, <3>3 DEF ApartHead, IsCst
    <3> QED
      BY <1>1, <1>5, <3>1, <3>2, <3>3
  <2>6. ApartWrites(todo', row', hist')
    <3> SUFFICES ASSUME NEW i \in 1 .. Len(todo')
                 PROVE  /\ IsRow(todo'[i], "fire") => hist'.fired >= FireWindow
                        /\ IsCst(todo'[i]) =>
                              i < Len(todo') /\ CooldownApart(todo'[i].val, todo'[i + 1], row', hist')
                        /\ IsCst(todo'[i]) /\ i > 1 /\ todo'[i - 1].to = "row" =>
                              Apart(todo'[i - 1].val, todo'[i].val.disabled, hist')
      BY DEF ApartWrites
    <3> DEFINE j == i + 1
    <3>1. j \in 1 .. Len(todo) /\ todo'[i] = todo[j] /\ (j < Len(todo) <=> i < Len(todo'))
      BY <1>1
    <3>2. j < Len(todo) => todo'[i + 1] = todo[j + 1]
      BY <1>1
    <3>3. i > 1 => j > 1 /\ todo'[i - 1] = todo[j - 1]
      BY <1>1
    <3> HIDE DEF j
    <3>4. /\ IsRow(todo[j], "fire") => hist.fired >= FireWindow
          /\ IsCst(todo[j]) => j < Len(todo) /\ CooldownApart(todo[j].val, todo[j + 1], row, hist)
          /\ IsCst(todo[j]) /\ j > 1 /\ todo[j - 1].to = "row" =>
                Apart(todo[j - 1].val, todo[j].val.disabled, hist)
      BY <1>3, <3>1 DEF ApartWrites
    <3> QED
      BY <2>1, <3>1, <3>2, <3>3, <3>4, Zenon
  <2> QED
    BY <2>4, <2>5, <2>6, Zenon DEF ApartInv
<1>6. CASE w.to = "row" /\ w.why = "keep"
  <2>1. hist' = hist /\ cst' = cst /\ row' = w.val
    BY <1>1, <1>6 DEF RowHistory
  <2>2. Dated(cst', hist') /\ Apart(row', cst'.disabled, hist')
    BY <1>3, <1>6, <2>1 DEF ApartHead
  <2>3. CASE Len(todo) = 1
    <3>1. Len(todo') = 0 /\ todo' = <<>>
      BY <1>1, <2>3, EmptySeq
    <3> QED
      BY <2>2, <3>1 DEF ApartInv, ApartWrites
  <2>4. CASE Len(todo) = 3 /\ IsCst(todo[2]) /\ IsRow(todo[3], "tiered")
    <3>1. Len(todo') = 2 /\ todo'[1] = todo[2] /\ todo'[2] = todo[3]
      BY <1>1, <2>4
    <3>2. CooldownApart(todo[2].val, todo[3], row, hist) /\ Apart(w.val, todo[2].val.disabled, hist)
      BY <1>3, <1>6, <2>4 DEF ApartWrites, w
    <3>3. CooldownApart(todo[2].val, todo[3], row', hist')
      BY <2>1, <3>2 DEF CooldownApart
    <3>4. ApartHead(todo'[1], row', cst', hist')
      BY <2>4, <3>1 DEF ApartHead, IsCst
    <3>5. ApartWrites(todo', row', hist')
      BY <2>4, <3>1, <3>3 DEF ApartWrites, IsRow, IsCst
    <3> QED
      BY <2>2, <3>4, <3>5, Zenon DEF ApartInv
  <2> QED
    BY <1>4, <1>6, <2>3, <2>4
<1>7. CASE w.to = "row" /\ w.why \in {"tiered", "fire"}
  <2>1. /\ cst' = cst /\ row' = w.val /\ ~row'.tripped
        /\ hist'.fired = hist.fired \/ (w.why = "fire" /\ row.tripped /\ hist'.fired = 0)
    BY <1>1, <1>4, <1>7 DEF RowHistory
  <2>2. Dated(cst', hist') /\ Apart(row', cst'.disabled, hist')
    BY <1>0, <1>3, <1>7, <2>1 DEF ApartHead, Dated, Apart
  <2>3. \/ todo' = <<>> /\ Len(todo') = 0
        \/ Len(todo') = 1 /\ IsRow(todo'[1], "keep") /\ ~todo'[1].val.tripped
        \/ Len(todo') = 2 /\ todo'[1].to = "ramp" /\ IsRow(todo'[2], "keep")
    BY <1>1, <1>4, <1>7, EmptySeq
  <2>4. CASE todo' = <<>> /\ Len(todo') = 0
    BY <2>2, <2>4 DEF ApartInv, ApartWrites
  <2>5. CASE Len(todo') = 1 /\ IsRow(todo'[1], "keep") /\ ~todo'[1].val.tripped
    <3>1. ApartWrites(todo', row', hist')
      BY <2>5 DEF ApartWrites, IsRow, IsCst
    <3>2. ApartHead(todo'[1], row', cst', hist')
      BY <2>5 DEF ApartHead, Apart, IsRow
    <3> QED
      BY <2>2, <3>1, <3>2, Zenon DEF ApartInv
  <2>6. CASE Len(todo') = 2 /\ todo'[1].to = "ramp" /\ IsRow(todo'[2], "keep")
    <3>1. ApartWrites(todo', row', hist')
      BY <2>6 DEF ApartWrites, IsRow, IsCst
    <3>2. ApartHead(todo'[1], row', cst', hist')
      BY <2>6 DEF ApartHead, IsRow
    <3> QED
      BY <2>2, <3>1, <3>2, Zenon DEF ApartInv
  <2> QED
    BY <2>3, <2>4, <2>5, <2>6
<1>8. CASE w.to = "row" /\ w.why = "trip"
  <2>1. hist'.fired = hist.fired /\ cst' = cst /\ row' = w.val
    BY <1>1, <1>8 DEF RowHistory
  <2>2. Dated(cst', hist') /\ Apart(row', cst'.disabled, hist')
    BY <1>3, <1>8, <2>1 DEF ApartHead, Dated, Apart
  <2>3. Len(todo) = 1
    BY <1>4, <1>8
  <2>4. Len(todo') = 0 /\ todo' = <<>>
    BY <1>1, <2>3, EmptySeq
  <2> QED
    BY <2>2, <2>4 DEF ApartInv, ApartWrites
<1> QED
  BY <1>4, <1>5, <1>6, <1>7, <1>8

\* At the start there is no trip and no flat reset in the window.
THEOREM InitApartInv == Init => ApartInv
<1> SUFFICES ASSUME Init PROVE ApartInv
  OBVIOUS
<1>1. /\ cst.flat = Retrip /\ row.tripped = FALSE /\ todo = <<>> /\ Len(todo) = 0
      /\ hist.fired = FireWindow
  BY DEF Init, FreshCooldown, Untripped, NoHistory
<1>2. Retrip \in Nat /\ Retrip <= FireWindow
  BY DurationsAssumption DEF FireWindow
<1> QED
  BY <1>1, <1>2 DEF ApartInv, ApartWrites, Dated, Apart

\* Every step keeps the next flat reset away from the last one.
THEOREM NextApartInv ==
    ASSUME Nested
    PROVE  TypeOK /\ VetoInv /\ TwinInv /\ ApartInv /\ [Next]_vars => ApartInv'
<1> SUFFICES ASSUME TypeOK, VetoInv, TwinInv, ApartInv, [Next]_vars PROVE ApartInv'
  OBVIOUS
<1>0. /\ Retrip \in Nat /\ G1Days \in Nat /\ Chain \in Nat
      /\ FireWindow \in Nat /\ FireWindow = Retrip + G1Days
      /\ row.age \in Nat /\ cst.flat \in 0 .. Retrip /\ cst.chain \in 0 .. Chain
      /\ hist.fired \in 0 .. FireWindow
      /\ \A i \in 1 .. Len(todo) : IsCst(todo[i]) => todo[i].val.flat \in 0 .. Retrip
  BY ApartTypes
<1>1. /\ Dated(cst, hist) /\ Apart(row, cst.disabled, hist)
      /\ todo # <<>> => ApartHead(todo[1], row, cst, hist)
      /\ ApartWrites(todo, row, hist)
  BY DEF ApartInv
<1>2. CASE Quiet
  <2>1. /\ row' = row /\ todo' = todo /\ cst'.chain = cst.chain /\ cst'.flat = cst.flat
        /\ cst'.disabled = cst.disabled /\ hist'.fired = hist.fired
    BY <1>2 DEF Quiet, SameCooldown, SameClocks
  <2>2. Dated(cst', hist') /\ Apart(row', cst'.disabled, hist')
    BY <1>1, <2>1 DEF Dated, Apart
  <2>3. todo # <<>> => ApartHead(todo[1], row', cst', hist')
    BY <1>1, <2>1 DEF ApartHead, Apart
  <2>4. ApartWrites(todo, row', hist')
    BY <1>1, <2>1 DEF ApartWrites, CooldownApart, Dated, Apart
  <2> QED
    BY <2>1, <2>2, <2>3, <2>4, Zenon DEF ApartInv
<1>3. ASSUME NEW c, NEW m, NEW r, Checks(c, m, r) PROVE ApartInv'
  BY <1>3, CheckApart
<1>4. CASE Write
  BY <1>4, WriteApart
<1>5. CASE Day
  <2>1. /\ todo' = <<>> /\ Len(todo') = 0
        /\ row'.tripped = row.tripped /\ row'.age <= row.age + 1
        /\ cst'.disabled = cst.disabled
        /\ cst'.chain = Min({cst.chain + 1, Chain}) /\ cst'.flat = Min({cst.flat + 1, Retrip})
        /\ hist'.fired = Min({hist.fired + 1, FireWindow})
    BY <1>5, DayFields
  <2>2. row'.age \in Nat
    <3>1. TypeOK'
      BY NextTypeOK
    <3> QED
      BY <3>1, MaxAgeType DEF TypeOK, Rows
  <2>3. \A a, b \in Nat : LET x == Min({a, b})
                          IN  x \in Nat /\ x <= a /\ x <= b /\ (x = a \/ (x = b /\ a >= b))
    BY MinOfTwo
  <2>6. cst'.flat <= cst.flat + 1 /\ cst'.flat <= Retrip /\ cst'.flat \in Nat
    <3> DEFINE f == cst.flat + 1
    <3>1. f \in Nat /\ cst'.flat = Min({f, Retrip})
      BY <1>0, <2>1
    <3> HIDE DEF f
    <3>2. Retrip \in Nat
      BY DurationsAssumption
    <3>3. LET x == Min({f, Retrip}) IN x \in Nat /\ x <= f /\ x <= Retrip
      BY <2>3, <3>1, <3>2
    <3>4. cst'.flat <= f /\ cst'.flat <= Retrip /\ cst'.flat \in Nat
      BY <3>1, <3>3
    <3> QED
      BY <3>4 DEF f
  <2>7. cst'.chain <= cst.chain + 1 /\ cst'.chain \in Nat
    <3> DEFINE k == cst.chain + 1
    <3>1. k \in Nat /\ cst'.chain = Min({k, Chain})
      BY <1>0, <2>1
    <3> HIDE DEF k
    <3>2. cst'.chain <= k /\ cst'.chain \in Nat
      BY <1>0, <2>3, <3>1
    <3> QED
      BY <3>2 DEF k
  <2>8. hist'.fired = hist.fired + 1 \/ (hist'.fired = FireWindow /\ hist.fired + 1 >= FireWindow)
    <3> DEFINE f == hist.fired + 1
    <3>1. f \in Nat /\ hist'.fired = Min({f, FireWindow})
      BY <1>0, <2>1
    <3> HIDE DEF f
    <3>2. hist'.fired = f \/ (hist'.fired = FireWindow /\ f >= FireWindow)
      BY <1>0, <2>3, <3>1
    <3> QED
      BY <3>2 DEF f
  <2>4. Dated(cst', hist')
    BY <1>0, <1>1, <2>6, <2>7, <2>8 DEF Dated
  <2>5. Apart(row', cst'.disabled, hist')
    <3> SUFFICES ASSUME row'.tripped, ~cst'.disabled
                 PROVE  hist'.fired >= FireWindow \/ hist'.fired >= Retrip + row'.age
      BY DEF Apart
    <3>1. row.tripped /\ ~cst.disabled
      BY <2>1
    <3>2. hist.fired >= FireWindow \/ hist.fired >= Retrip + row.age
      BY <1>1, <3>1 DEF Apart
    <3>3. row'.age <= row.age + 1
      BY <2>1
    <3> QED
      BY <1>0, <2>2, <2>8, <3>2, <3>3
  <2> QED
    BY <2>1, <2>4, <2>5 DEF ApartInv, ApartWrites
<1>6. CASE Reset
  <2>1. /\ todo' = todo /\ row'.tripped = FALSE /\ cst'.flat = Retrip
        /\ hist'.fired = FireWindow
    BY <1>6, ResetFields
  <2>2. \A m, d : Apart(m, d, hist')
    BY <1>0, <2>1 DEF Apart
  <2>3. Dated(cst', hist')
    BY <1>0, <2>1 DEF Dated
  <2>4. todo # <<>> => ApartHead(todo[1], row', cst', hist')
    BY <2>1, <2>2 DEF ApartHead
  <2>5. ASSUME NEW i \in 1 .. Len(todo), IsCst(todo[i])
        PROVE  i < Len(todo) /\ CooldownApart(todo[i].val, todo[i + 1], row', hist')
    <3>1. i < Len(todo) /\ CooldownApart(todo[i].val, todo[i + 1], row, hist)
      BY <1>1, <2>5 DEF ApartWrites
    <3>2. Dated(todo[i].val, hist')
      BY <1>0, <2>1, <2>5 DEF Dated
    <3> QED
      BY <2>2, <3>1, <3>2 DEF CooldownApart
  <2>6. hist'.fired >= FireWindow
    BY <1>0, <2>1
  <2>7. ApartWrites(todo, row', hist')
    BY <2>2, <2>5, <2>6 DEF ApartWrites
  <2> QED
    BY <2>1, <2>2, <2>3, <2>4, <2>7, Zenon DEF ApartInv
<1>7. CASE Die
  <2>1. UNCHANGED <<row, cst>> /\ todo' = <<>> /\ Len(todo') = 0 /\ hist'.fired = hist.fired
    BY <1>7, DieFields DEF SameClocks
  <2>2. Dated(cst', hist') /\ Apart(row', cst'.disabled, hist')
    BY <1>1, <2>1 DEF Dated, Apart
  <2> QED
    BY <2>1, <2>2 DEF ApartInv, ApartWrites
<1> QED
  BY <1>2, <1>3, <1>4, <1>5, <1>6, <1>7, StepKinds

\* A trip that a flat reset may release began after the window of the last one.
THEOREM ApartInvariant == ASSUME Nested PROVE Spec => []ApartInv
BY InitApartInv, NextApartInv, TypeCorrect, VetoInvariant, TwinInvariant, PTL DEF Spec

\* Two flat resets are never closer than the window of the re-trip rule and the
\* first gate together, whatever dies between a cooldown state and its row
\* (check_drawdown, _flat_fire), when the chain window is not the shorter one.
THEOREM FlatResetsApart == ASSUME Nested PROVE Spec => FiresApart
<1>1. TypeOK /\ ApartInv => (Releases("fire") => hist.fired >= FireWindow)
  <2> SUFFICES ASSUME TypeOK, ApartInv, Releases("fire") PROVE hist.fired >= FireWindow
    OBVIOUS
  <2>1. todo \in Seq(Writes) /\ todo # <<>>
    BY DEF TypeOK, Releases
  <2>2. 1 \in 1 .. Len(todo) /\ Head(todo) = todo[1]
    BY <2>1, TailFacts
  <2> QED
    BY <2>2 DEF Releases, IsRow, ApartInv, ApartWrites
<1> QED
  BY <1>1, TypeCorrect, ApartInvariant, PTL DEF FiresApart
=============================================================================
