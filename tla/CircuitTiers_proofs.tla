------------------------ MODULE CircuitTiers_proofs ------------------------
(***************************************************************************)
(* Proofs about CircuitTiers: the tiers implement the latch of TierLatch,   *)
(* and what an undisturbed round releases had recovered; types, the entry    *)
(* gate, how far a round sells and which rows it closes.  The first two need *)
(* nothing of what equity adds up to; the others add it up position by       *)
(* position, with the lemmas of SumTheorems.                                 *)
(***************************************************************************)
EXTENDS CircuitTiers, SumTheorems

\* A stored state, whatever its day and its anchor are.
Stored(k) ==
    k \in [tier : 0 .. 3, tripped : Int, day : {k.day}, anchor : {k.anchor}]

TierTypes ==
    /\ clock \in Nat
    /\ Stored(kv) /\ Stored(st)
    /\ human = [busy |-> human.busy, k |-> human.k] /\ Stored(human.k)

\* A tier and the time of its trip go together.
Dated(k) ==
    /\ k.tier = 0 => k.tripped = Never
    /\ k.tier > 0 => k.tripped \in 0 .. clock

\* What a round is about to store is a legal successor of what is stored now,
\* also when a person has reset the tiers in between.
MayFollow(old, new) ==
    /\ new.tier = 0 =>
         old.tier = 0 \/ (old.tier \in {1, 2} /\ clock - old.tripped >= Cooldown)
    /\ new.tier > 0 => new.tier > old.tier
                         \/ (new.tier = old.tier /\ new.tripped = old.tripped)

LatchInv ==
    /\ TierTypes
    /\ Dated(kv)
    /\ pc = "sell" => Dated(st) /\ MayFollow(kv, st)

-----------------------------------------------------------------------------
(* Operators                                                                *)

LEMMA AnchoredKeepsTier ==
    ASSUME NEW k, NEW e, Stored(k)
    PROVE  /\ Stored(Anchored(k, e))
           /\ Anchored(k, e).tier = k.tier /\ Anchored(k, e).tripped = k.tripped
BY DEF Stored, Anchored

LEMMA Updated ==
    ASSUME NEW k, NEW n \in 0 .. 3, NEW t \in Int
    PROVE  /\ Stored(Update(k, n, t))
           /\ Update(k, n, t).tier = n
           /\ Update(k, n, t).tripped = t
BY DEF Stored, Update

LEMMA Cleared == 0 \in 0 .. 3 /\ Never \in Int
BY DEF Never

LEMMA TargetType == ASSUME NEW x, NEW y PROVE Target(x, y) \in 0 .. 3
<1>1. Target(x, y) \in {0, 1, 2, 3}
  BY Zenon DEF Target
<1> QED
  BY <1>1

\* A decision keeps the tier and its time, raises the tier now, or releases it.
LEMMA DecidedFollows ==
    ASSUME NEW k, NEW e, Stored(k), Dated(k), clock \in Nat
    PROVE  /\ Stored(Decided(k, e)) /\ Dated(Decided(k, e))
           /\ MayFollow(k, Decided(k, e))
<1> DEFINE target == Target(k.anchor, e)
           new == Latched(target, k.tier)
<1>1. target \in 0 .. 3
  BY TargetType
<1>2. /\ new \in 0 .. 3 /\ new >= k.tier
      /\ target = 0 => new = k.tier
  BY <1>1 DEF Latched, Stored
<1> HIDE DEF target, new
<1> DEFINE d == Decided(k, e)
<1>3. d = IF Released(k, new, target, e) THEN Update(k, 0, Never)
          ELSE Update(k, new, IF new > k.tier THEN clock ELSE k.tripped)
  BY Zenon DEF Decided, target, new
<1>4. k.tier \in 0 .. 3 /\ k.tripped \in Int
  BY DEF Stored
<1> HIDE DEF d
<1>5. CASE Released(k, new, target, e)
  <2>1. Stored(d) /\ d.tier = 0 /\ d.tripped = Never
    BY <1>3, <1>5, Cleared, Updated
  <2>2. k.tier \in {1, 2} /\ clock - k.tripped >= Cooldown
    BY <1>2, <1>5 DEF Released
  <2> QED
    BY <2>1, <2>2 DEF Dated, MayFollow, Never, d
<1>6. CASE ~Released(k, new, target, e) /\ new > k.tier
  <2>1. Stored(d) /\ d.tier = new /\ d.tripped = clock
    BY <1>2, <1>3, <1>6, Updated
  <2> QED
    BY <2>1, <1>2, <1>4, <1>6 DEF Dated, MayFollow, d
<1>7. CASE ~Released(k, new, target, e) /\ ~(new > k.tier)
  <2>1. new = k.tier
    BY <1>2, <1>4, <1>7
  <2>2. Stored(d) /\ d.tier = new /\ d.tripped = k.tripped
    BY <1>2, <1>3, <1>4, <1>7, Updated
  <2> QED
    BY <2>1, <2>2, <1>4 DEF Dated, MayFollow, d
<1> QED
  BY <1>5, <1>6, <1>7

LEMMA DecidedAfterAnchor ==
    ASSUME LatchInv, NEW e
    PROVE  LET d == Decided(Anchored(kv, e), e)
           IN  Stored(d) /\ Dated(d) /\ MayFollow(kv, d)
<1> DEFINE a == Anchored(kv, e)
<1>1. /\ Stored(a) /\ a.tier = kv.tier
      /\ a.tripped = kv.tripped /\ clock \in Nat
  BY AnchoredKeepsTier DEF LatchInv, TierTypes
<1> HIDE DEF a
<1>2. Dated(a)
  BY <1>1 DEF LatchInv, Dated
<1>3. Stored(Decided(a, e)) /\ Dated(Decided(a, e)) /\ MayFollow(a, Decided(a, e))
  BY <1>1, <1>2, DecidedFollows
<1> QED
  BY <1>1, <1>3 DEF MayFollow, a

-----------------------------------------------------------------------------
(* The latch                                                                *)

\* A round begins with an equity and positions it has read, right or not.
LEMMA Starts ==
    ASSUME StartRound \/ StartMisread
    PROVE  \E e, seen : Evaluate(e, seen)
BY Zenon DEF StartRound, StartMisread

LEMMA UnsetStored == Stored(Unset) /\ Unset.tier = 0 /\ Unset.tripped = Never
BY DEF Stored, Unset, Never

LEMMA LatchInvInit == Init => LatchInv
BY UnsetStored, TiersAssumption DEF Init, LatchInv, TierTypes, Dated

LEMMA LatchInvNext == LatchInv /\ [Next]_vars => LatchInv'
<1> SUFFICES ASSUME LatchInv, [Next]_vars PROVE LatchInv'
  OBVIOUS
<1> USE DEF LatchInv
<1>1. CASE StartRound \/ StartMisread
  <2>0. PICK e, seen : Evaluate(e, seen)
    BY <1>1, Starts
  <2>1. /\ st' = Decided(Anchored(kv, e), e) /\ pc' = "sell"
        /\ UNCHANGED <<clock, kv, human>>
    BY <2>0 DEF Evaluate, env
  <2>2. Stored(st') /\ Dated(st') /\ MayFollow(kv, st')
    BY <2>1, DecidedAfterAnchor
  <2> QED
    BY <2>1, <2>2 DEF TierTypes, Dated, MayFollow, Stored
<1>2. CASE SellNext
  BY <1>2 DEF SellNext, env, TierTypes, Dated, MayFollow, Stored
<1>3. CASE SaveRound
  BY <1>3, UnsetStored DEF SaveRound, NoRound, env, TierTypes, Dated, MayFollow, Stored
<1>4. CASE Die
  BY <1>4, UnsetStored DEF Die, NoRound, env, TierTypes, Dated, MayFollow, Stored
<1>5. CASE ResetLoad
  BY <1>5 DEF ResetLoad, round, TierTypes, Dated, MayFollow, Stored
<1>6. CASE ResetStore
  <2>1. /\ kv' = Update(human.k, 0, Never)
        /\ human' = [busy |-> FALSE, k |-> Unset]
        /\ UNCHANGED <<clock, st, pc>>
    BY <1>6 DEF ResetStore, round
  <2>2. Stored(kv') /\ kv'.tier = 0 /\ kv'.tripped = Never
    BY <2>1, Cleared, Updated
  <2> QED
    BY <2>1, <2>2, UnsetStored DEF TierTypes, Dated, MayFollow, Stored
<1>7. CASE \E s \in Symbols : Enter(s)
  BY <1>7 DEF Enter, env, round, TierTypes, Dated, MayFollow, Stored
<1>8. CASE \E s \in Symbols : PriceMove(s) \/ LegsFill(s)
  BY <1>8 DEF PriceMove, LegsFill, Changes, env, round, TierTypes, Dated, MayFollow, Stored
<1>9. CASE Rearm \/ SetMode \/ RegimeTurns
  BY <1>9 DEF Rearm, SetMode, RegimeTurns, Changes, env, round, TierTypes, Dated, MayFollow, Stored
<1>10. CASE Tick
  BY <1>10, TiersAssumption DEF Tick, env, round, TierTypes, Dated, MayFollow, Stored
<1>11. CASE UNCHANGED vars
  BY <1>11 DEF vars, env, round, TierTypes, Dated, MayFollow, Stored
<1> QED
  BY <1>1, <1>2, <1>3, <1>4, <1>5, <1>6, <1>7, <1>8, <1>9, <1>10, <1>11 DEF Next, Round

\* Initial states map to initial states of the latch.
LEMMA LatchInit == Init => Latch!Init
BY TiersAssumption DEF Init, Latch!Init, Unset, Never, Latch!Never

\* Every step is a step of the latch or leaves it alone.
LEMMA LatchStep == LatchInv /\ [Next]_vars => [Latch!Next]_(Latch!latch)
<1> SUFFICES ASSUME LatchInv, [Next]_vars PROVE [Latch!Next]_(Latch!latch)
  OBVIOUS
<1> USE DEF Latch!latch, Latch!Never, Latch!Tiers
<1>1. CASE UNCHANGED <<clock, kv, resets>>
  BY <1>1
<1>2. CASE SaveRound
  <2>1. kv' = st /\ pc = "sell" /\ UNCHANGED <<clock, resets>>
    BY <1>2 DEF SaveRound, env
  <2>2. MayFollow(kv, st) /\ Dated(st) /\ Stored(st) /\ Dated(kv) /\ Stored(kv)
    BY <2>1 DEF LatchInv, TierTypes
  <2>3. CASE st.tier = 0 /\ kv.tier = 0
    BY <2>1, <2>2, <2>3 DEF Dated
  <2>4. CASE st.tier = 0 /\ kv.tier # 0
    <3>1. Latch!Release
      BY <2>1, <2>2, <2>4 DEF MayFollow, Dated, Never, Latch!Release
    <3> QED
      BY <3>1 DEF Latch!Next
  <2>5. CASE st.tier > 0 /\ st.tier > kv.tier
    <3>1. Latch!Trip
      BY <2>1, <2>2, <2>5 DEF Dated, Stored, Latch!Trip
    <3> QED
      BY <3>1 DEF Latch!Next
  <2>6. CASE st.tier = kv.tier /\ st.tripped = kv.tripped
    BY <2>1, <2>6
  <2> QED
    BY <2>2, <2>3, <2>4, <2>5, <2>6 DEF MayFollow, Stored
<1>3. CASE ResetStore
  <2>1. Latch!Reset
    BY <1>3 DEF ResetStore, Update, Never, Latch!Reset
  <2> QED
    BY <2>1 DEF Latch!Next
<1>4. CASE Tick
  BY <1>4 DEF Tick, env, Latch!Tick, Latch!Next
<1>5. CASE StartRound \/ StartMisread \/ SellNext \/ Die
  BY <1>1, <1>5, Starts DEF Evaluate, SellNext, Die, env
<1>6. CASE ResetLoad \/ Rearm \/ SetMode \/ RegimeTurns
  BY <1>1, <1>6 DEF ResetLoad, Rearm, SetMode, RegimeTurns, Changes, env
<1>7. CASE \E s \in Symbols : Enter(s) \/ PriceMove(s) \/ LegsFill(s)
  BY <1>1, <1>7 DEF Enter, PriceMove, LegsFill, Changes, env
<1>8. CASE UNCHANGED vars
  BY <1>1, <1>8 DEF vars, env
<1> QED
  BY <1>2, <1>3, <1>4, <1>5, <1>6, <1>7, <1>8 DEF Next, Round

LEMMA LatchInvariant == Spec => []LatchInv
BY LatchInvInit, LatchInvNext, PTL DEF Spec

\* However equity, sells, failing calls, crashes and a person's reset fall
\* together, the stored tier behaves as the latch: it rises, is released from 1
\* or 2 after the cooldown, or is cleared by a person; tier 3 never releases.
THEOREM TiersLatch == Spec => LatchSpec
<1>1. Spec => Latch!Init
  BY LatchInit DEF Spec
<1>2. Spec => [][Latch!Next]_(Latch!latch)
  BY LatchInvariant, LatchStep, PTL DEF Spec
<1> QED
  BY <1>1, <1>2 DEF LatchSpec, Latch!Spec

-----------------------------------------------------------------------------
(* What a release stands on                                                 *)

\* A round that will store no tier sells nothing; if a tier is stored now and
\* nothing has disturbed the round, its conditions for the release still hold.
RecoveryInv ==
    /\ resets \in Nat
    /\ (pc = "sell" /\ st.tier = 0) =>
         /\ queue = {}
         /\ (kv.tier > 0 /\ calm) => ~extreme /\ ~Down(st.anchor, Equity, 3)

LEMMA AnchorKept == ASSUME NEW k, NEW n, NEW t PROVE Update(k, n, t).anchor = k.anchor
BY DEF Update

LEMMA ReleasedRecovered ==
    ASSUME NEW k, NEW e, Stored(k), k.tier > 0, Decided(k, e).tier = 0
    PROVE  ~extreme /\ ~Down(Decided(k, e).anchor, e, 3)
<1> DEFINE target == Target(k.anchor, e)
           new == Latched(target, k.tier)
           d == Decided(k, e)
<1>1. target \in 0 .. 3
  BY TargetType
<1>2. new \in 1 .. 3
  BY <1>1 DEF Latched, Stored
<1> HIDE DEF target, new
<1>3. d = IF Released(k, new, target, e) THEN Update(k, 0, Never)
          ELSE Update(k, new, IF new > k.tier THEN clock ELSE k.tripped)
  BY Zenon DEF Decided, target, new
<1>4. k.tripped \in Int
  BY DEF Stored
<1> HIDE DEF d
<1>5. CASE Released(k, new, target, e)
  <2>1. d.anchor = k.anchor
    BY Zenon, <1>3, <1>5, AnchorKept
  <2>2. ~extreme /\ ~Down(k.anchor, e, 3)
    BY Zenon, <1>5 DEF Released
  <2> QED
    BY Zenon, <2>1, <2>2 DEF d
<1>6. CASE ~Released(k, new, target, e)
  <2>1. PICK t : d = Update(k, new, t)
    BY Zenon, <1>3, <1>6
  <2>2. d.tier = new
    BY <2>1 DEF Update
  <2> QED
    BY <2>2, <1>2 DEF d
<1> QED
  BY <1>5, <1>6

LEMMA RecoveryNext == LatchInv /\ RecoveryInv /\ [Next]_vars => RecoveryInv'
<1> SUFFICES ASSUME LatchInv, RecoveryInv, [Next]_vars PROVE RecoveryInv'
  OBVIOUS
<1> USE DEF RecoveryInv
<1>1. CASE StartRound
  <2>1. /\ st' = Decided(Anchored(kv, Equity), Equity) /\ calm' = TRUE
        /\ queue' = IF SellsNow(kv.tier, st'.tier) THEN {s \in Symbols : value[s] > 0} ELSE {}
        /\ UNCHANGED <<cash, value, extreme, kv, resets>>
    BY <1>1 DEF StartRound, Evaluate, account, env
  <2>2. Equity' = Equity
    BY <2>1 DEF Equity
  <2>3. ASSUME st'.tier = 0 PROVE queue' = {}
    BY <2>1, <2>3 DEF SellsNow
  <2>4. ASSUME st'.tier = 0, kv.tier > 0 PROVE ~extreme /\ ~Down(st'.anchor, Equity, 3)
    <3>1. Stored(Anchored(kv, Equity)) /\ Anchored(kv, Equity).tier = kv.tier
      BY AnchoredKeepsTier DEF LatchInv, TierTypes
    <3> QED
      BY <2>1, <2>4, <3>1, ReleasedRecovered
  <2>5. (st'.tier = 0 /\ kv'.tier > 0) => ~extreme' /\ ~Down(st'.anchor, Equity', 3)
    BY Zenon, <2>1, <2>2, <2>4
  <2> QED
    BY <2>1, <2>3, <2>5, Zenon
<1>10. CASE StartMisread
  <2>1. PICK e, seen :
          /\ queue' = IF SellsNow(kv.tier, st'.tier) THEN {s \in Symbols : seen[s] > 0} ELSE {}
          /\ UNCHANGED <<kv, resets>> /\ calm' = FALSE
    BY <1>10, Zenon DEF StartMisread, Evaluate, env
  <2>2. ASSUME st'.tier = 0 PROVE queue' = {}
    BY <2>1, <2>2 DEF SellsNow
  <2> QED
    BY Zenon, <2>1, <2>2
<1>2. CASE UNCHANGED <<cash, value, extreme, resets, kv, pc, st, queue, calm>>
  <2>1. Equity' = Equity
    BY <1>2 DEF Equity
  <2> QED
    BY <1>2, <2>1, Zenon
<1>3. CASE SellNext
  <2>1. st.tier # 0 /\ st' = st /\ resets' = resets
    BY <1>3 DEF SellNext, Enough, env
  <2> QED
    BY <2>1
<1>4. CASE SaveRound \/ Die
  BY <1>4 DEF SaveRound, Die, NoRound, env
<1>5. CASE ResetStore
  BY <1>5 DEF ResetStore, round
<1>6. CASE \E s \in Symbols : PriceMove(s) \/ LegsFill(s)
  BY <1>6 DEF PriceMove, LegsFill, Changes, env, round
<1>7. CASE SetMode \/ RegimeTurns
  BY <1>7 DEF SetMode, RegimeTurns, Changes, round
<1>8. CASE \E s \in Symbols : Enter(s)
  BY <1>8 DEF Enter, env, round
<1>9. CASE ResetLoad \/ Rearm \/ Tick \/ UNCHANGED vars
  BY <1>2, <1>9 DEF ResetLoad, Rearm, Tick, vars, account, env, round
<1> QED
  BY <1>1, <1>3, <1>4, <1>5, <1>6, <1>7, <1>8, <1>9, <1>10 DEF Next, Round

LEMMA RecoveryInit == Init => RecoveryInv
BY DEF Init, RecoveryInv

LEMMA ReleaseStep ==
    RecoveryInv /\ [Next]_vars =>
      [(kv.tier > 0 /\ kv'.tier = 0 /\ resets' = resets /\ calm)
         => ~extreme /\ ~Down(kv'.anchor, Equity, 3)]_vars
<1> SUFFICES ASSUME RecoveryInv, [Next]_vars,
                    kv.tier > 0, kv'.tier = 0, resets' = resets, calm
             PROVE  ~extreme /\ ~Down(kv'.anchor, Equity, 3)
  OBVIOUS
<1>1. kv' # kv
  BY SMT
<1>2. ~ResetStore
  BY DEF ResetStore, RecoveryInv
<1>3. SaveRound
  BY <1>1, <1>2, Starts DEF Next, Round, Evaluate, SellNext, Die, ResetLoad, Enter, PriceMove,
     LegsFill, Rearm, SetMode, RegimeTurns, Tick, vars, env
<1>4. kv' = st /\ pc = "sell"
  BY <1>3 DEF SaveRound
<1> QED
  BY <1>4 DEF RecoveryInv

\* A round nothing disturbed stores a release only while the regime is calm and
\* the drawdown is less than 3%, for every account, price and threshold of time.
THEOREM ReleasesRecovered == Spec => ReleaseMeansRecovered
BY LatchInvInit, LatchInvNext, RecoveryInit, RecoveryNext, ReleaseStep, PTL
   DEF Spec, ReleaseMeansRecovered
-----------------------------------------------------------------------------
(* Amounts                                                                  *)

\* The quotient of integer division.
LEMMA Quotient ==
    ASSUME NEW x \in Nat, NEW b \in Nat \ {0}
    PROVE  x \div b \in Nat /\ b * (x \div b) <= x /\ x < b * (x \div b) + b
  BY Z3

\* A share of an amount is no more than the amount.
LEMMA ShareBounded ==
    ASSUME NEW v \in Nat, NEW b \in Nat \ {0}, NEW q \in 0 .. b
    PROVE  (v * q) \div b \in 0 .. v
<1> DEFINE d == (v * q) \div b
<1>1. v * q \in Nat /\ v * q <= v * b
  BY Z3
<1>2. d \in Nat /\ b * d <= v * q
  BY <1>1, Quotient
<1> HIDE DEF d
<1>3. b * d <= v * b
  BY <1>1, <1>2
<1>4. ASSUME d >= v + 1 PROVE FALSE
  <2>1. b * d >= b * (v + 1)
    BY <1>2, <1>4
  <2>2. b * (v + 1) = v * b + b /\ v * b \in Nat /\ b * d \in Nat
    BY <1>2, Z3
  <2> QED
    BY <1>3, <2>1, <2>2
<1> QED
  BY <1>2, <1>4 DEF d

\* Nothing is lost in the division of a multiple.
LEMMA ShareOfMark ==
    ASSUME NEW b \in Nat \ {0}, NEW q \in Nat
    PROVE  (b * q) \div b = q
<1> DEFINE d == (b * q) \div b
<1>1. b * q \in Nat
  OBVIOUS
<1>2. d \in Nat /\ b * d <= b * q /\ b * q < b * d + b
  BY <1>1, Quotient
<1> HIDE DEF d
<1>3. ~(d + 1 <= q)
  <2> SUFFICES ASSUME d + 1 <= q PROVE FALSE
    OBVIOUS
  <2>1. b * (d + 1) <= b * q
    BY <1>2
  <2>2. b * (d + 1) = b * d + b
    BY <1>2
  <2> QED
    BY <2>1, <2>2, <1>1, <1>2
<1>4. ~(q + 1 <= d)
  <2> SUFFICES ASSUME q + 1 <= d PROVE FALSE
    OBVIOUS
  <2>1. b * (q + 1) <= b * d
    BY <1>2
  <2>2. b * (q + 1) = b * q + b
    BY <1>2
  <2> QED
    BY <2>1, <2>2, <1>1, <1>2
<1> QED
  BY <1>2, <1>3, <1>4 DEF d

\* A share of at least 99.9% leaves at most a thousandth, and less than a unit.
LEMMA ShareLeavesDust ==
    ASSUME NEW v \in Nat, NEW b \in Nat \ {0}, NEW q \in 0 .. b, 1000 * q >= 999 * b,
           NEW d, d = (v * q) \div b
    PROVE  1000 * (v - d) < v + 1000
<1>1. v * q \in Nat
  BY Z3
<1>2. d \in Nat /\ v * q < b * d + b
  BY <1>1, Quotient
<1> SUFFICES ASSUME 1000 * d + 1000 <= 999 * v PROVE FALSE
  BY <1>2
<1>3. b * (1000 * d + 1000) <= b * (999 * v)
  BY <1>2
<1>4. v * (999 * b) <= v * (1000 * q)
  OBVIOUS
<1>5. /\ b * (1000 * d + 1000) = 1000 * (b * d + b)
      /\ b * (999 * v) = v * (999 * b)
      /\ v * (1000 * q) = 1000 * (v * q)
  BY <1>2, Z3
<1>6. b * d \in Nat /\ v * (999 * b) \in Nat
  BY <1>2, Z3
<1> QED
  BY <1>1, <1>2, <1>3, <1>4, <1>5, <1>6

LEMMA ValueNat == ASSUME NEW v \in [Symbols -> Nat] PROVE ValueOf(v) \in Nat
<1>1. IsFiniteSet(Symbols) /\ \A s \in Symbols : v[s] \in Nat
  BY TiersAssumption
<1> QED
  BY <1>1, SumNat DEF ValueOf

\* The account is worth as much more as one of its positions.
LEMMA ValueChanges ==
    ASSUME NEW v \in [Symbols -> Nat], NEW w \in [Symbols -> Nat], NEW s \in Symbols,
           \A t \in Symbols \ {s} : w[t] = v[t]
    PROVE  ValueOf(w) = ValueOf(v) + (w[s] - v[s])
<1>1. IsFiniteSet(Symbols) /\ \A t \in Symbols : v[t] \in Int /\ w[t] \in Int
  BY TiersAssumption
<1> QED
  BY <1>1, SumChange DEF ValueOf

LEMMA EquityNat == ASSUME TypeOK PROVE ValueOf(value) \in Nat /\ Equity \in Nat
<1>1. value \in [Symbols -> Nat] /\ cash \in Nat
  BY DEF TypeOK
<1> QED
  BY <1>1, ValueNat DEF Equity

LEMMA GoalNat == ASSUME NEW e \in Nat PROVE Goal(e) \in Nat
BY Quotient DEF Goal

-----------------------------------------------------------------------------
(* What a round asks for and sells                                          *)

LEMMA AskedBounded ==
    ASSUME TypeOK, ~Enough, NEW s \in queue
    PROVE  /\ Asked(s) \in 1 .. marks[s] /\ marks[s] \in Nat \ {0}
           /\ st.tier = 2 => Asked(s) <= left - goal
<1>1. /\ marks[s] \in Nat \ {0} /\ left \in Int /\ goal \in Nat
      /\ st.tier = 2 => left - goal > 0
  BY DEF TypeOK, Enough
<1> QED
  BY <1>1 DEF Asked

LEMMA ProceedsBounded ==
    ASSUME TypeOK, ~Enough, NEW s \in queue
    PROVE  /\ Proceeds(s) \in 0 .. value[s] /\ value[s] \in Nat
           /\ value[s] = marks[s] => Proceeds(s) = Asked(s)
<1> DEFINE q == Asked(s)
           b == marks[s]
           v == value[s]
<1>1. q \in 1 .. b /\ b \in Nat \ {0} /\ v \in Nat
  BY AskedBounded DEF TypeOK
<1>2. Proceeds(s) = (v * q) \div b
  BY Zenon DEF Proceeds
<1> HIDE DEF q, b, v
<1>3. (v * q) \div b \in 0 .. v
  BY <1>1, ShareBounded
<1>4. v = b => (v * q) \div b = q
  BY <1>1, ShareOfMark
<1> QED
  BY <1>1, <1>2, <1>3, <1>4 DEF q, b, v

\* A sale turns value into cash.
LEMMA SoldKeepsEquity ==
    ASSUME TypeOK, NEW s \in Symbols, NEW q \in 0 .. value[s], Sold(s, q)
    PROVE  /\ cash' \in Nat /\ value' \in [Symbols -> Nat]
           /\ value'[s] = value[s] - q
           /\ \A t \in Symbols \ {s} : value'[t] = value[t]
           /\ ValueOf(value') = ValueOf(value) - q
           /\ Equity' = Equity
<1>1. value \in [Symbols -> Nat] /\ cash \in Nat
  BY DEF TypeOK
<1>2. /\ cash' = cash + q /\ value' \in [Symbols -> Nat]
      /\ value'[s] = value[s] - q
      /\ \A t \in Symbols \ {s} : value'[t] = value[t]
  BY <1>1 DEF Sold
<1>3. ValueOf(value') = ValueOf(value) + (value'[s] - value[s])
  BY <1>1, <1>2, ValueChanges
<1>4. ValueOf(value) \in Nat /\ ValueOf(value)' = ValueOf(value')
  BY <1>1, ValueNat DEF ValueOf
<1> QED
  BY <1>1, <1>2, <1>3, <1>4 DEF Equity

\* What a sale does: it succeeds, it is not tried, or it goes wrong.
Succeeds(s) ==
    Sold(s, Proceeds(s)) /\ Count(Proceeds(s)) /\ CloseRow(s) /\ UNCHANGED <<calm, faults>>
NotTried(s) ==
    ~(Proceeds(s) >= MinNotional) /\ NoSale /\ UNCHANGED <<calm, faults>>
GoesWrong(s) ==
    /\ calm' = FALSE /\ faults' = faults + 1 /\ UNCHANGED rows
    /\ left' \in {left, left - Proceeds(s)}
    /\ UNCHANGED <<cash, value>> \/ Sold(s, Proceeds(s))

LEMMA SellNextSells ==
    ASSUME TypeOK, SellNext
    PROVE  /\ pc = "sell" /\ ~Enough /\ UNCHANGED <<clock, env, kv, pc, st, marks, goal, moves>>
           /\ \E s \in queue :
                /\ queue' = queue \ {s} /\ legs' \in {legs, legs \ {s}}
                /\ Succeeds(s) \/ NotTried(s) \/ GoesWrong(s)
<1>1. pc = "sell" /\ ~Enough /\ UNCHANGED <<clock, env, kv, pc, st, marks, goal, moves>>
  BY Zenon DEF SellNext
<1>2. PICK s \in queue :
         /\ queue' = queue \ {s}
         /\ \/ /\ legs' = legs \ {s}
               /\ \/ /\ Saleable(s)
                     /\ Sold(s, Proceeds(s)) /\ Count(Proceeds(s)) /\ CloseRow(s)
                     /\ UNCHANGED <<calm, faults>>
                  \/ ~Saleable(s) /\ NoSale /\ UNCHANGED <<calm, faults>>
                  \/ Saleable(s) /\ SaleFails(s)
            \/ /\ s \in legs /\ faults < MaxFaults
               /\ faults' = faults + 1 /\ calm' = FALSE
               /\ NoSale /\ UNCHANGED legs
  BY Zenon DEF SellNext
<1>3. legs' \in {legs, legs \ {s}}
  BY <1>2
<1>4. CASE Sold(s, Proceeds(s)) /\ Count(Proceeds(s)) /\ CloseRow(s) /\ UNCHANGED <<calm, faults>>
  BY Zenon, <1>1, <1>2, <1>3, <1>4 DEF Succeeds
<1>5. CASE legs' = legs \ {s} /\ ~Saleable(s) /\ NoSale /\ UNCHANGED <<calm, faults>>
  <2>1. ~(Proceeds(s) >= MinNotional)
    BY <1>5 DEF Saleable
  <2> QED
    BY Zenon, <1>1, <1>2, <1>3, <1>5, <2>1 DEF NotTried
<1>6. CASE SaleFails(s)
  <2>1. GoesWrong(s)
    BY <1>6 DEF SaleFails, GoesWrong, NoSale, Count
  <2> QED
    BY Zenon, <1>1, <1>2, <1>3, <2>1
<1>7. CASE faults' = faults + 1 /\ calm' = FALSE /\ NoSale
  <2>1. GoesWrong(s)
    BY <1>7 DEF GoesWrong, NoSale
  <2> QED
    BY Zenon, <1>1, <1>2, <1>3, <2>1
<1> QED
  BY <1>2, <1>4, <1>5, <1>6, <1>7, Zenon

-----------------------------------------------------------------------------
(* Types                                                                    *)

LEMMA TypedUpdate ==
    ASSUME NEW k, StateTyped(k), NEW n \in 0 .. 3, NEW t \in Nat \cup {Never}
    PROVE  StateTyped(Update(k, n, t))
BY DEF StateTyped, Update

LEMMA TypedAnchored ==
    ASSUME TypeOK, NEW e \in Nat PROVE StateTyped(Anchored(kv, e))
<1>2. Today \in Int
  BY TiersAssumption, Quotient DEF TypeOK, Today
<1>3. StateTyped(kv)
  BY DEF TypeOK
<1> QED
  BY <1>2, <1>3 DEF StateTyped, Anchored

LEMMA TypedDecided ==
    ASSUME NEW k, NEW e, StateTyped(k), clock \in Nat
    PROVE  StateTyped(Decided(k, e))
<1> DEFINE target == Target(k.anchor, e)
           new == Latched(target, k.tier)
<1>1. target \in 0 .. 3
  BY TargetType
<1>2. new \in 0 .. 3 /\ 0 \in 0 .. 3
  BY <1>1 DEF Latched, StateTyped
<1> HIDE DEF target, new
<1>3. Decided(k, e) = IF Released(k, new, target, e) THEN Update(k, 0, Never)
                   ELSE Update(k, new, IF new > k.tier THEN clock ELSE k.tripped)
  BY Zenon DEF Decided, target, new
<1>4. k.tripped \in Nat \cup {Never} /\ Never \in Nat \cup {Never}
  BY DEF StateTyped
<1> QED
  BY <1>2, <1>3, <1>4, TypedUpdate

\* A round begins with amounts, also when it has misread some of them.
LEMMA StartsTyped ==
    ASSUME TypeOK, StartRound \/ StartMisread
    PROVE  \E e \in Nat, seen \in [Symbols -> Nat] :
             Evaluate(e, seen) /\ faults' \in {faults, faults + 1}
<1>1. CASE StartRound
  <2>1. Equity \in Nat /\ value \in [Symbols -> Nat]
    BY EquityNat DEF TypeOK
  <2> QED
    BY <1>1, <2>1 DEF StartRound
<1>2. CASE StartMisread
  <2>1. PICK known \in SUBSET Symbols, drift \in CashDrift \cup {0} :
          /\ cash + drift >= 0 /\ faults' = faults + 1
          /\ Evaluate(cash + drift + ValueOf(SeenOnly(known)), SeenOnly(known))
    BY Zenon, <1>2 DEF StartMisread
  <2>2. SeenOnly(known) \in [Symbols -> Nat]
    BY DEF SeenOnly, TypeOK
  <2>3. ValueOf(SeenOnly(known)) \in Nat
    BY <2>2, ValueNat
  <2>4. cash + drift + ValueOf(SeenOnly(known)) \in Nat
    BY <2>1, <2>3, TiersAssumption DEF TypeOK
  <2> QED
    BY Zenon, <2>1, <2>2, <2>4
<1> QED
  BY <1>1, <1>2

LEMMA TypedUnset == StateTyped(Unset)
BY DEF StateTyped, Unset, Never

\* TypeOK by kind of value.
Flags == mode \in {"report", "act"} /\ extreme \in BOOLEAN /\ calm \in BOOLEAN
Records ==
    /\ StateTyped(kv) /\ StateTyped(st)
    /\ human = [busy |-> human.busy, k |-> human.k]
    /\ human.busy \in BOOLEAN /\ StateTyped(human.k)
Amounts ==
    /\ clock \in Nat /\ resets \in Nat /\ moves \in Nat /\ faults \in Nat
    /\ cash \in Nat /\ value \in [Symbols -> Nat]
    /\ legs \subseteq Symbols /\ rows \subseteq Symbols
    /\ pc \in {"idle", "sell"}
    /\ marks \in [Symbols -> Nat] /\ queue \subseteq Symbols
    /\ \A s \in queue : marks[s] > 0
    /\ left \in Int /\ goal \in Nat

LEMMA TypeParts == TypeOK <=> Flags /\ Records /\ Amounts
BY Zenon DEF TypeOK, Flags, Records, Amounts

LEMMA TypeInit == Init => TypeOK
<1> SUFFICES ASSUME Init PROVE TypeOK
  OBVIOUS
<1>1. Flags
  BY Zenon DEF Init, Flags
<1>2. Records
  <2>1. FALSE \in BOOLEAN
    OBVIOUS
  <2> QED
    BY TypedUnset, <2>1 DEF Init, Records
<1>3. Amounts
  BY TiersAssumption DEF Init, Amounts, NoMarks
<1> QED
  BY <1>1, <1>2, <1>3, TypeParts

LEMMA FlagsNext == Flags /\ [Next]_vars => Flags'
<1> SUFFICES ASSUME Flags, [Next]_vars PROVE Flags'
  OBVIOUS
<1> USE DEF Flags
<1>1. CASE StartRound \/ StartMisread \/ SaveRound \/ Die
  BY Zenon, <1>1 DEF StartRound, StartMisread, Evaluate, SaveRound, Die, env
<1>2. CASE SellNext
  <2>1. UNCHANGED <<mode, extreme>>
    BY Zenon, <1>2 DEF SellNext, env
  <2>2. calm' = FALSE \/ calm' = calm
    BY Zenon, <1>2 DEF SellNext, SaleFails
  <2> QED
    BY Zenon, <2>1, <2>2
<1>3. CASE ResetLoad \/ ResetStore
  BY Zenon, <1>3 DEF ResetLoad, ResetStore
<1>4. CASE Rearm \/ SetMode \/ RegimeTurns \/ Tick
  BY Zenon, <1>4 DEF Rearm, SetMode, RegimeTurns, Tick, Changes, env
<1>5. CASE \E s \in Symbols : Enter(s) \/ PriceMove(s) \/ LegsFill(s)
  BY Zenon, <1>5 DEF Enter, PriceMove, LegsFill, Changes, env
<1>6. CASE UNCHANGED vars
  BY Zenon, <1>6 DEF vars, env
<1> QED
  BY <1>1, <1>2, <1>3, <1>4, <1>5, <1>6, Zenon DEF Next, Round

LEMMA RecordsNext == TypeOK /\ [Next]_vars => Records'
<1> SUFFICES ASSUME TypeOK, [Next]_vars PROVE Records'
  OBVIOUS
<1>0. Records /\ clock \in Nat
  BY TypeParts DEF Amounts
<1> USE DEF Records
<1>1. CASE StartRound \/ StartMisread
  <2>1. PICK e \in Nat, seen \in [Symbols -> Nat] : Evaluate(e, seen)
    BY <1>1, StartsTyped
  <2>2. StateTyped(st')
    BY <2>1, <1>0, TypedAnchored, TypedDecided DEF Evaluate
  <2> QED
    BY Zenon, <1>0, <2>1, <2>2 DEF Evaluate, env
<1>2. CASE SaveRound \/ Die
  BY Zenon, <1>0, <1>2, TypedUnset DEF SaveRound, Die, NoRound, env
<1>3. CASE ResetLoad
  <2>1. /\ human' = [busy |-> TRUE, k |-> kv] /\ TRUE \in BOOLEAN
        /\ UNCHANGED <<kv, st>>
    BY Zenon, <1>3 DEF ResetLoad, round
  <2> QED
    BY <1>0, <2>1
<1>4. CASE ResetStore
  <2>1. kv' = Update(human.k, 0, Never) /\ human' = [busy |-> FALSE, k |-> Unset]
        /\ UNCHANGED st /\ FALSE \in BOOLEAN
    BY Zenon, <1>4 DEF ResetStore, round
  <2>2. 0 \in 0 .. 3 /\ Never \in Nat \cup {Never}
    OBVIOUS
  <2>3. StateTyped(kv')
    BY <1>0, <2>1, <2>2, TypedUpdate
  <2> QED
    BY <1>0, <2>1, <2>3, TypedUnset
<1>5. CASE UNCHANGED <<kv, st, human>>
  BY Zenon, <1>0, <1>5
<1>6. CASE SellNext \/ Rearm \/ SetMode \/ RegimeTurns \/ Tick \/ UNCHANGED vars
  BY Zenon, <1>5, <1>6 DEF SellNext, Rearm, SetMode, RegimeTurns, Tick, vars, env, round
<1>7. CASE \E s \in Symbols : Enter(s) \/ PriceMove(s) \/ LegsFill(s)
  BY Zenon, <1>5, <1>7 DEF Enter, PriceMove, LegsFill, env, round
<1> QED
  BY <1>1, <1>2, <1>3, <1>4, <1>6, <1>7, Zenon DEF Next, Round

LEMMA AmountsNext == TypeOK /\ [Next]_vars => Amounts'
<1> SUFFICES ASSUME TypeOK, [Next]_vars PROVE Amounts'
  OBVIOUS
<1>0. Amounts
  BY TypeParts
<1> USE DEF Amounts
<1>1. CASE StartRound \/ StartMisread
  <2>1. PICK e \in Nat, seen \in [Symbols -> Nat] :
          Evaluate(e, seen) /\ faults' \in {faults, faults + 1}
    BY <1>1, StartsTyped
  <2>2. ValueOf(seen) \in Nat /\ Goal(e) \in Nat
    BY ValueNat, GoalNat
  <2> QED
    BY <1>0, <2>1, <2>2 DEF Evaluate, account, env, SellsNow
<1>2. CASE SellNext
  <2>1. /\ ~Enough /\ UNCHANGED <<clock, env, kv, pc, st, marks, goal, moves>>
        /\ \E s \in queue :
             /\ queue' = queue \ {s} /\ legs' \in {legs, legs \ {s}}
             /\ Succeeds(s) \/ NotTried(s) \/ GoesWrong(s)
    BY <1>2, SellNextSells
  <2>2. PICK s \in queue :
          /\ queue' = queue \ {s} /\ legs' \in {legs, legs \ {s}}
          /\ Succeeds(s) \/ NotTried(s) \/ GoesWrong(s)
    BY <2>1
  <2>3. s \in Symbols /\ Proceeds(s) \in 0 .. value[s] /\ value[s] \in Nat
    BY <1>0, <2>1, ProceedsBounded
  <2>4. cash' \in Nat /\ value' \in [Symbols -> Nat]
    <3>1. CASE UNCHANGED <<cash, value>>
      BY <1>0, <3>1
    <3>2. CASE Sold(s, Proceeds(s))
      BY <3>2, <2>3, SoldKeepsEquity
    <3> QED
      BY <2>2, <3>1, <3>2 DEF Succeeds, NotTried, GoesWrong, NoSale
  <2>5. left' \in Int /\ rows' \subseteq Symbols /\ faults' \in Nat
    BY <1>0, <2>2, <2>3 DEF Succeeds, NotTried, GoesWrong, NoSale, Count, CloseRow
  <2> QED
    BY <1>0, <2>1, <2>2, <2>4, <2>5 DEF env
<1>3. CASE SaveRound \/ Die
  BY <1>0, <1>3, TiersAssumption DEF SaveRound, Die, NoRound, account, env, bounds, NoMarks
<1>4. CASE ResetLoad \/ ResetStore
  BY <1>0, <1>4 DEF ResetLoad, ResetStore, account, env, round, bounds
<1>6. CASE \E s \in Symbols : Enter(s)
  BY <1>0, <1>6, TiersAssumption DEF Enter, env, round
<1>7. CASE \E s \in Symbols : PriceMove(s)
  <2>1. PICK s \in Symbols, pct \in PriceMoves :
          /\ Changes /\ value' = [value EXCEPT ![s] = (@ * pct) \div 100]
          /\ UNCHANGED <<clock, cash, legs, rows, env, kv, round, faults>>
    BY <1>7 DEF PriceMove
  <2>2. value[s] \in Nat /\ pct \in Nat
    BY <1>0, TiersAssumption
  <2> DEFINE x == (value[s] * pct) \div 100
  <2>3. x \in Nat
    <3>1. value[s] * pct \in Nat
      BY <2>2, Z3
    <3> QED
      BY <3>1, Quotient
  <2>4. value' = [value EXCEPT ![s] = x]
    BY <2>1
  <2> HIDE DEF x
  <2> QED
    BY <1>0, <2>1, <2>3, <2>4 DEF Changes, env, round
<1>8. CASE \E s \in Symbols : LegsFill(s)
  <2>1. PICK s \in Symbols : LegsFill(s)
    BY <1>8
  <2>2. value[s] \in 0 .. value[s] /\ Sold(s, value[s])
    BY <1>0, <2>1 DEF LegsFill
  <2>3. cash' \in Nat /\ value' \in [Symbols -> Nat]
    BY <2>2, SoldKeepsEquity
  <2> QED
    BY <1>0, <2>1, <2>3 DEF LegsFill, Changes, env, round
<1>9. CASE Rearm
  BY <1>0, <1>9 DEF Rearm, env, round, bounds
<1>10. CASE SetMode \/ RegimeTurns
  BY <1>0, <1>10 DEF SetMode, RegimeTurns, Changes, account, round
<1>12. CASE Tick
  BY <1>0, <1>12, TiersAssumption DEF Tick, account, env, round, bounds
<1>13. CASE UNCHANGED vars
  BY <1>0, <1>13 DEF vars, account, env, round, bounds
<1> QED
  BY <1>1, <1>2, <1>3, <1>4, <1>6, <1>7, <1>8, <1>9, <1>10, <1>12, <1>13
     DEF Next, Round

LEMMA TypeNext == TypeOK /\ [Next]_vars => TypeOK'
<1> SUFFICES ASSUME TypeOK, [Next]_vars PROVE TypeOK'
  OBVIOUS
<1>1. Flags' /\ Records' /\ Amounts'
  BY TypeParts, FlagsNext, RecordsNext, AmountsNext
<1> QED
  BY Zenon, <1>1 DEF TypeOK, Flags, Records, Amounts

\* Whatever the prices do, no position is ever sold below zero, no position
\* without a mark is sold, and every stored state is one the next round can read.
THEOREM TiersTyped == Spec => []TypeOK
BY TypeInit, TypeNext, PTL DEF Spec
-----------------------------------------------------------------------------
(* The entry gate                                                           *)

\* A drawdown of 6%, against the day's anchor of k.
Deep(k) == k.anchor > 0 /\ Down(k.anchor, Equity, 6)

\* A tier is stored, or about to be, when the drawdown asks for one.
GateInv ==
    calm => /\ pc = "idle" => (Deep(kv) => kv.tier >= 1)
            /\ pc = "sell" => (Deep(st) => st.tier >= 1)

\* Entries and sells move value between the account's parts.
LEMMA EquityKept ==
    ASSUME TypeOK, SellNext \/ (\E s \in Symbols : Enter(s))
    PROVE  Equity' = Equity
<1>1. CASE SellNext
  <2>1. /\ ~Enough
        /\ \E s \in queue : Succeeds(s) \/ NotTried(s) \/ GoesWrong(s)
    BY <1>1, SellNextSells
  <2>2. PICK s \in queue : Succeeds(s) \/ NotTried(s) \/ GoesWrong(s)
    BY <2>1
  <2>3. s \in Symbols /\ Proceeds(s) \in 0 .. value[s]
    BY <2>1, ProceedsBounded DEF TypeOK
  <2>4. CASE UNCHANGED <<cash, value>>
    BY Zenon, <2>4 DEF Equity, ValueOf
  <2>5. CASE Sold(s, Proceeds(s))
    BY <2>3, <2>5, SoldKeepsEquity
  <2> QED
    BY <2>2, <2>4, <2>5 DEF Succeeds, NotTried, GoesWrong, NoSale
<1>2. CASE \E s \in Symbols : Enter(s)
  <2>1. PICK s \in Symbols : Enter(s)
    BY <1>2
  <2>2. value \in [Symbols -> Nat] /\ cash \in Nat /\ EntrySize \in Nat
    BY TiersAssumption DEF TypeOK
  <2>3. cash' = cash - EntrySize /\ value' = [value EXCEPT ![s] = @ + EntrySize]
    BY <2>1 DEF Enter
  <2>4. /\ value' \in [Symbols -> Nat] /\ value'[s] = value[s] + EntrySize
        /\ \A t \in Symbols \ {s} : value'[t] = value[t]
    BY <2>2, <2>3
  <2>5. ValueOf(value') = ValueOf(value) + (value'[s] - value[s])
    BY <2>2, <2>4, ValueChanges
  <2>6. ValueOf(value) \in Nat /\ value[s] \in Nat /\ ValueOf(value)' = ValueOf(value')
    BY <2>2, ValueNat DEF ValueOf
  <2> QED
    BY <2>2, <2>3, <2>4, <2>5, <2>6 DEF Equity
<1> QED
  BY <1>1, <1>2

\* A decision puts a tier on a drawdown of 6%.
LEMMA DeepDecided ==
    ASSUME NEW k, NEW e, StateTyped(k), Down(Decided(k, e).anchor, e, 6)
    PROVE  Decided(k, e).tier >= 1
<1> DEFINE target == Target(k.anchor, e)
           new == Latched(target, k.tier)
<1>1. Decided(k, e) = IF Released(k, new, target, e) THEN Update(k, 0, Never)
                   ELSE Update(k, new, IF new > k.tier THEN clock ELSE k.tripped)
  BY Zenon DEF Decided
<1>2. Decided(k, e).anchor = k.anchor
  BY Zenon, <1>1, AnchorKept
<1>3. target \in {1, 2, 3}
  BY Zenon, <1>2 DEF Target
<1>4. new >= 1 /\ target # 0
  BY <1>3 DEF Latched, StateTyped
<1> HIDE DEF target, new
<1>5. ~Released(k, new, target, e)
  BY <1>4 DEF Released
<1>6. PICK t : Decided(k, e) = Update(k, new, t)
  BY Zenon, <1>1, <1>5
<1>7. Update(k, new, t).tier = new
  BY DEF Update
<1> QED
  BY <1>4, <1>6, <1>7

LEMMA GateInit == Init => GateInv
BY Zenon DEF Init, GateInv

LEMMA GateNext == TypeOK /\ GateInv /\ [Next]_vars => GateInv'
<1> SUFFICES ASSUME TypeOK, GateInv, [Next]_vars, calm' PROVE GateInv'
  BY Zenon DEF GateInv
<1> USE DEF GateInv
<1>1. CASE StartRound
  <2>1. /\ st' = Decided(Anchored(kv, Equity), Equity) /\ pc' = "sell"
        /\ UNCHANGED <<cash, value>>
    BY <1>1 DEF StartRound, Evaluate, account
  <2>2. Equity' = Equity
    BY Zenon, <2>1 DEF Equity, ValueOf
  <2>3. ASSUME Deep(st)' PROVE st'.tier >= 1
    <3>1. StateTyped(Anchored(kv, Equity))
      BY TypedAnchored, EquityNat
    <3>2. Down(Decided(Anchored(kv, Equity), Equity).anchor, Equity, 6)
      BY Zenon, <2>1, <2>2, <2>3 DEF Deep, Down
    <3>3. Decided(Anchored(kv, Equity), Equity).tier >= 1
      BY <3>1, <3>2, DeepDecided
    <3> QED
      BY <2>1, <3>3
  <2>4. pc' # "idle"
    BY <2>1
  <2> QED
    BY Zenon, <2>3, <2>4
<1>2. ASSUME Equity' = Equity, UNCHANGED <<pc, kv, st>>, calm' = calm
      PROVE  GateInv'
  BY Zenon, <1>2 DEF Deep, Down
<1>3. CASE SellNext
  <2>1. Equity' = Equity /\ UNCHANGED <<pc, kv, st>>
    BY Zenon, <1>3, EquityKept DEF SellNext
  <2>2. calm' = FALSE \/ calm' = calm
    BY Zenon, <1>3 DEF SellNext, SaleFails
  <2> QED
    BY Zenon, <2>1, <2>2, <1>2
<1>4. CASE SaveRound
  <2>1. /\ pc = "sell" /\ pc' = "idle" /\ kv' = st
        /\ UNCHANGED <<cash, value, calm>>
    BY <1>4 DEF SaveRound, NoRound, account
  <2>2. Equity' = Equity
    BY Zenon, <2>1 DEF Equity, ValueOf
  <2>3. Deep(kv)' => kv'.tier >= 1
    BY Zenon, <2>1, <2>2 DEF Deep, Down
  <2>4. pc' # "sell"
    BY <2>1
  <2> QED
    BY Zenon, <2>3, <2>4
<1>5. CASE StartMisread \/ Die \/ ResetStore \/ SetMode \/ RegimeTurns
  BY Zenon, <1>5 DEF StartMisread, Die, ResetStore, SetMode, RegimeTurns, Changes
<1>6. CASE \E s \in Symbols : PriceMove(s) \/ LegsFill(s)
  BY Zenon, <1>6 DEF PriceMove, LegsFill, Changes
<1>7. CASE \E s \in Symbols : Enter(s)
  <2>1. UNCHANGED <<pc, kv, st, calm>>
    BY Zenon, <1>7 DEF Enter, round
  <2> QED
    BY Zenon, <1>7, <2>1, <1>2, EquityKept
<1>8. CASE ResetLoad \/ Rearm \/ Tick \/ UNCHANGED vars
  <2>1. UNCHANGED <<cash, value, pc, kv, st, calm>>
    BY Zenon, <1>8 DEF ResetLoad, Rearm, Tick, vars, account, round
  <2>2. Equity' = Equity
    BY Zenon, <2>1 DEF Equity, ValueOf
  <2> QED
    BY Zenon, <2>1, <2>2, <1>2
<1> QED
  BY <1>1, <1>3, <1>4, <1>5, <1>6, <1>7, <1>8, Zenon DEF Next, Round

LEMMA TypedGate == Spec => [](TypeOK /\ GateInv)
BY TypeInit, TypeNext, GateInit, GateNext, PTL DEF Spec

LEMMA DeepBlocks == TypeOK /\ GateInv => DrawdownStopsEntries
BY Zenon DEF GateInv, DrawdownStopsEntries, EntryBlocked, Deep, Down

\* A round that nothing has disturbed since leaves no drawdown of 6% with an
\* open gate: entries and the round's own sells do not change what it saw.
THEOREM DrawdownGated == Spec => []DrawdownStopsEntries
BY TypedGate, DeepBlocks, PTL
-----------------------------------------------------------------------------
(* Deleveraging                                                             *)

\* A tier 2 that sells, undisturbed since it read its marks.
Delevers == pc = "sell" /\ calm /\ st.tier = 2 /\ mode = "act"

\* Of an undisturbed round: it counts the open exposure right, has not sold
\* below its target, holds what it has not looked at as it was marked, and what
\* it has looked at is small, unless the exposure is down already.
OpenLeft ==
    /\ left = ValueOf(value)
    /\ left >= goal \/ left = ValueOf(marks)
    /\ \A s \in queue : value[s] = marks[s]
    /\ \/ left - goal < MinNotional
       \/ \A s \in Symbols \ queue : value[s] < MinNotional

DeleverInv == Delevers => OpenLeft

\* One sale of such a round.
LEMMA SaleDelevers ==
    ASSUME TypeOK, Delevers, OpenLeft, SellNext, calm'
    PROVE  OpenLeft'
<1>1. /\ ~Enough /\ UNCHANGED <<clock, env, kv, pc, st, marks, goal, moves>>
      /\ \E s \in queue :
           /\ queue' = queue \ {s} /\ legs' \in {legs, legs \ {s}}
           /\ Succeeds(s) \/ NotTried(s) \/ GoesWrong(s)
  BY SellNextSells
<1>2. PICK s \in queue :
        queue' = queue \ {s} /\ (Succeeds(s) \/ NotTried(s))
  BY Zenon, <1>1 DEF GoesWrong
<1>3. /\ s \in Symbols /\ marks' = marks /\ goal' = goal
      /\ left \in Int /\ goal \in Nat /\ MinNotional \in Nat \ {0}
      /\ value \in [Symbols -> Nat] /\ queue \subseteq Symbols
  BY <1>1, TiersAssumption DEF TypeOK
<1>4. value[s] = marks[s]
  BY DEF OpenLeft
<1>5. /\ Asked(s) \in 1 .. marks[s] /\ Asked(s) <= left - goal
      /\ Asked(s) = left - goal \/ Asked(s) = marks[s]
  BY <1>1, AskedBounded DEF Delevers, Asked
<1>6. Proceeds(s) = Asked(s) /\ Proceeds(s) \in 0 .. value[s]
  BY <1>1, <1>4, ProceedsBounded
<1>7. ValueOf(marks)' = ValueOf(marks)
  BY Zenon, <1>3 DEF ValueOf
<1>8. CASE Succeeds(s)
  <2>1. /\ value' \in [Symbols -> Nat]
        /\ value'[s] = value[s] - Proceeds(s)
        /\ \A t \in Symbols \ {s} : value'[t] = value[t]
        /\ ValueOf(value') = ValueOf(value) - Proceeds(s)
    BY <1>3, <1>6, <1>8, SoldKeepsEquity DEF Succeeds
  <2>2. left' = left - Proceeds(s)
    BY <1>8 DEF Succeeds, Count
  <2>3. left' = ValueOf(value')
    BY <2>1, <2>2 DEF OpenLeft
  <2>4. left' >= goal
    BY <1>3, <1>5, <1>6, <2>2
  <2>5. \A t \in queue' : value'[t] = marks'[t]
    BY <1>2, <1>3, <2>1 DEF OpenLeft
  <2>6. \/ left' - goal < MinNotional
        \/ \A t \in Symbols \ queue' : value'[t] < MinNotional
    <3>1. CASE Asked(s) = left - goal
      BY <1>3, <1>6, <2>2, <3>1
    <3>2. CASE left - goal < MinNotional
      BY <1>3, <1>5, <1>6, <2>2, <3>2
    <3>3. CASE /\ Asked(s) = marks[s]
               /\ \A t \in Symbols \ queue : value[t] < MinNotional
      <4>1. value'[s] < MinNotional
        BY <1>3, <1>4, <1>6, <2>1, <3>3
      <4> QED
        BY <1>2, <2>1, <3>3, <4>1
    <3> QED
      BY <1>5, <3>1, <3>2, <3>3 DEF OpenLeft
  <2> QED
    BY <1>3, <1>7, <2>3, <2>4, <2>5, <2>6, Zenon DEF OpenLeft, ValueOf
<1>9. CASE NotTried(s)
  <2>1. value' = value /\ left' = left /\ ~(Asked(s) >= MinNotional)
    BY <1>6, <1>9 DEF NotTried, NoSale
  <2>2. ValueOf(value)' = ValueOf(value)
    BY Zenon, <2>1 DEF ValueOf
  <2>3. \/ left - goal < MinNotional
        \/ \A t \in Symbols \ queue' : value[t] < MinNotional
    BY <1>2, <1>3, <1>4, <1>5, <2>1 DEF OpenLeft
  <2>4. \A t \in queue' : value[t] = marks[t]
    BY <1>2 DEF OpenLeft
  <2> QED
    BY <1>3, <1>7, <2>1, <2>2, <2>3, <2>4, Zenon DEF OpenLeft
<1> QED
  BY <1>2, <1>8, <1>9

LEMMA DeleverInit == Init => DeleverInv
BY Zenon DEF Init, DeleverInv, Delevers

LEMMA DeleverNext == TypeOK /\ DeleverInv /\ [Next]_vars => DeleverInv'
<1> SUFFICES ASSUME TypeOK, DeleverInv, [Next]_vars, Delevers' PROVE OpenLeft'
  BY Zenon DEF DeleverInv
<1> USE DEF DeleverInv
<1>0. pc' = "sell" /\ calm' /\ st'.tier = 2 /\ mode' = "act"
  BY Zenon DEF Delevers
<1>1. CASE StartRound
  <2>1. /\ marks' = value /\ left' = ValueOf(value) /\ mode = "act"
        /\ queue' = IF SellsNow(kv.tier, st'.tier) THEN {s \in Symbols : value[s] > 0} ELSE {}
        /\ UNCHANGED <<cash, value>>
    BY <1>0, <1>1 DEF StartRound, Evaluate, account, env
  <2>2. queue' = {s \in Symbols : value[s] > 0}
    BY <1>0, <2>1 DEF SellsNow
  <2>3. ValueOf(value)' = ValueOf(value) /\ ValueOf(marks)' = ValueOf(value)
    BY Zenon, <2>1 DEF ValueOf
  <2>4. \A s \in Symbols \ queue' : value'[s] < MinNotional
    BY <2>1, <2>2, TiersAssumption DEF TypeOK
  <2> QED
    BY Zenon, <2>1, <2>3, <2>4 DEF OpenLeft
<1>2. CASE SellNext
  <2>1. Delevers
    <3>1. UNCHANGED <<mode, pc, st>>
      BY Zenon, <1>2 DEF SellNext, env
    <3>2. calm' = FALSE \/ calm' = calm
      BY Zenon, <1>2 DEF SellNext, SaleFails
    <3> QED
      BY Zenon, <1>0, <3>1, <3>2 DEF Delevers
  <2> QED
    BY <1>0, <1>2, <2>1, SaleDelevers
<1>3. CASE UNCHANGED <<value, mode, round, calm>>
  <2>1. Delevers
    BY Zenon, <1>0, <1>3 DEF round, Delevers
  <2> QED
    BY Zenon, <1>3, <2>1 DEF round, OpenLeft, ValueOf
<1>4. CASE SaveRound \/ Die
  BY <1>0, <1>4 DEF SaveRound, Die, NoRound
<1>5. CASE StartMisread \/ ResetStore \/ SetMode \/ RegimeTurns
  BY Zenon, <1>0, <1>5 DEF StartMisread, ResetStore, SetMode, RegimeTurns, Changes
<1>6. CASE \E s \in Symbols : PriceMove(s) \/ LegsFill(s)
  BY Zenon, <1>0, <1>6 DEF PriceMove, LegsFill, Changes
<1>7. CASE \E s \in Symbols : Enter(s)
  BY <1>0, <1>7 DEF Enter, round
<1>8. CASE ResetLoad \/ Rearm \/ Tick \/ UNCHANGED vars
  BY Zenon, <1>3, <1>8 DEF ResetLoad, Rearm, Tick, vars, account, env
<1> QED
  BY <1>1, <1>2, <1>4, <1>5, <1>6, <1>7, <1>8, Zenon DEF Next, Round

LEMMA MinOfTwo == ASSUME NEW x \in Int, NEW y \in Int PROVE Min({x, y}) = IF x <= y THEN x ELSE y
BY DEF Min

LEMMA DeleverKept == TypeOK /\ DeleverInv => DeleverageExact
<1> SUFFICES ASSUME TypeOK, Delevers, OpenLeft, Enough
             PROVE  /\ Open >= Min({goal, ValueOf(marks)})
                    /\ Open - goal < MinNotional \/ Unsellable
  BY Zenon DEF DeleverInv, Delevers, DeleverageExact
<1>1. /\ Open = left /\ left \in Int /\ goal \in Nat /\ MinNotional \in Nat \ {0}
      /\ marks \in [Symbols -> Nat] /\ st.tier = 2
  BY TiersAssumption DEF OpenLeft, Open, TypeOK, Delevers
<1>2. ValueOf(marks) \in Nat
  BY <1>1, ValueNat
<1>3. Min({goal, ValueOf(marks)}) = IF goal <= ValueOf(marks) THEN goal ELSE ValueOf(marks)
  BY <1>1, <1>2, MinOfTwo
<1>4. Open >= Min({goal, ValueOf(marks)})
  BY <1>1, <1>2, <1>3 DEF OpenLeft
<1>5. CASE queue = {}
  BY <1>1, <1>4, <1>5 DEF OpenLeft, Unsellable
<1>6. CASE left <= goal
  BY <1>1, <1>4, <1>6
<1> QED
  BY <1>5, <1>6 DEF Enough

LEMMA TypedDelever == Spec => [](TypeOK /\ DeleverInv)
BY TypeInit, TypeNext, DeleverInit, DeleverNext, PTL DEF Spec

\* Tier 2 sells what is over its target and no more, whatever the positions are
\* worth, however many there are and in whatever order the round meets them.
THEOREM DeleversExactly == Spec => []DeleverageExact
BY TypedDelever, DeleverKept, PTL

-----------------------------------------------------------------------------
(* Rows                                                                     *)

LEMMA RowStep ==
    TypeOK /\ [Next]_vars => [\A s \in rows \ rows' : 1000 * value'[s] < value[s] + 1000]_vars
<1> SUFFICES ASSUME TypeOK, [Next]_vars, NEW r \in rows \ rows'
             PROVE  1000 * value'[r] < value[r] + 1000
  OBVIOUS
<1>1. r \in Symbols /\ value \in [Symbols -> Nat]
  BY DEF TypeOK
<1>2. CASE SellNext
  <2>1. /\ ~Enough
        /\ \E s \in queue : Succeeds(s) \/ NotTried(s) \/ GoesWrong(s)
    BY <1>2, SellNextSells
  <2>2. PICK s \in queue : Succeeds(s)
    BY <2>1 DEF NotTried, GoesWrong, NoSale
  <2>3. s = r /\ Closed(s)
    BY <2>2 DEF Succeeds, CloseRow
  <2>4. Asked(s) \in 1 .. marks[s] /\ marks[s] \in Nat \ {0}
    BY <2>1, AskedBounded
  <2>5. Proceeds(s) \in 0 .. value[s] /\ value[s] \in Nat
    BY <2>1, ProceedsBounded
  <2>6. value'[s] = value[s] - Proceeds(s)
    BY <1>1, <2>2, <2>3, <2>5, SoldKeepsEquity DEF Succeeds
  <2> DEFINE q == Asked(s)
             b == marks[s]
             v == value[s]
  <2>7. v \in Nat /\ b \in Nat \ {0} /\ q \in 0 .. b /\ 1000 * q >= 999 * b
    BY <2>3, <2>4, <2>5 DEF Closed
  <2> DEFINE p == Proceeds(s)
  <2>8. p = (v * q) \div b
    BY Zenon DEF Proceeds
  <2> HIDE DEF q, b, v, p
  <2>9. 1000 * (v - p) < v + 1000
    BY <2>7, <2>8, ShareLeavesDust
  <2>10. value'[r] = v - p /\ v = value[r]
    BY Zenon, <2>3, <2>6 DEF v, p
  <2>11. p \in Int
    BY <2>5 DEF p
  <2> QED
    BY <2>7, <2>9, <2>10, <2>11
<1>3. CASE Rearm
  BY <1>1, <1>3 DEF Rearm
<1>4. CASE rows' = rows
  BY <1>4
<1>5. CASE StartRound \/ StartMisread \/ SaveRound \/ Die \/ ResetLoad \/ ResetStore
  BY <1>4, <1>5, Starts DEF Evaluate, SaveRound, Die, ResetLoad, ResetStore, account
<1>6. CASE SetMode \/ RegimeTurns \/ Tick \/ UNCHANGED vars
  BY <1>4, <1>6 DEF SetMode, RegimeTurns, Tick, vars, account
<1>7. CASE \E s \in Symbols : Enter(s) \/ PriceMove(s) \/ LegsFill(s)
  BY <1>4, <1>7 DEF Enter, PriceMove, LegsFill
<1> QED
  BY <1>2, <1>3, <1>5, <1>6, <1>7 DEF Next, Round

\* For every size of position, price and failure: what loses its row, and with
\* it its stop and its clock, is gone but for the dust of the last sale.
THEOREM RowsCloseOnDust == Spec => RowKept
BY TypeInit, TypeNext, RowStep, PTL DEF Spec, RowKept
=============================================================================
