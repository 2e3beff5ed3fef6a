---------------------- MODULE ProtectionGuardian_proofs ----------------------
(***************************************************************************)
(* Proofs about ProtectionGuardian: type correctness, the bound on swaps    *)
(* per window, and that an undisturbed sweep never leaves a position that   *)
(* had a stop without one.                                                  *)
(***************************************************************************)
EXTENDS ProtectionGuardian, SumTheorems

SwapPhases == {"cancelSl", "swap", "restoreSl"}

\* A swap OCO that went out is remembered, at the latest when its branch ends.
SwapSent == (pc = "swap" /\ stage = "again") \/ pc = "restoreSl"

SwapRemembered ==
    /\ sent <= 1
    /\ sent > 0 => swapRecent \/ SwapSent
    /\ pc \in {"cancelSl", "swap"} /\ ~SwapSent => ~swapRecent

\* A stop the exchange would take back at the price of the snapshot, as soon
\* as its quantity is free.
PutBack(b) ==
    /\ b \in DOMAIN snap.legs
    /\ Accepted(snap.legs[b])
    /\ snap.legs[b].kind = "sl"
    /\ snap.legs[b].sl < snap.px
    /\ InBand(snap.legs[b].sl, snap.px)

Freed(b) == free >= snap.legs[b].qty

\* What the running sweep knows about the book while nothing disturbed it.
Visited == todo \cup gone = Targets

OnlyStops(legs) == \A i \in legs : snap.legs[i].kind = "sl"

SwapSafe ==
    \E b \in DOMAIN snap.legs :
        /\ PutBack(b)
        /\ pc = "cancelSl" => \/ b \in todo /\ b \in DOMAIN book
                              \/ b \in gone /\ Freed(b)
        /\ pc = "swap" => /\ b \in gone /\ Freed(b)
                          /\ order.kind = "oco" /\ OnlyStops(gone)
                          /\ stage = "size" => order.qty >= Step
        /\ pc = "restoreSl" => /\ SlLegs(book) # {} \/ (b \in todo /\ Freed(b))
                               /\ OnlyStops(todo)

StillStopped == SlLegs(sweep.before) # {} => SlLegs(book) # {}

CalmInv ==
    /\ pc # "idle" => snap.px = price /\ snap.qty >= Step
    /\ pc \in {"cancelTp", "cancelSl"} =>
          /\ Visited
          /\ \A i \in DOMAIN book \cap DOMAIN snap.legs : book[i] = snap.legs[i]
    /\ pc \in SwapPhases => SwapSafe
    /\ pc \notin SwapPhases => StillStopped

\* The book never holds what the exchange would not have accepted.
BookInv == free >= 0 /\ \A i \in DOMAIN book : Accepted(book[i])

FloorInv == BookInv /\ (sweep.trouble = {} => CalmInv)

-----------------------------------------------------------------------------
(* Types                                                                    *)

LEMMA FloorStepInt == \A q \in Int : FloorStep(q) \in Int
  BY ExchangeAssumption DEF FloorStep, ExchangeAssumption

LEMMA PlanTyped ==
  ASSUME TypeOK
  PROVE  /\ PlanTp \in Nat
         /\ \A sl \in Nat, p \in Prices \cup {0} : Legalize(sl, p) \in Nat
         /\ PlanSl(snap.px) \in Nat
         /\ EmergencyStop(snap.px) \in Nat
<1> USE ExchangeAssumption, GuardianAssumption
    DEF TypeOK, LocalTyped, SnapTyped, ExchangeAssumption, GuardianAssumption
<1>1. snap.px \in Nat /\ pos.tp \in Nat /\ pos.sl \in Nat /\ Entry \in Nat
  OBVIOUS
<1>2. PlanTp \in Nat
  BY <1>1 DEF PlanTp
<1>3. \A sl \in Nat, p \in Prices \cup {0} : Legalize(sl, p) \in Nat
  <2> TAKE sl \in Nat, p \in Prices \cup {0}
  <2>1. p \in Nat /\ (93 * p) \div 100 \in Nat
    OBVIOUS
  <2> QED BY <2>1 DEF Legalize
<1>4. PlanSl(snap.px) \in Nat
  <2>1. (92 * Entry) \div 100 \in Nat
    BY <1>1
  <2> QED BY <1>1, <1>3, <2>1 DEF PlanSl
<1>5. EmergencyStop(snap.px) \in Nat
  BY <1>1 DEF EmergencyStop
<1> QED BY <1>2, <1>3, <1>4, <1>5

LEMMA NoSnapTyped ==
  /\ NoSnap = [qty |-> NoSnap.qty, px |-> NoSnap.px, legs |-> NoSnap.legs,
               cover |-> NoSnap.cover]
  /\ NoSnap.qty = 0 /\ NoSnap.px = 0 /\ DOMAIN NoSnap.legs = {}
  /\ NoSnap.cover \in [Kinds -> Int]
  BY DEF NoSnap, NoLegs, NoCover

\* The end of a sweep leaves typed local state, whatever was there before.
LEMMA IdleTyped == Idle => LocalTyped'
  BY NoSnapTyped DEF Idle, LocalTyped, SnapTyped, Phases, NoOrder, Kinds

\* A call to the exchange keeps the types of everything it touches.
LEMMA EnterTyped ==
  ASSUME ExchangeTyped, NEW l, NEW taken, Enter(l, taken)
  PROVE  ExchangeTyped' /\ price' = price
<1>1. l \in Leg
  BY DEF Enter, Placeable
<1>2. CASE Execute(l)
  BY <1>1, <1>2 DEF Execute, ExchangeTyped, Leg
<1>3. CASE \E i \in Fresh(DOMAIN book \cup taken) : Rest(l, i)
  BY <1>1, <1>3 DEF Rest, Fresh, ExchangeTyped, Leg
<1> QED BY <1>2, <1>3 DEF Enter, Join

LEMMA CancelTyped ==
  ASSUME ExchangeTyped, NEW i, Cancel(i)
  PROVE  ExchangeTyped' /\ price' = price
  BY DEF Cancel, Remove, ExchangeTyped, Leg

LEMMA SendTyped ==
  ASSUME TypeOK, NEW l, NEW ok \in BOOLEAN, Send(l, ok)
  PROVE  /\ ExchangeTyped' /\ price' = price
         /\ faults' \in 0 .. MaxFaults
         /\ sweep' = [before |-> sweep'.before, qty |-> sweep'.qty,
                      trouble |-> sweep'.trouble]
         /\ sweep'.trouble \subseteq {"call", "price", "fill", "crash"}
<1> USE DEF TypeOK, HistoryTyped
<1>1. ExchangeTyped' /\ price' = price
  BY EnterTyped DEF Send, ExchangeTyped, exchange
<1>2. faults' \in 0 .. MaxFaults
  BY GuardianAssumption DEF Send, Fault, NoFault, GuardianAssumption
<1>3. sweep' = sweep \/ Disturbed("call")
  BY DEF Send
<1> QED BY <1>1, <1>2, <1>3 DEF Disturbed

LEMMA SendCancelTyped ==
  ASSUME TypeOK, NEW i, NEW counted \in BOOLEAN, SendCancel(i, counted)
  PROVE  /\ ExchangeTyped' /\ price' = price
         /\ faults' \in 0 .. MaxFaults
         /\ sweep' = [before |-> sweep'.before, qty |-> sweep'.qty,
                      trouble |-> sweep'.trouble]
         /\ sweep'.trouble \subseteq {"call", "price", "fill", "crash"}
<1> USE DEF TypeOK, HistoryTyped
<1>1. ExchangeTyped' /\ price' = price
  BY CancelTyped DEF SendCancel, ExchangeTyped, exchange
<1>2. faults' \in 0 .. MaxFaults
  BY GuardianAssumption DEF SendCancel, Fault, NoFault, GuardianAssumption
<1>3. sweep' = sweep \/ Disturbed("call")
  BY DEF SendCancel
<1> QED BY <1>1, <1>2, <1>3 DEF Disturbed

LEMMA AuditTyped ==
  ASSUME NEW name \in AuditNames, Audit(name)
  PROVE  audit' \in [action : AuditNames, from : Shapes]
  BY DEF Audit, Shape, Shapes

LEMMA SucceedTyped ==
  ASSUME TypeOK, pc \in Placements, Succeed
  PROVE  /\ audit' \in [action : AuditNames, from : Shapes]
         /\ swapRecent' \in BOOLEAN
         /\ LocalTyped'
<1>1. AuditName(pc) \in AuditNames
  BY DEF AuditName, AuditNames, Placements
<1>2. audit' \in [action : AuditNames, from : Shapes]
  BY <1>1, AuditTyped DEF Succeed
<1>3. swapRecent' \in BOOLEAN
  BY DEF Succeed
<1> QED BY <1>2, <1>3, IdleTyped DEF Succeed

LEMMA GiveUpTyped ==
  ASSUME TypeOK, pc \in Placements, GiveUp
  PROVE  /\ audit' = audit
         /\ swapRecent' = swapRecent
         /\ LocalTyped'
<1> USE DEF TypeOK, LocalTyped
<1>1. CASE pc = "sliceOco" /\ pc' = "sliceTp"
  BY <1>1 DEF GiveUp, SnapTyped, Phases, Placements, Kinds
<1>2. CASE pc = "rebuild" /\ pc' \in {"demote", "restoreTp"}
  BY <1>2 DEF GiveUp, SnapTyped, Phases
<1>3. CASE pc = "swap" /\ pc' = "restoreSl"
  BY <1>3 DEF GiveUp, SnapTyped, Phases
<1>4. CASE pc \in {"emergency", "sliceTp"} /\ Idle
  BY <1>4, IdleTyped DEF GiveUp
<1> QED BY <1>1, <1>2, <1>3, <1>4 DEF GiveUp

LEMMA ListedCoverTyped ==
  ASSUME locked \in [Kinds -> Int]
  PROVE  ListedCover(locked) \in [Kinds -> Int]
  BY DEF ListedCover, Kinds

\* What the sweep decides on is typed, whatever it has read.
LEMMA DecideTyped ==
  ASSUME TypeOK, NEW c \in [Kinds -> Int], NEW legs,
         todo = {}, gone = {}, Decide(c, legs)
  PROVE  /\ pc' \in Phases \ {"read"}
         /\ stage' \in {"size", "place", "again"}
         /\ todo' \subseteq DOMAIN legs
         /\ gone' = {}
         /\ pc' = "idle" => todo' = {}
         /\ order' \in [kind : Kinds, qty : Int, tp : Nat, sl : Nat]
<1> USE DEF TypeOK, LocalTyped, SnapTyped
<1>1. CASE Skip(c)
  BY <1>1 DEF Skip, Phases
<1>2. ASSUME NEW task \in Placements, NEW kind \in Kinds, NEW q \in Int,
             Plan(task, kind, q)
      PROVE  /\ pc' \in Placements
             /\ stage' = "size" /\ todo' = {} /\ gone' = {}
             /\ order' \in [kind : Kinds, qty : Int, tp : Nat, sl : Nat]
  BY <1>2, PlanTyped DEF Plan
<1>3. CASE \E k \in Kinds : CancelFirst("cancelTp", {i \in DOMAIN legs : legs[i].kind = k})
                           \/ CancelFirst("cancelSl", {i \in DOMAIN legs : legs[i].kind = k})
  BY <1>3 DEF CancelFirst, Phases
<1>4. FloorStep(snap.qty) \in Int /\ FreeSlice(c) \in Int
  BY FloorStepInt DEF FreeSlice, Kinds
<1>5. CASE DecideBreached(c)
  BY <1>1, <1>2, <1>4, <1>5 DEF DecideBreached, Placements, Kinds, Phases
<1>6. CASE DecideSlice(c)
  BY <1>2, <1>4, <1>6 DEF DecideSlice, Placements, Kinds, Phases
<1>7. CASE DecideLocked(c, legs)
  BY <1>1, <1>2, <1>3, <1>4, <1>7 DEF DecideLocked, Placements, Kinds, Phases
<1> QED BY <1>1, <1>5, <1>6, <1>7 DEF Decide

\* What legs lock is a quantity.
LEMMA QtyNat ==
  ASSUME NEW b, IsFiniteSet(DOMAIN b), \A i \in DOMAIN b : b[i] \in Leg,
         NEW legs, legs \subseteq DOMAIN b
  PROVE  QtyIn(b, legs) \in Nat
<1> DEFINE f == [i \in DOMAIN b |-> b[i].qty]
<1>1. IsFiniteSet(legs)
  BY FS_Subset
<1>2. \A i \in legs : f[i] \in Nat
  BY DEF Leg
<1> HIDE DEF f
<1>3. SumFunctionOnSet(f, legs) \in Nat
  BY <1>1, <1>2, SumNat
<1> QED BY <1>3 DEF f, QtyIn

LEMMA InitTyped == Init => TypeOK
<1> SUFFICES ASSUME Init PROVE TypeOK
  OBVIOUS
<1>1. ExchangeTyped
  <2>1. /\ DOMAIN book \subseteq OrderIds /\ IsFiniteSet(DOMAIN book)
        /\ \A i \in DOMAIN book : book[i] \in Leg
        /\ free \in Nat /\ price \in Prices
    BY GuardianAssumption DEF Init, GuardianAssumption, Accepted
  <2>2. \A k \in Kinds : QtyOf(book, k) \in Int
    BY <2>1, QtyNat DEF QtyOf
  <2>3. locked \in [Kinds -> Int]
    BY <2>2 DEF Init
  <2> QED BY <2>1, <2>3 DEF ExchangeTyped
<1>2. pos \in [qty : Int, tp : Nat, sl : Nat] /\ swapRecent \in BOOLEAN
  <2>1. pos \in [qty : Nat, tp : Nat, sl : Nat]
    BY GuardianAssumption DEF Init, GuardianAssumption
  <2> QED BY <2>1 DEF Init
<1>3. LocalTyped
  BY NoSnapTyped DEF Init, LocalTyped, SnapTyped, Phases, NoOrder, Kinds
<1>4. HistoryTyped
  BY GuardianAssumption
  DEF Init, HistoryTyped, NoAudit, AuditNames, Shapes, GuardianAssumption
<1>5. faults \in 0 .. MaxFaults
  BY GuardianAssumption DEF Init, GuardianAssumption
<1> QED BY <1>1, <1>2, <1>3, <1>4, <1>5 DEF TypeOK

LEMMA StartSweepTyped ==
  ASSUME TypeOK, StartSweep
  PROVE  TypeOK'
<1> USE DEF StartSweep, TypeOK
<1>1. ExchangeTyped' /\ pos' = pos /\ swapRecent' = swapRecent /\ faults' = faults
  BY DEF exchange, ExchangeTyped, db
<1>2. snap' = [qty |-> pos.qty, px |-> price, legs |-> NoLegs, cover |-> NoCover]
  OBVIOUS
<1>3. SnapTyped'
  BY <1>2, NoSnapTyped DEF SnapTyped, ExchangeTyped, NoSnap, NoLegs
<1>4. todo' = {} /\ gone' = {} /\ DOMAIN snap'.legs = {}
  <2>1. DOMAIN NoLegs = {}
    BY DEF NoLegs
  <2>2. snap'.legs = NoLegs
    BY <1>2
  <2>3. todo = {} /\ gone = {}
    BY DEF LocalTyped
  <2> QED BY <2>1, <2>2, <2>3
<1>5. LocalTyped'
  BY <1>3, <1>4 DEF LocalTyped, Phases
<1>6. HistoryTyped'
  BY DEF HistoryTyped, NoAudit, AuditNames, Shapes
<1> QED BY <1>1, <1>5, <1>6

LEMMA ReadOrdersTyped ==
  ASSUME TypeOK, ReadOrders
  PROVE  TypeOK'
<1> USE DEF TypeOK
<1>1. ExchangeTyped' /\ pos' = pos /\ swapRecent' = swapRecent
  BY DEF ReadOrders, exchange, ExchangeTyped, db
<1>2. todo = {} /\ gone = {}
  BY DEF ReadOrders, LocalTyped
<1>3. PICK legs \in {book, NoLegs} :
        LET c == IF legs = book THEN ListedCover(locked) ELSE NoCover
        IN  /\ IF legs = book
                 THEN NoFault /\ UNCHANGED sweep
                 ELSE Fault /\ Disturbed("call")
            /\ Decide(c, legs)
            /\ snap' = IF pc' = "idle" THEN NoSnap
                       ELSE [snap EXCEPT !.legs = legs, !.cover = c]
  BY DEF ReadOrders
<1> DEFINE c == IF legs = book THEN ListedCover(locked) ELSE NoCover
<1>4. c \in [Kinds -> Int]
  BY ListedCoverTyped DEF ExchangeTyped, NoCover
<1>5. /\ pc' \in Phases \ {"read"}
      /\ stage' \in {"size", "place", "again"}
      /\ todo' \subseteq DOMAIN legs
      /\ gone' = {}
      /\ pc' = "idle" => todo' = {}
      /\ order' \in [kind : Kinds, qty : Int, tp : Nat, sl : Nat]
  BY <1>2, <1>3, <1>4, DecideTyped
<1>6. DOMAIN legs \subseteq OrderIds /\ \A i \in DOMAIN legs : legs[i] \in Leg
  BY DEF ExchangeTyped, NoLegs
<1>7. LocalTyped'
  <2>1. CASE pc' = "idle"
    BY <2>1, <1>3, <1>5, NoSnapTyped DEF LocalTyped, SnapTyped
  <2>2. CASE pc' # "idle"
    <3>1. snap' = [qty |-> snap.qty, px |-> snap.px, legs |-> legs, cover |-> c]
      BY <2>2, <1>3 DEF LocalTyped, SnapTyped
    <3>2. SnapTyped'
      BY <3>1, <1>4, <1>6, <1>1 DEF LocalTyped, SnapTyped
    <3> QED BY <3>1, <3>2, <2>2, <1>5 DEF LocalTyped
  <2> QED BY <2>1, <2>2
<1>8. HistoryTyped' /\ faults' \in 0 .. MaxFaults
  BY <1>3, GuardianAssumption
  DEF ReadOrders, HistoryTyped, Fault, NoFault, Disturbed, GuardianAssumption
<1> QED BY <1>1, <1>7, <1>8

LEMMA SizeTyped ==
  ASSUME TypeOK, Size
  PROVE  TypeOK'
<1> USE DEF TypeOK
<1>1. PICK seen \in {free, 0} :
        LET q == Calibrate(order.qty, seen)
        IN  /\ SeeFree(seen)
            /\ IF q <= 0 \/ (pc \in {"sliceOco", "sliceTp"} /\ ~WorthPlacing(q, snap.px))
                 THEN Idle
                 ELSE /\ order' = [order EXCEPT !.qty = q]
                      /\ stage' = "place"
                      /\ UNCHANGED <<pc, snap, todo, gone>>
  BY DEF Size
<1>2. ExchangeTyped' /\ pos' = pos /\ swapRecent' = swapRecent
  BY DEF Size, exchange, ExchangeTyped, db
<1>3. Calibrate(order.qty, seen) \in Int
  BY FloorStepInt DEF Calibrate, ExchangeTyped, LocalTyped
<1>4. LocalTyped'
  BY <1>1, <1>3, IdleTyped DEF LocalTyped, SnapTyped
<1>5. HistoryTyped' /\ faults' \in 0 .. MaxFaults
  BY <1>1, GuardianAssumption
  DEF Size, SeeFree, HistoryTyped, Fault, NoFault, Disturbed, GuardianAssumption
<1> QED BY <1>2, <1>4, <1>5

LEMMA PlaceTyped ==
  ASSUME TypeOK, Place \/ PlaceAgain
  PROVE  TypeOK'
<1> USE DEF TypeOK
<1>1. /\ pc \in Placements
      /\ pos' = pos /\ moves' = moves /\ sent' \in 0 .. 2
      /\ \/ \E l : \E ok \in BOOLEAN : Send(l, ok)
         \/ /\ UNCHANGED exchange
            /\ \/ NoFault /\ UNCHANGED sweep
               \/ Fault /\ Disturbed("call")
      /\ \/ Succeed \/ GiveUp
         \/ stage' = "again" /\ UNCHANGED <<swapRecent, audit, pc, snap, todo, gone, order>>
  BY DEF Place, PlaceAgain, HistoryTyped
<1>2. /\ ExchangeTyped' /\ faults' \in 0 .. MaxFaults
      /\ sweep' = [before |-> sweep'.before, qty |-> sweep'.qty,
                   trouble |-> sweep'.trouble]
      /\ sweep'.trouble \subseteq {"call", "price", "fill", "crash"}
  <2>1. CASE \E l : \E ok \in BOOLEAN : Send(l, ok)
    BY <2>1, SendTyped
  <2>2. CASE /\ UNCHANGED exchange
             /\ \/ NoFault /\ UNCHANGED sweep
                \/ Fault /\ Disturbed("call")
    BY <2>2, GuardianAssumption
    DEF exchange, ExchangeTyped, NoFault, Fault, Disturbed, HistoryTyped, GuardianAssumption
  <2> QED BY <1>1, <2>1, <2>2
<1>3. /\ audit' \in [action : AuditNames, from : Shapes]
      /\ swapRecent' \in BOOLEAN
      /\ LocalTyped'
  <2>1. CASE stage' = "again" /\ UNCHANGED <<swapRecent, audit, pc, snap, todo, gone, order>>
    BY <2>1 DEF LocalTyped, SnapTyped, HistoryTyped
  <2>2. CASE GiveUp
    BY <1>1, <2>2, GiveUpTyped DEF HistoryTyped
  <2> QED BY <1>1, <2>1, <2>2, SucceedTyped
<1> QED BY <1>1, <1>2, <1>3 DEF HistoryTyped

LEMMA CancelLegTyped ==
  ASSUME TypeOK, CancelLeg
  PROVE  TypeOK'
<1> USE DEF TypeOK
<1>1. PICK i \in todo, counted \in BOOLEAN :
        /\ SendCancel(i, counted)
        /\ todo' = todo \ {i}
        /\ gone' = IF counted THEN gone \cup {i} ELSE gone
  BY DEF CancelLeg
<1>2. /\ ExchangeTyped' /\ faults' \in 0 .. MaxFaults
      /\ sweep' = [before |-> sweep'.before, qty |-> sweep'.qty,
                   trouble |-> sweep'.trouble]
      /\ sweep'.trouble \subseteq {"call", "price", "fill", "crash"}
  BY <1>1, SendCancelTyped
<1>3. LocalTyped'
  BY <1>1 DEF CancelLeg, LocalTyped, SnapTyped
<1> QED BY <1>2, <1>3 DEF CancelLeg, HistoryTyped, db

LEMMA PlanRebuildTyped ==
  ASSUME TypeOK, PlanRebuild
  PROVE  TypeOK'
<1> USE DEF TypeOK
<1>1. PICK i \in gone : \E tp \in 0 .. snap.legs[i].tp :
        order' = [kind |-> "oco", qty |-> FloorStep(snap.qty),
                  tp |-> IF 1000 * tp <= 1001 * snap.px THEN PlanTp ELSE tp,
                  sl |-> PlanSl(snap.px)]
  BY DEF PlanRebuild
<1>2. order' \in [kind : Kinds, qty : Int, tp : Nat, sl : Nat]
  BY <1>1, PlanTyped, FloorStepInt DEF LocalTyped, SnapTyped, Leg, Kinds
<1>3. LocalTyped'
  BY <1>2 DEF PlanRebuild, LocalTyped, SnapTyped, Phases, Placements
<1> QED BY <1>3 DEF PlanRebuild, exchange, db, ExchangeTyped, HistoryTyped

LEMMA PlanSwapTyped ==
  ASSUME TypeOK, PlanSwap
  PROVE  TypeOK'
<1> USE DEF TypeOK
<1>1. PICK i \in gone :
        order' = [kind |-> "oco", qty |-> FloorStep(snap.qty), tp |-> PlanTp,
                  sl |-> Legalize(snap.legs[i].sl, snap.px)]
  BY DEF PlanSwap
<1>2. snap.legs[i].sl \in Nat /\ snap.px \in Prices \cup {0}
  BY DEF LocalTyped, SnapTyped, Leg
<1>3. order' \in [kind : Kinds, qty : Int, tp : Nat, sl : Nat]
  BY <1>1, <1>2, PlanTyped, FloorStepInt DEF LocalTyped, SnapTyped, Kinds
<1>4. LocalTyped'
  BY <1>3 DEF PlanSwap, LocalTyped, SnapTyped, Phases, Placements
<1> QED BY <1>4 DEF PlanSwap, exchange, db, ExchangeTyped, HistoryTyped

\* The four rungs of the ladders send one order and note where they are.
LEMMA RescueTyped ==
  ASSUME TypeOK, RestoreTp \/ Demote \/ RestoreLast \/ RestoreSl
  PROVE  TypeOK'
<1> USE DEF TypeOK
<1>1. /\ \E l : \E ok \in BOOLEAN : Send(l, ok)
      /\ pos' = pos /\ sent' = sent /\ moves' = moves
      /\ swapRecent' \in BOOLEAN
  BY DEF RestoreTp, Demote, RestoreLast, RestoreSl, db
<1>2. /\ ExchangeTyped' /\ faults' \in 0 .. MaxFaults
      /\ sweep' = [before |-> sweep'.before, qty |-> sweep'.qty,
                   trouble |-> sweep'.trouble]
      /\ sweep'.trouble \subseteq {"call", "price", "fill", "crash"}
  BY <1>1, SendTyped
<1>3. LocalTyped' /\ audit' \in [action : AuditNames, from : Shapes]
  <2>1. CASE RestoreTp
    BY <2>1 DEF RestoreTp, LocalTyped, SnapTyped, Phases, HistoryTyped
  <2>2. CASE Demote
    <3>1. CASE Audit("sl_demote") /\ Idle
      BY <3>1, IdleTyped, AuditTyped DEF AuditNames
    <3>2. CASE pc' = "restoreLast"
      BY <2>2, <3>2 DEF Demote, Idle, LocalTyped, SnapTyped, Phases, HistoryTyped
    <3> QED BY <2>2, <3>1, <3>2 DEF Demote
  <2>3. CASE RestoreLast
    BY <2>3, IdleTyped, AuditTyped DEF RestoreLast, AuditNames
  <2>4. CASE RestoreSl
    <3>1. CASE Audit("oco_swap_failed_sl_restored") /\ Idle
      BY <3>1, IdleTyped, AuditTyped DEF AuditNames
    <3>2. CASE /\ todo' \subseteq todo
               /\ UNCHANGED <<swapRecent, pc, stage, snap, gone, order, audit>>
      BY <3>2 DEF LocalTyped, SnapTyped, HistoryTyped
    <3> QED BY <2>4, <3>1, <3>2 DEF RestoreSl
  <2> QED BY <1>1, <2>1, <2>2, <2>3, <2>4
<1> QED BY <1>1, <1>2, <1>3 DEF HistoryTyped

LEMMA WorldTyped ==
  ASSUME TypeOK, World
  PROVE  TypeOK'
<1> USE DEF TypeOK
<1>1. CASE PriceMoves
  <2>1. ExchangeTyped'
    BY <1>1 DEF PriceMoves, MoveTo, ExchangeTyped
  <2>2. LocalTyped'
    BY <1>1 DEF PriceMoves, local, LocalTyped, SnapTyped
  <2>3. HistoryTyped'
    <3>1. moves' \in 0 .. MaxMoves
      BY <1>1, GuardianAssumption DEF PriceMoves, HistoryTyped, GuardianAssumption
    <3>2. /\ sweep' = [before |-> sweep'.before, qty |-> sweep'.qty,
                       trouble |-> sweep'.trouble]
          /\ sweep'.trouble \subseteq {"call", "price", "fill", "crash"}
      BY <1>1 DEF PriceMoves, HistoryTyped, Disturbed
    <3> QED BY <1>1, <3>1, <3>2 DEF PriceMoves, HistoryTyped
  <2> QED BY <1>1, <2>1, <2>2, <2>3 DEF PriceMoves, db
<1>2. CASE LegFills
  <2>1. ExchangeTyped'
    BY <1>2 DEF LegFills, Fill, Remove, ExchangeTyped, Leg
  <2>2. LocalTyped'
    BY <1>2 DEF LegFills, local, LocalTyped, SnapTyped
  <2>3. HistoryTyped'
    BY <1>2 DEF LegFills, HistoryTyped, Disturbed
  <2> QED BY <1>2, <2>1, <2>2, <2>3 DEF LegFills, db
<1>3. CASE SyncRow
  <2>1. Held \in Int
    BY DEF Held, ExchangeTyped, Kinds
  <2>2. ExchangeTyped' /\ LocalTyped'
    BY <1>3 DEF SyncRow, exchange, local, ExchangeTyped, LocalTyped, SnapTyped
  <2> QED BY <1>3, <2>1, <2>2 DEF SyncRow, HistoryTyped
<1>4. CASE SwapWindowEnds
  <2>1. ExchangeTyped'
    BY <1>4 DEF SwapWindowEnds, exchange, ExchangeTyped
  <2>2. LocalTyped'
    BY <1>4 DEF SwapWindowEnds, local, LocalTyped, SnapTyped
  <2>3. HistoryTyped'
    BY <1>4 DEF SwapWindowEnds, HistoryTyped
  <2>4. pos' = pos /\ swapRecent' \in BOOLEAN /\ faults' = faults
    BY <1>4 DEF SwapWindowEnds
  <2> QED BY <2>1, <2>2, <2>3, <2>4
<1>5. CASE Abandon
  <2>1. ExchangeTyped' /\ LocalTyped'
    BY <1>5, IdleTyped DEF Abandon, exchange, ExchangeTyped
  <2>2. HistoryTyped'
    BY <1>5 DEF Abandon, Disturbed, HistoryTyped
  <2>3. faults' \in 0 .. MaxFaults
    BY <1>5, GuardianAssumption DEF Abandon, Fault, GuardianAssumption
  <2> QED BY <1>5, <2>1, <2>2, <2>3 DEF Abandon, db
<1> QED BY <1>1, <1>2, <1>3, <1>4, <1>5 DEF World

LEMMA StutterTyped ==
  ASSUME TypeOK, UNCHANGED vars
  PROVE  TypeOK'
  BY DEF vars, exchange, db, local, history, TypeOK, ExchangeTyped, LocalTyped,
         SnapTyped, HistoryTyped

LEMMA NextTyped == TypeOK /\ [Next]_vars => TypeOK'
<1> SUFFICES ASSUME TypeOK, [Next]_vars PROVE TypeOK'
  OBVIOUS
<1>1. CASE AbortPartial
  <2>1. ExchangeTyped' /\ HistoryTyped'
    BY <1>1 DEF AbortPartial, exchange, TypeOK, ExchangeTyped, HistoryTyped
  <2> QED BY <1>1, <2>1, IdleTyped DEF AbortPartial, TypeOK, db
<1>2. CASE Sweep
  BY <1>1, <1>2, StartSweepTyped, ReadOrdersTyped, SizeTyped, PlaceTyped,
     CancelLegTyped, PlanRebuildTyped, PlanSwapTyped, RescueTyped
  DEF Sweep
<1> QED BY <1>2, WorldTyped, StutterTyped DEF Next

\* Every variable of the guardian keeps its type, for every lot, band, price
\* set and starting book: no placement of a sweep computes a quantity, a stop
\* or a target that is not a number, whatever was read and whatever failed.
THEOREM TypeCorrect == Spec => []TypeOK
<1>1. Init => TypeOK
  BY InitTyped
<1>2. TypeOK /\ [Next]_vars => TypeOK'
  BY NextTyped
<1> QED BY <1>1, <1>2, PTL DEF Spec

-----------------------------------------------------------------------------
(* At most one swap OCO per window                                          *)

\* A swap is entered only outside the window.
LEMMA DecideSwap ==
  ASSUME NEW c, NEW legs, Decide(c, legs)
  PROVE  /\ pc' \notin {"swap", "restoreSl"}
         /\ pc' = "cancelSl" => ~swapRecent
<1>1. CASE DecideLocked(c, legs)
  <2>1. CASE OnlySl(c) /\ SwapAllowed(c, legs)
    BY <1>1, <2>1 DEF DecideLocked, CancelFirst, Plan, Skip, SwapAllowed
  <2>2. CASE ~(OnlySl(c) /\ SwapAllowed(c, legs))
    BY <1>1, <2>2 DEF DecideLocked, CancelFirst, Plan, Skip
  <2> QED BY <2>1, <2>2
<1>2. CASE DecideBreached(c) \/ DecideSlice(c) \/ Skip(c)
  BY <1>2 DEF DecideBreached, DecideSlice, Plan, Skip
<1> QED BY <1>1, <1>2 DEF Decide

LEMMA SwapPlacement ==
  ASSUME TypeOK, SwapRemembered, Place \/ PlaceAgain
  PROVE  SwapRemembered'
<1> USE DEF SwapRemembered, SwapSent
<1>1. pc \in Placements /\ sent \in 0 .. 2
  BY DEF Place, PlaceAgain, TypeOK, HistoryTyped
<1>2. CASE Succeed
  <2>1. pc' = "idle" /\ swapRecent' = (swapRecent \/ pc = "swap")
    BY <1>2 DEF Succeed, Idle
  <2>2. CASE pc = "swap"
    <3>1. swapRecent'
      BY <2>1, <2>2
    <3>2. CASE Place
      BY <1>1, <2>1, <2>2, <3>1, <3>2 DEF Place
    <3>3. CASE PlaceAgain
      BY <1>1, <2>1, <2>2, <3>1, <3>3 DEF PlaceAgain
    <3> QED BY <3>2, <3>3
  <2>3. CASE pc # "swap"
    BY <1>1, <2>1, <2>3 DEF Place, PlaceAgain, Placements
  <2> QED BY <2>2, <2>3
<1>3. CASE GiveUp /\ PlaceAgain
  BY <1>1, <1>3 DEF GiveUp, PlaceAgain, Idle, Placements
<1>4. CASE Place /\ stage' = "again" /\ UNCHANGED <<swapRecent, pc>>
  BY <1>1, <1>4 DEF Place, Placements
<1> QED BY <1>2, <1>3, <1>4 DEF Place, PlaceAgain

LEMMA SwapStep == TypeOK /\ SwapRemembered /\ [Next]_vars => SwapRemembered'
<1> SUFFICES ASSUME TypeOK, SwapRemembered, [Next]_vars PROVE SwapRemembered'
  OBVIOUS
<1> USE DEF SwapRemembered, SwapSent
<1>0. sent \in 0 .. 2
  BY DEF TypeOK, HistoryTyped
<1>1. CASE StartSweep
  BY <1>1 DEF StartSweep, db
<1>2. CASE ReadOrders
  <2>1. PICK c, legs : Decide(c, legs)
    BY <1>2 DEF ReadOrders
  <2>2. sent' = sent /\ swapRecent' = swapRecent /\ pc = "read"
    BY <1>2 DEF ReadOrders, db
  <2> QED BY <2>1, <2>2, DecideSwap
<1>3. CASE Size
  <2>1. /\ sent' = sent /\ swapRecent' = swapRecent /\ stage = "size"
        /\ pc \in Placements
    BY <1>3 DEF Size, db
  <2>2. pc' = "idle" \/ (pc' = pc /\ stage' = "place")
    BY <1>3 DEF Size, Idle
  <2> QED BY <2>1, <2>2 DEF Placements
<1>4. CASE CancelLeg
  BY <1>4 DEF CancelLeg, db
<1>5. CASE AbortPartial \/ PlanRebuild \/ PlanSwap
  BY <1>5 DEF AbortPartial, PlanRebuild, PlanSwap, Idle, db
<1>6. CASE RestoreTp \/ Demote \/ RestoreLast
  BY <1>6 DEF RestoreTp, Demote, RestoreLast, Idle, db
<1>7. CASE RestoreSl
  BY <1>7, <1>0 DEF RestoreSl, Idle
<1>8. CASE PriceMoves \/ LegFills \/ SyncRow
  BY <1>8 DEF PriceMoves, LegFills, SyncRow, db, local
<1>9. CASE SwapWindowEnds
  BY <1>9 DEF SwapWindowEnds, local
<1>10. CASE UNCHANGED vars
  BY <1>10 DEF vars, db, local, history
<1>11. CASE Abandon
  BY <1>11 DEF Abandon, Idle
<1> QED
  BY <1>1, <1>2, <1>3, <1>4, <1>5, <1>6, <1>7, <1>8, <1>9, <1>10, <1>11, SwapPlacement
  DEF Next, Sweep, World

\* However calls fail and whatever the market does, no second swap OCO goes
\* out for a position before the window of the first has ended, unless a sweep
\* was cut short in between.
THEOREM OneSwap == Spec => []OneSwapPerWindow
<1>1. Init => SwapRemembered
  BY DEF Init, SwapRemembered, SwapSent
<1>2. TypeOK /\ SwapRemembered /\ [Next]_vars => SwapRemembered'
  BY SwapStep
<1>3. SwapRemembered => OneSwapPerWindow
  BY DEF SwapRemembered, OneSwapPerWindow
<1> QED BY <1>1, <1>2, <1>3, TypeCorrect, PTL DEF Spec

-----------------------------------------------------------------------------
(* An undisturbed sweep never leaves a stopped position without a stop      *)

LEMMA FloorStepLot == \A q \in Int : q >= Step => FloorStep(q) >= Step
<1> TAKE q \in Int
<1> HAVE q >= Step
<1>1. Step \in Nat /\ Step > 0
  BY ExchangeAssumption DEF ExchangeAssumption
<1>2. q \div Step \in Int /\ q \div Step >= 1
  BY <1>1
<1>3. \A n \in Int : n >= 1 => n * Step >= Step
  BY <1>1
<1> QED BY <1>2, <1>3 DEF FloorStep

\* A holding worth an order is at least one lot.
LEMMA WorthALot ==
  ASSUME NEW q \in Int, NEW p \in Prices, q * p >= MinNotional
  PROVE  q >= Step
<1>1. p \in Nat /\ Step \in Nat /\ MinNotional \in Nat /\ (Step - 1) * p < MinNotional
  BY ExchangeAssumption DEF ExchangeAssumption
<1>2. SUFFICES ASSUME q <= Step - 1 PROVE FALSE
  BY <1>1
<1>3. q * p <= (Step - 1) * p
  BY <1>1, <1>2
<1> QED BY <1>1, <1>3

\* The exchange refuses no stop for its distance that the sweep's own band
\* check admits.
LEMMA BandLooser ==
  ASSUME NEW p \in Nat, NEW sl \in Nat, InBand(sl, p)
  PROVE  100 * sl >= BandPct * p
<1>1. BandPct \in Nat /\ BandPct <= 87
  BY ExchangeAssumption, GuardianAssumption DEF ExchangeAssumption, GuardianAssumption
<1>2. BandPct * p <= 87 * p
  BY <1>1
<1> QED BY <1>1, <1>2 DEF InBand

\* Entering an order only adds to the stops on the book, and an accepted order
\* with a stop is one.
LEMMA EnterFloor ==
  ASSUME ExchangeTyped, BookInv, NEW l, NEW taken, Enter(l, taken)
  PROVE  /\ BookInv'
         /\ SlLegs(book) # {} => SlLegs(book') # {}
         /\ HasSl(l) => SlLegs(book') # {}
<1>1. /\ l \in Leg /\ Accepted(l) /\ l.qty <= free
  BY DEF Enter, Placeable, Accepted
<1>2. CASE Execute(l) /\ Marketable(l)
  BY <1>1, <1>2 DEF Execute, Marketable, HasSl, BookInv, ExchangeTyped, Leg, SlLegs
<1>3. CASE \E i \in Fresh(DOMAIN book \cup taken) : Rest(l, i)
  <2> PICK i \in Fresh(DOMAIN book \cup taken) : Rest(l, i)
    BY <1>3
  <2>1. /\ i \notin DOMAIN book
        /\ DOMAIN book' = DOMAIN book \cup {i}
        /\ book'[i] = l
        /\ \A j \in DOMAIN book : book'[j] = book[j]
    BY DEF Fresh, Rest
  <2>2. free' >= 0
    BY <1>1 DEF Rest, ExchangeTyped, Leg
  <2>3. \A j \in DOMAIN book' : Accepted(book'[j])
    BY <1>1, <2>1 DEF BookInv
  <2> QED BY <2>1, <2>2, <2>3 DEF BookInv, SlLegs
<1> QED BY <1>2, <1>3 DEF Enter, Join

\* What a request does while nothing disturbs the sweep: it is served, or it
\* is refused and changes nothing.
LEMMA SendFloor ==
  ASSUME TypeOK, BookInv, NEW l, NEW ok \in BOOLEAN, Send(l, ok)
  PROVE  /\ BookInv'
         /\ SlLegs(book) # {} => SlLegs(book') # {}
         /\ sweep'.trouble = {} =>
              /\ sweep' = sweep
              /\ ok => (HasSl(l) => SlLegs(book') # {})
              /\ ~ok => /\ UNCHANGED exchange
                        /\ ~Placeable(l) \/ l.kind = "oco"
<1> USE DEF TypeOK
<1>1. BookInv' /\ (SlLegs(book) # {} => SlLegs(book') # {})
  BY EnterFloor DEF Send, BookInv, exchange
<1>2. Disturbed("call") => sweep'.trouble # {}
  BY DEF Disturbed, HistoryTyped
<1>3. ASSUME sweep'.trouble = {}
      PROVE  /\ sweep' = sweep
             /\ ok => (HasSl(l) => SlLegs(book') # {})
             /\ ~ok => /\ UNCHANGED exchange
                       /\ ~Placeable(l) \/ l.kind = "oco"
  BY <1>2, <1>3, EnterFloor DEF Send
<1> QED BY <1>1, <1>3

LEMMA StartSweepFloor ==
  ASSUME TypeOK, FloorInv, StartSweep
  PROVE  FloorInv'
<1>1. /\ pc' = "read" /\ price' = price /\ book' = book /\ free' = free
      /\ snap' = [qty |-> pos.qty, px |-> price, legs |-> NoLegs, cover |-> NoCover]
      /\ sweep'.before = book
      /\ pos.qty * price >= MinNotional
  BY DEF StartSweep, exchange
<1>2. pos.qty >= Step
  BY <1>1, WorthALot DEF TypeOK, ExchangeTyped
<1>3. BookInv'
  BY <1>1 DEF FloorInv, BookInv
<1>4. CalmInv'
  BY <1>1, <1>2 DEF CalmInv, SwapPhases, StillStopped, SlLegs
<1> QED BY <1>3, <1>4 DEF FloorInv

\* How a sweep enters a cancel loop.
LEMMA DecideCancels ==
  ASSUME NEW c, NEW legs, Decide(c, legs), gone = {}
  PROVE  /\ pc' \notin {"swap", "restoreSl"}
         /\ pc' = "cancelTp" => /\ gone' = {}
                               /\ todo' = {i \in DOMAIN legs : legs[i].kind = "tp"}
         /\ pc' = "cancelSl" => /\ gone' = {}
                               /\ todo' = {i \in DOMAIN legs : legs[i].kind = "sl"}
                               /\ SwapAllowed(c, legs)
<1>1. CASE DecideLocked(c, legs)
  <2>1. CASE CancelFirst("cancelTp", {i \in DOMAIN legs : legs[i].kind = "tp"})
    BY <2>1 DEF CancelFirst
  <2>2. CASE /\ SwapAllowed(c, legs)
             /\ CancelFirst("cancelSl", {i \in DOMAIN legs : legs[i].kind = "sl"})
    BY <2>2 DEF CancelFirst
  <2>3. CASE Skip(c) \/ Plan("emergency", "sl", FloorStep(snap.qty))
    BY <2>3 DEF Skip, Plan
  <2> QED BY <1>1, <2>1, <2>2, <2>3 DEF DecideLocked
<1>2. CASE DecideBreached(c) \/ DecideSlice(c) \/ Skip(c)
  BY <1>2 DEF DecideBreached, DecideSlice, Plan, Skip
<1> QED BY <1>1, <1>2 DEF Decide

LEMMA ReadOrdersFloor ==
  ASSUME TypeOK, FloorInv, ReadOrders
  PROVE  FloorInv'
<1>1. /\ pc = "read" /\ price' = price /\ book' = book /\ free' = free /\ Settled
      /\ gone = {}
  BY DEF ReadOrders, exchange, TypeOK, LocalTyped
<1>2. BookInv'
  BY <1>1 DEF FloorInv, BookInv
<1>3. ASSUME sweep'.trouble = {}
      PROVE  CalmInv'
  <2>1. sweep' = sweep /\ Decide(ListedCover(locked), book)
        /\ snap' = IF pc' = "idle" THEN NoSnap
                   ELSE [snap EXCEPT !.legs = book, !.cover = ListedCover(locked)]
    <3>1. ~Disturbed("call")
      BY <1>3 DEF Disturbed, TypeOK, HistoryTyped
    <3>2. PICK legs \in {book, NoLegs} :
            LET c == IF legs = book THEN ListedCover(locked) ELSE NoCover
            IN  /\ IF legs = book
                     THEN NoFault /\ UNCHANGED sweep
                     ELSE Fault /\ Disturbed("call")
                /\ Decide(c, legs)
                /\ snap' = IF pc' = "idle" THEN NoSnap
                           ELSE [snap EXCEPT !.legs = legs, !.cover = c]
      BY DEF ReadOrders
    <3>3. legs = book /\ sweep' = sweep
      BY <3>1, <3>2
    <3> QED BY <3>2, <3>3
  <2>2. CalmInv
    BY <1>3, <2>1 DEF FloorInv
  <2>3. StillStopped'
    BY <1>1, <2>1, <2>2 DEF CalmInv, SwapPhases, StillStopped, SlLegs
  <2>4. ASSUME pc' # "idle"
        PROVE  /\ snap'.legs = book
               /\ snap'.px = price' /\ snap'.qty >= Step
               /\ snap'.px = snap.px /\ snap.px = price
    BY <1>1, <2>1, <2>2, <2>4 DEF CalmInv, TypeOK, LocalTyped, SnapTyped
  <2>5. CASE pc' = "cancelSl"
    <3>1. /\ gone' = {}
          /\ todo' = {i \in DOMAIN book : book[i].kind = "sl"}
          /\ SwapAllowed(ListedCover(locked), book)
      BY <1>1, <2>1, <2>5, DecideCancels
    <3>2. PICK b \in DOMAIN book : book[b].kind = "sl" /\ InBand(book[b].sl, snap.px)
      BY <3>1 DEF SwapAllowed
    <3>3. Accepted(book[b])
      BY DEF FloorInv, BookInv
    <3>4. book[b].sl < snap.px
      <4>1. ~(price <= book[b].sl)
        BY <1>1, <3>2 DEF Settled, Reached, HasSl
      <4>2. book[b].sl \in Int /\ price \in Int /\ snap.px = price
        BY <2>4, <2>5, ExchangeAssumption
        DEF TypeOK, ExchangeTyped, Leg, ExchangeAssumption
      <4> QED BY <4>1, <4>2
    <3>5. PutBack(b)'
      BY <2>4, <2>5, <3>2, <3>3, <3>4 DEF PutBack, Accepted, InBand, Leg, Notional, HasSl
    <3>6. SwapSafe'
      BY <1>1, <2>4, <2>5, <3>1, <3>2, <3>5 DEF SwapSafe
    <3>7. Visited' /\ \A i \in DOMAIN book' \cap DOMAIN snap'.legs : book'[i] = snap'.legs[i]
      BY <1>1, <2>4, <2>5, <3>1 DEF Visited, Targets
    <3> QED BY <2>4, <2>5, <3>6, <3>7 DEF CalmInv, SwapPhases
  <2>6. CASE pc' = "cancelTp"
    <3>1. Visited' /\ \A i \in DOMAIN book' \cap DOMAIN snap'.legs : book'[i] = snap'.legs[i]
      BY <1>1, <2>1, <2>4, <2>6, DecideCancels DEF Visited, Targets
    <3> QED BY <2>3, <2>4, <2>6, <3>1 DEF CalmInv, SwapPhases
  <2>7. CASE pc' \notin {"cancelSl", "cancelTp"}
    <3>1. pc' \notin SwapPhases
      BY <1>1, <2>1, <2>7, DecideCancels DEF SwapPhases
    <3> QED BY <2>3, <2>4, <2>7, <3>1 DEF CalmInv
  <2> QED BY <2>5, <2>6, <2>7
<1> QED BY <1>2, <1>3 DEF FloorInv

LEMMA SizeFloor ==
  ASSUME TypeOK, FloorInv, Size
  PROVE  FloorInv'
<1>1. /\ pc \in Placements /\ stage = "size"
      /\ price' = price /\ book' = book /\ free' = free
  BY DEF Size, exchange
<1>2. BookInv'
  BY <1>1 DEF FloorInv, BookInv
<1>3. ASSUME sweep'.trouble = {}
      PROVE  CalmInv'
  <2> DEFINE q == Calibrate(order.qty, free)
  <2>1. /\ sweep' = sweep
        /\ IF q <= 0 \/ (pc \in {"sliceOco", "sliceTp"} /\ ~WorthPlacing(q, snap.px))
             THEN Idle
             ELSE /\ order' = [order EXCEPT !.qty = q]
                  /\ stage' = "place"
                  /\ UNCHANGED <<pc, snap, todo, gone>>
    BY <1>3 DEF Size, SeeFree, Disturbed, TypeOK, HistoryTyped
  <2>2. CalmInv
    BY <1>3, <2>1 DEF FloorInv
  <2>3. CASE pc # "swap"
    BY <1>1, <2>1, <2>2, <2>3
    DEF CalmInv, SwapPhases, StillStopped, SlLegs, Placements, Idle
  <2>4. CASE pc = "swap"
    <3>1. PICK b \in DOMAIN snap.legs :
            /\ PutBack(b) /\ b \in gone /\ Freed(b)
            /\ order.kind = "oco" /\ order.qty >= Step /\ OnlyStops(gone)
      BY <1>1, <2>2, <2>4 DEF CalmInv, SwapPhases, SwapSafe
    <3>2. free >= Step /\ free \in Int /\ order.qty \in Int /\ Step \in Nat \ {0}
      BY <3>1, ExchangeAssumption
      DEF PutBack, Freed, Accepted, Leg, TypeOK, ExchangeTyped, LocalTyped, ExchangeAssumption
    <3>3. q >= Step
      BY <3>1, <3>2, FloorStepLot DEF Calibrate
    <3>4. q \in Int
      BY <3>2, FloorStepInt DEF Calibrate
    <3>5. /\ order' = [order EXCEPT !.qty = q] /\ stage' = "place"
          /\ UNCHANGED <<pc, snap, todo, gone>>
      BY <2>1, <2>4, <3>2, <3>3, <3>4
    <3>6. order'.kind = "oco"
      BY <3>1, <3>5 DEF TypeOK, LocalTyped
    <3>7. SwapSafe'
      BY <1>1, <2>4, <3>1, <3>5, <3>6 DEF SwapSafe, PutBack, Freed, OnlyStops
    <3> QED BY <1>1, <2>2, <2>4, <3>5, <3>7 DEF CalmInv, SwapPhases
  <2> QED BY <2>3, <2>4
<1> QED BY <1>2, <1>3 DEF FloorInv

\* A swap either stands, or its branch still holds the stop it can put back.
LEMMA SwapPlacementFloor ==
  ASSUME TypeOK, FloorInv, Place \/ PlaceAgain, pc = "swap", sweep'.trouble = {}
  PROVE  CalmInv'
<1>1. PICK l, ok :
        \/ /\ ok \in BOOLEAN /\ Send(l, ok) /\ l.kind = order.kind
           /\ IF ok THEN Succeed
              ELSE GiveUp \/ (stage' = "again" /\ UNCHANGED <<pc, snap, todo, gone, order>>)
        \/ GiveUp /\ UNCHANGED <<exchange, sweep>>
  <2>1. CASE Place
    BY <2>1 DEF Place
  <2>2. CASE PlaceAgain
    <3>1. \A seen : Downgraded(seen).kind = order.kind
      BY DEF Downgraded, TypeOK, LocalTyped
    <3>2. ~Disturbed("call")
      BY DEF Disturbed, TypeOK, HistoryTyped
    <3> QED BY <2>2, <3>1, <3>2 DEF PlaceAgain
  <2> QED BY <2>1, <2>2
<1>2. sweep' = sweep
  BY <1>1, SendFloor DEF FloorInv
<1>3. PICK b \in DOMAIN snap.legs :
        /\ PutBack(b) /\ b \in gone /\ Freed(b)
        /\ order.kind = "oco" /\ OnlyStops(gone)
  BY <1>2 DEF FloorInv, CalmInv, SwapPhases, SwapSafe
<1>4. snap.px = price /\ snap.qty >= Step /\ price' = price
  BY <1>1, <1>2, SendTyped DEF FloorInv, CalmInv, exchange
<1>5. CASE Succeed /\ SlLegs(book') # {}
  BY <1>5 DEF Succeed, Idle, CalmInv, SwapPhases, StillStopped
<1>6. CASE GiveUp /\ UNCHANGED exchange
  <2>1. pc' = "restoreSl" /\ todo' = gone /\ snap' = snap /\ free' = free
    BY <1>6 DEF GiveUp, exchange
  <2>2. SwapSafe'
    BY <1>3, <2>1 DEF SwapSafe, PutBack, Freed, OnlyStops
  <2> QED BY <1>4, <2>1, <2>2 DEF CalmInv, SwapPhases
<1>7. CASE /\ UNCHANGED exchange
           /\ stage' = "again" /\ UNCHANGED <<pc, snap, todo, gone, order>>
  <2>1. SwapSafe'
    BY <1>3, <1>7 DEF SwapSafe, PutBack, Freed, OnlyStops, exchange
  <2> QED BY <1>4, <1>7, <2>1 DEF CalmInv, SwapPhases
<1>8. CASE ok \in BOOLEAN /\ Send(l, ok) /\ l.kind = order.kind
  <2>1. /\ ok => SlLegs(book') # {}
        /\ ~ok => UNCHANGED exchange
    BY <1>3, <1>8, SendFloor DEF FloorInv, HasSl
  <2> QED BY <1>1, <1>5, <1>6, <1>7, <2>1 DEF exchange
<1> QED BY <1>1, <1>6, <1>8

LEMMA PlaceFloor ==
  ASSUME TypeOK, FloorInv, Place \/ PlaceAgain
  PROVE  FloorInv'
<1>1. /\ pc \in Placements
      /\ \/ \E l : \E ok \in BOOLEAN : Send(l, ok)
         \/ /\ UNCHANGED exchange
            /\ UNCHANGED sweep \/ Disturbed("call")
      /\ \/ Succeed \/ GiveUp
         \/ UNCHANGED <<pc, snap>>
  BY DEF Place, PlaceAgain
<1>2. BookInv'
  BY <1>1, SendFloor DEF FloorInv, BookInv, exchange
<1>3. ASSUME sweep'.trouble = {}, pc # "swap"
      PROVE  CalmInv'
  <2>1. /\ sweep' = sweep /\ price' = price
        /\ SlLegs(book) # {} => SlLegs(book') # {}
    BY <1>1, <1>3, SendFloor, SendTyped
    DEF FloorInv, exchange, Disturbed, TypeOK, HistoryTyped
  <2>2. CalmInv
    BY <1>3, <2>1 DEF FloorInv
  <2>3. StillStopped'
    BY <1>1, <1>3, <2>1, <2>2 DEF CalmInv, StillStopped, SwapPhases, Placements
  <2>4. /\ pc' \in {"idle", "sliceTp", "demote", "restoreTp"} \cup (Placements \ {"swap"})
        /\ pc' # "idle" => snap' = snap
    BY <1>1, <1>3 DEF Succeed, GiveUp, Idle, Placements
  <2> QED BY <1>1, <2>1, <2>2, <2>3, <2>4 DEF CalmInv, SwapPhases, Placements
<1> QED BY <1>2, <1>3, SwapPlacementFloor DEF FloorInv

LEMMA CancelLegFloor ==
  ASSUME TypeOK, FloorInv, CancelLeg
  PROVE  FloorInv'
<1>1. PICK i \in todo, counted \in BOOLEAN :
        /\ SendCancel(i, counted)
        /\ todo' = todo \ {i}
        /\ gone' = IF counted THEN gone \cup {i} ELSE gone
  BY DEF CancelLeg
<1>2. /\ pc \in {"cancelTp", "cancelSl"}
      /\ UNCHANGED <<pc, snap, order>>
      /\ price' = price
  BY <1>1, SendCancelTyped DEF CancelLeg, TypeOK
<1>3. BookInv'
  BY <1>1 DEF SendCancel, Cancel, Remove, FloorInv, BookInv, TypeOK, ExchangeTyped, Leg, exchange
<1>4. ASSUME sweep'.trouble = {}
      PROVE  CalmInv'
  <2>1. /\ counted /\ sweep' = sweep
        /\ Cancel(i) \/ (i \notin DOMAIN book /\ UNCHANGED exchange)
    BY <1>1, <1>4 DEF SendCancel, Disturbed, TypeOK, HistoryTyped
  <2>2. CalmInv
    BY <1>4, <2>1 DEF FloorInv
  <2>3. /\ DOMAIN book' = DOMAIN book \ {i}
        /\ \A j \in DOMAIN book' : book'[j] = book[j]
        /\ free \in Int /\ free' \in Int /\ free' >= free
        /\ i \in DOMAIN book => free' = free + book[i].qty
    BY <2>1 DEF Cancel, Remove, exchange, TypeOK, ExchangeTyped, Leg
  <2>4. Visited' /\ \A j \in DOMAIN book' \cap DOMAIN snap'.legs : book'[j] = snap'.legs[j]
    BY <1>1, <1>2, <2>1, <2>2, <2>3 DEF CalmInv, Visited, Targets
  <2>5. CASE pc = "cancelTp"
    <3>1. i \in DOMAIN snap.legs /\ snap.legs[i].kind = "tp"
      BY <1>1, <2>2, <2>5 DEF CalmInv, Visited, Targets
    <3>2. i \in DOMAIN book => ~HasSl(book[i])
      BY <2>2, <2>5, <3>1 DEF CalmInv, HasSl
    <3>3. SlLegs(book) # {} => SlLegs(book') # {}
      BY <2>3, <3>2 DEF SlLegs
    <3>4. StillStopped'
      BY <2>1, <2>2, <2>5, <3>3 DEF CalmInv, SwapPhases, StillStopped
    <3> QED BY <1>2, <2>2, <2>4, <2>5, <3>4 DEF CalmInv, SwapPhases
  <2>6. CASE pc = "cancelSl"
    <3>1. PICK b \in DOMAIN snap.legs :
            /\ PutBack(b)
            /\ \/ b \in todo /\ b \in DOMAIN book
               \/ b \in gone /\ Freed(b)
      BY <2>2, <2>6 DEF CalmInv, SwapPhases, SwapSafe
    <3>2. PutBack(b)'
      BY <1>2, <3>1 DEF PutBack
    <3>3. \/ b \in todo' /\ b \in DOMAIN book'
          \/ b \in gone' /\ Freed(b)'
      <4>1. CASE b \in gone /\ Freed(b)
        <5>1. snap.legs[b].qty \in Int
          BY DEF TypeOK, LocalTyped, SnapTyped, Leg
        <5> QED BY <1>1, <1>2, <2>1, <2>3, <4>1, <5>1 DEF Freed
      <4>2. CASE b \in todo /\ b \in DOMAIN book /\ b # i
        BY <1>1, <2>3, <4>2
      <4>3. CASE b = i /\ b \in DOMAIN book
        <5>1. book[b] = snap.legs[b] /\ book[b].qty \in Int
          BY <2>2, <2>6, <4>3 DEF CalmInv, TypeOK, ExchangeTyped, Leg
        <5>2. free >= 0
          BY DEF FloorInv, BookInv
        <5> QED BY <1>1, <1>2, <2>1, <2>3, <4>3, <5>1, <5>2 DEF Freed
      <4> QED BY <3>1, <4>1, <4>2, <4>3
    <3>4. SwapSafe'
      BY <1>2, <2>6, <3>2, <3>3 DEF SwapSafe
    <3> QED BY <1>2, <2>2, <2>4, <2>6, <3>4 DEF CalmInv, SwapPhases
  <2> QED BY <1>2, <2>5, <2>6
<1> QED BY <1>3, <1>4 DEF FloorInv

LEMMA LoopEndsFloor ==
  ASSUME TypeOK, FloorInv, AbortPartial \/ PlanRebuild \/ PlanSwap
  PROVE  FloorInv'
<1>1. /\ price' = price /\ book' = book /\ free' = free /\ sweep' = sweep
      /\ todo = {} /\ pc \in {"cancelTp", "cancelSl"}
  BY DEF AbortPartial, PlanRebuild, PlanSwap, exchange
<1>2. BookInv'
  BY <1>1 DEF FloorInv, BookInv
<1>3. ASSUME sweep'.trouble = {}
      PROVE  CalmInv'
  <2>1. CalmInv
    BY <1>1, <1>3 DEF FloorInv
  <2>2. gone = Targets
    BY <1>1, <2>1 DEF CalmInv, Visited
  <2>3. CASE PlanRebuild
    BY <1>1, <2>1, <2>3 DEF PlanRebuild, CalmInv, SwapPhases, StillStopped, SlLegs
  <2>4. CASE PlanSwap
    <3>1. PICK b \in DOMAIN snap.legs : PutBack(b) /\ b \in gone /\ Freed(b)
      BY <1>1, <2>1, <2>4 DEF PlanSwap, CalmInv, SwapPhases, SwapSafe
    <3>2. /\ pc' = "swap" /\ gone' = gone /\ snap' = snap
          /\ order'.kind = "oco" /\ order'.qty = FloorStep(snap.qty)
      BY <2>4 DEF PlanSwap
    <3>3. order'.qty >= Step
      BY <1>1, <2>1, <3>2, FloorStepLot DEF CalmInv, TypeOK, LocalTyped, SnapTyped
    <3>4. OnlyStops(gone)
      BY <2>2, <2>4 DEF OnlyStops, Targets, PlanSwap
    <3>5. SwapSafe'
      BY <1>1, <3>1, <3>2, <3>3, <3>4 DEF SwapSafe, PutBack, Freed, OnlyStops
    <3> QED BY <1>1, <2>1, <3>2, <3>5 DEF CalmInv, SwapPhases
  <2> QED BY <2>2, <2>3, <2>4 DEF AbortPartial
<1> QED BY <1>2, <1>3 DEF FloorInv

\* The rungs of the take-profit ladder take no stop off the book.
LEMMA RescueTpFloor ==
  ASSUME TypeOK, FloorInv, RestoreTp \/ Demote \/ RestoreLast
  PROVE  FloorInv'
<1>1. /\ \E l : \E ok \in BOOLEAN : Send(l, ok)
      /\ pc \in {"restoreTp", "demote", "restoreLast"}
      /\ pc' \in {"idle", "restoreTp", "demote", "restoreLast"}
      /\ pc' # "idle" => snap' = snap
  BY DEF RestoreTp, Demote, RestoreLast, Idle
<1>2. BookInv'
  BY <1>1, SendFloor DEF FloorInv
<1>3. ASSUME sweep'.trouble = {}
      PROVE  CalmInv'
  <2>1. /\ sweep' = sweep /\ price' = price
        /\ SlLegs(book) # {} => SlLegs(book') # {}
    BY <1>1, <1>3, SendFloor, SendTyped DEF FloorInv
  <2>2. CalmInv
    BY <1>3, <2>1 DEF FloorInv
  <2>3. StillStopped'
    BY <1>1, <2>1, <2>2 DEF CalmInv, SwapPhases, StillStopped
  <2> QED BY <1>1, <2>1, <2>2, <2>3 DEF CalmInv, SwapPhases
<1> QED BY <1>2, <1>3 DEF FloorInv

\* The stop whose quantity is free and whose price is in band is taken back.
LEMMA PutBackPlaceable ==
  ASSUME TypeOK, snap.px = price, NEW b, PutBack(b), Freed(b)
  PROVE  Placeable(snap.legs[b]) /\ snap.legs[b].kind = "sl"
<1>1. /\ snap.legs[b] \in Leg /\ snap.legs[b].qty >= MinQty
      /\ Notional(snap.legs[b]) >= MinNotional
      /\ snap.legs[b].kind = "sl" /\ snap.legs[b].sl < price
      /\ InBand(snap.legs[b].sl, price)
  BY DEF PutBack, Accepted
<1>2. price \in Nat /\ snap.legs[b].sl \in Nat /\ snap.legs[b].qty \in Nat /\ free \in Int
  BY <1>1, ExchangeAssumption DEF TypeOK, ExchangeTyped, Leg, ExchangeAssumption
<1>3. 100 * snap.legs[b].sl >= BandPct * price
  BY <1>1, <1>2, BandLooser
<1>4. snap.legs[b].qty <= free
  BY <1>2 DEF Freed
<1> QED BY <1>1, <1>3, <1>4 DEF Placeable

LEMMA RestoreSlFloor ==
  ASSUME TypeOK, FloorInv, RestoreSl
  PROVE  FloorInv'
<1>1. PICK i \in todo, ok \in BOOLEAN :
        /\ Send(snap.legs[i], ok)
        /\ IF todo = {i}
             THEN Idle
             ELSE todo' = todo \ {i} /\ UNCHANGED <<pc, snap>>
  BY DEF RestoreSl
<1>2. pc = "restoreSl" /\ price' = price
  BY <1>1, SendTyped DEF RestoreSl
<1>3. BookInv'
  BY <1>1, SendFloor DEF FloorInv
<1>4. ASSUME sweep'.trouble = {}
      PROVE  CalmInv'
  <2>1. /\ sweep' = sweep
        /\ SlLegs(book) # {} => SlLegs(book') # {}
        /\ ok => (HasSl(snap.legs[i]) => SlLegs(book') # {})
        /\ ~ok => /\ UNCHANGED exchange
                  /\ ~Placeable(snap.legs[i]) \/ snap.legs[i].kind = "oco"
    BY <1>1, <1>4, SendFloor DEF FloorInv
  <2>2. CalmInv
    BY <1>4, <2>1 DEF FloorInv
  <2>3. PICK b \in DOMAIN snap.legs :
          /\ PutBack(b) /\ OnlyStops(todo)
          /\ SlLegs(book) # {} \/ (b \in todo /\ Freed(b))
    BY <1>2, <2>2 DEF CalmInv, SwapPhases, SwapSafe
  <2>4. SlLegs(book') # {} \/ (b \in todo /\ b # i /\ free' = free /\ Freed(b))
    <3>1. CASE SlLegs(book) # {}
      BY <2>1, <3>1
    <3>2. CASE SlLegs(book) = {} /\ b = i
      <4>1. Placeable(snap.legs[i]) /\ snap.legs[i].kind = "sl"
        BY <1>2, <2>2, <2>3, <3>2, PutBackPlaceable DEF CalmInv
      <4> QED BY <2>1, <4>1 DEF HasSl
    <3>3. CASE SlLegs(book) = {} /\ b # i
      <4>1. CASE ok
        <5>1. HasSl(snap.legs[i])
          BY <2>3 DEF OnlyStops, HasSl
        <5> QED BY <2>1, <4>1, <5>1
      <4>2. CASE ~ok
        BY <2>1, <2>3, <3>3, <4>2 DEF exchange
      <4> QED BY <4>1, <4>2
    <3> QED BY <3>1, <3>2, <3>3
  <2>5. CASE todo = {i}
    BY <1>1, <2>4, <2>5 DEF Idle, CalmInv, SwapPhases, StillStopped
  <2>6. CASE todo # {i}
    <3>1. SwapSafe'
      BY <1>1, <1>2, <2>3, <2>4, <2>6 DEF SwapSafe, PutBack, Freed, OnlyStops
    <3> QED BY <1>1, <1>2, <2>2, <2>6, <3>1 DEF CalmInv, SwapPhases
  <2> QED BY <2>5, <2>6
<1> QED BY <1>3, <1>4 DEF FloorInv

LEMMA WorldFloor ==
  ASSUME TypeOK, FloorInv, World
  PROVE  FloorInv'
<1>1. CASE PriceMoves
  BY <1>1 DEF PriceMoves, MoveTo, FloorInv, BookInv, Disturbed, TypeOK, HistoryTyped
<1>2. CASE LegFills
  <2>1. BookInv'
    BY <1>2 DEF LegFills, Fill, Remove, FloorInv, BookInv
  <2>2. sweep'.trouble # {}
    BY <1>2 DEF LegFills, Disturbed, TypeOK, HistoryTyped
  <2> QED BY <2>1, <2>2 DEF FloorInv
<1>3. CASE SyncRow \/ SwapWindowEnds
  <2>1. /\ pc = "idle" /\ pc' = "idle"
        /\ book' = book /\ free' = free /\ sweep' = sweep
    BY <1>3 DEF SyncRow, SwapWindowEnds, exchange, local
  <2> QED BY <2>1 DEF FloorInv, BookInv, CalmInv, SwapPhases, StillStopped, SlLegs
<1>4. CASE Abandon
  BY <1>4 DEF Abandon, exchange, FloorInv, BookInv, Disturbed, TypeOK, HistoryTyped
<1> QED BY <1>1, <1>2, <1>3, <1>4 DEF World

LEMMA StutterFloor ==
  ASSUME FloorInv, UNCHANGED vars
  PROVE  FloorInv'
<1>1. UNCHANGED <<price, free, book, pc, stage, snap, todo, gone, order, sweep>>
  BY DEF vars, exchange, local, history
<1>2. CalmInv => CalmInv'
  BY <1>1 DEF CalmInv, SwapPhases, SwapSafe, PutBack, Freed, OnlyStops, Visited,
              Targets, StillStopped, SlLegs
<1> QED BY <1>1, <1>2 DEF FloorInv, BookInv

LEMMA FloorStepInv == TypeOK /\ FloorInv /\ [Next]_vars => FloorInv'
<1> SUFFICES ASSUME TypeOK, FloorInv, [Next]_vars PROVE FloorInv'
  OBVIOUS
<1>1. CASE Sweep
  BY <1>1, StartSweepFloor, ReadOrdersFloor, SizeFloor, PlaceFloor, CancelLegFloor,
     LoopEndsFloor, RescueTpFloor, RestoreSlFloor DEF Sweep
<1> QED BY <1>1, WorldFloor, StutterFloor DEF Next

LEMMA InitFloor == Init => FloorInv
<1> SUFFICES ASSUME Init PROVE FloorInv
  OBVIOUS
<1>1. BookInv
  BY GuardianAssumption DEF Init, BookInv, GuardianAssumption
<1>2. StillStopped
  BY DEF Init, StillStopped, SlLegs, NoLegs
<1> QED BY <1>1, <1>2 DEF Init, FloorInv, CalmInv, SwapPhases

\* "Never cancel a leg we cannot put back": for every lot size, price set, band
\* and book, a sweep that neither a failing call nor the market disturbs ends
\* with a stop on the book if it began with one, and that although the
\* exchange may refuse every OCO.
THEOREM NeverUnstopped == Spec => []FloorKept
<1>1. Init => FloorInv
  BY InitFloor
<1>2. TypeOK /\ FloorInv /\ [Next]_vars => FloorInv'
  BY FloorStepInv
<1>3. FloorInv => FloorKept
  BY DEF FloorInv, CalmInv, SwapPhases, StillStopped, FloorKept, Calm
<1> QED BY <1>1, <1>2, <1>3, TypeCorrect, PTL DEF Spec

-----------------------------------------------------------------------------
(* The transition table                                                     *)

\* The declared table is closed, as structural_invariants() checks it: no edge
\* leaves a terminal shape, every product is known, no two actions undo each
\* other.
THEOREM TableClosed == TerminalHasNoEdge /\ ProductsKnown /\ NoTwoStepCycle
<1>1. TerminalHasNoEdge
  BY DEF TerminalHasNoEdge, Transitions, LegalTerminalShapes
<1>2. ProductsKnown
  BY DEF ProductsKnown, Transitions, KnownProductShapes
<1>3. \A t \in Transitions : t[1] \in FailOpen => t[3] = t[2]
  BY DEF Transitions, FailOpen
<1> DEFINE
      Slice(t) == /\ t[1] = "free_slice_tp" /\ t[3] \notin {"NAKED", "SL_ONLY", "OCO"}
                  /\ t[3] = "TP_ONLY" => t[2] \in {"NAKED", "TP_ONLY"}
      Emergency(t) == t[1] = "emergency_sl" /\ t[2] = "NAKED" /\ t[3] = "SL_ONLY"
      Rebuild(t) == /\ t[1] \in {"tp_oco_rebuild", "sl_demote"}
                    /\ t[2] = "TP_ONLY" /\ t[3] \in {"OCO", "PAIR"}
      Swap(t) == t[1] = "oco_swap" /\ t[2] = "SL_ONLY" /\ t[3] = "OCO"
<1>4. \A t \in Transitions :
        t[1] \notin FailOpen => Slice(t) \/ Emergency(t) \/ Rebuild(t) \/ Swap(t)
  BY DEF Transitions, FailOpen
<1>5. ASSUME NEW a \in Transitions, NEW b \in Transitions,
             {a[1], b[1]} \cap FailOpen = {}, a[1] # b[1], a[3] = b[2], b[3] = a[2]
      PROVE  FALSE
  <2>1. Slice(a) \/ Emergency(a) \/ Rebuild(a) \/ Swap(a)
    BY <1>4, <1>5
  <2>2. Slice(b) \/ Emergency(b) \/ Rebuild(b) \/ Swap(b)
    BY <1>4, <1>5
  <2> QED BY <1>5, <2>1, <2>2
<1> QED BY <1>1, <1>2, <1>3, <1>5 DEF NoTwoStepCycle

\* The phases of the two branches that cancel legs, and the shape each needs.
TpBranch == {"cancelTp", "rebuild", "restoreTp", "demote", "restoreLast"}

BranchShapes ==
    /\ pc \in TpBranch => Shape(snap.cover) = "TP_ONLY"
    /\ pc \in SwapPhases => Shape(snap.cover) = "SL_ONLY"

DeclaredInv == CancelsOnlyDeclared /\ BranchShapes

LEMMA DecideShapes ==
  ASSUME NEW c \in [Kinds -> Int], NEW legs, Decide(c, legs)
  PROVE  /\ pc' \in TpBranch => pc' = "cancelTp" /\ Shape(c) = "TP_ONLY"
         /\ pc' \in SwapPhases => pc' = "cancelSl" /\ Shape(c) = "SL_ONLY"
<1> USE DEF TpBranch, SwapPhases
<1>1. c["tp"] \in Int /\ c["sl"] \in Int /\ c["oco"] \in Int
  BY DEF Kinds
<1>2. CASE DecideLocked(c, legs)
  <2>1. CASE Skip(c) \/ Plan("emergency", "sl", FloorStep(snap.qty))
    BY <2>1 DEF Skip, Plan
  <2>2. CASE NoSl(c) /\ c["tp"] > 0 /\ pc' = "cancelTp"
    BY <1>1, <2>2 DEF NoSl, Shape
  <2>3. CASE OnlySl(c) /\ c["tp"] <= 0 /\ pc' = "cancelSl"
    BY <1>1, <2>3 DEF OnlySl, Shape
  <2> QED BY <1>2, <2>1, <2>2, <2>3 DEF DecideLocked, CancelFirst, SwapAllowed
<1>3. CASE DecideBreached(c) \/ DecideSlice(c) \/ Skip(c)
  BY <1>3 DEF DecideBreached, DecideSlice, Plan, Skip
<1> QED BY <1>2, <1>3 DEF Decide

\* What is audited when an action that cancels legs ends.
LEMMA AuditDeclared ==
  ASSUME BranchShapes, NEW name, Audit(name),
         \/ name \in {"tp_oco_rebuild", "sl_demote", "sl_rescue_failed"} /\ pc \in TpBranch
         \/ name \in {"oco_swap", "oco_swap_failed_sl_restored"} /\ pc \in SwapPhases
         \/ name \notin Cancelling
  PROVE  CancelsOnlyDeclared'
<1>1. audit'.action = name /\ audit'.from = Shape(snap.cover)
  BY DEF Audit
<1>2. CASE name \notin Cancelling
  BY <1>1, <1>2 DEF CancelsOnlyDeclared
<1>3. CASE name \in {"tp_oco_rebuild", "sl_demote", "sl_rescue_failed"} /\ pc \in TpBranch
  <2>1. \E t \in Transitions : t[1] = name /\ t[2] = "TP_ONLY"
    BY <1>3 DEF Transitions
  <2> QED BY <1>1, <1>3, <2>1 DEF CancelsOnlyDeclared, BranchShapes
<1>4. CASE name \in {"oco_swap", "oco_swap_failed_sl_restored"} /\ pc \in SwapPhases
  <2>1. \E t \in Transitions : t[1] = name /\ t[2] = "SL_ONLY"
    BY <1>4 DEF Transitions
  <2> QED BY <1>1, <1>4, <2>1 DEF CancelsOnlyDeclared, BranchShapes
<1> QED BY <1>2, <1>3, <1>4

LEMMA DeclaredStep == TypeOK /\ DeclaredInv /\ [Next]_vars => DeclaredInv'
<1> SUFFICES ASSUME TypeOK, DeclaredInv, [Next]_vars PROVE DeclaredInv'
  OBVIOUS
<1> USE DEF DeclaredInv
<1>1. ASSUME audit' = audit, pc' = "idle" \/ (snap' = snap /\ pc' \notin TpBranch \cup SwapPhases)
      PROVE  DeclaredInv'
  BY <1>1 DEF CancelsOnlyDeclared, BranchShapes, TpBranch, SwapPhases
<1>2. ASSUME audit' = audit, snap' = snap,
             pc' = pc \/ (pc \in TpBranch /\ pc' \in TpBranch)
                     \/ (pc \in SwapPhases /\ pc' \in SwapPhases)
      PROVE  DeclaredInv'
  BY <1>2 DEF CancelsOnlyDeclared, BranchShapes, TpBranch, SwapPhases
<1>3. ASSUME pc' = "idle", CancelsOnlyDeclared'
      PROVE  DeclaredInv'
  BY <1>3 DEF BranchShapes, TpBranch, SwapPhases
<1>4. CASE StartSweep
  BY <1>4 DEF StartSweep, NoAudit, CancelsOnlyDeclared, Cancelling, FailOpen,
              BranchShapes, TpBranch, SwapPhases
<1>5. CASE ReadOrders
  <2>1. PICK c \in [Kinds -> Int], legs \in {book, NoLegs} :
          /\ Decide(c, legs)
          /\ snap' = IF pc' = "idle" THEN NoSnap ELSE [snap EXCEPT !.legs = legs, !.cover = c]
    <3>1. NoCover \in [Kinds -> Int] /\ ListedCover(locked) \in [Kinds -> Int]
      BY ListedCoverTyped DEF NoCover, TypeOK, ExchangeTyped
    <3> QED BY <1>5, <3>1 DEF ReadOrders
  <2>2. pc' # "idle" => snap'.cover = c
    BY <2>1 DEF TypeOK, LocalTyped, SnapTyped
  <2>3. BranchShapes'
    BY <2>1, <2>2, DecideShapes DEF BranchShapes, TpBranch, SwapPhases
  <2> QED BY <1>5, <2>3 DEF ReadOrders, CancelsOnlyDeclared
<1>6. CASE Size
  BY <1>1, <1>2, <1>6 DEF Size, Idle
<1>7. CASE Place \/ PlaceAgain
  <2>1. pc \in Placements /\ (Succeed \/ GiveUp \/ UNCHANGED <<audit, pc, snap>>)
    BY <1>7 DEF Place, PlaceAgain
  <2>2. CASE Succeed
    <3>1. Audit(AuditName(pc)) /\ pc' = "idle"
      BY <2>2 DEF Succeed, Idle
    <3>2. \/ AuditName(pc) = "tp_oco_rebuild" /\ pc \in TpBranch
          \/ AuditName(pc) = "oco_swap" /\ pc \in SwapPhases
          \/ AuditName(pc) \in {"emergency_sl", "free_slice_oco", "free_slice_tp"}
      BY <2>1 DEF AuditName, Placements, TpBranch, SwapPhases
    <3> QED BY <1>3, <3>1, <3>2, AuditDeclared DEF Cancelling, FailOpen
  <2>3. CASE GiveUp
    <3>1. CASE pc \in {"emergency", "sliceTp", "sliceOco"}
      BY <1>1, <2>3, <3>1 DEF GiveUp, Idle, TpBranch, SwapPhases
    <3>2. CASE pc \in {"rebuild", "swap"}
      BY <1>2, <2>3, <3>2 DEF GiveUp, TpBranch, SwapPhases
    <3> QED BY <2>1, <3>1, <3>2 DEF Placements
  <2> QED BY <1>2, <2>1, <2>2, <2>3
<1>8. CASE CancelLeg
  BY <1>2, <1>8 DEF CancelLeg
<1>9. CASE AbortPartial
  BY <1>1, <1>9 DEF AbortPartial, Idle
<1>10. CASE PlanRebuild \/ PlanSwap
  BY <1>2, <1>10 DEF PlanRebuild, PlanSwap, TpBranch, SwapPhases
<1>11. CASE RestoreTp
  BY <1>2, <1>11 DEF RestoreTp, TpBranch
<1>12. CASE Demote \/ RestoreLast
  <2>1. CASE \/ pc = "demote" /\ Audit("sl_demote") /\ Idle
             \/ pc = "restoreLast" /\ Audit("sl_rescue_failed") /\ Idle
    BY <1>3, <2>1, AuditDeclared DEF Idle, TpBranch
  <2> QED BY <1>2, <1>12, <2>1 DEF Demote, RestoreLast, TpBranch
<1>13. CASE RestoreSl
  <2>1. CASE Audit("oco_swap_failed_sl_restored") /\ Idle
    BY <1>3, <1>13, <2>1, AuditDeclared DEF RestoreSl, Idle, SwapPhases
  <2> QED BY <1>2, <1>13, <2>1 DEF RestoreSl
<1>14. CASE World \/ UNCHANGED vars
  BY <1>1, <1>2, <1>14
  DEF Abandon, Idle, World, PriceMoves, LegFills, SyncRow, SwapWindowEnds, vars, local, history
<1> QED BY <1>4, <1>5, <1>6, <1>7, <1>8, <1>9, <1>10, <1>11, <1>12, <1>13, <1>14
        DEF Next, Sweep

\* "PAIR has no out-edges, so a legal pair can never be picked apart again": the
\* code takes the cancelling edges only from the shapes the table gives them,
\* whatever orders it read and whatever fails.
THEOREM CancelsDeclared == Spec => []CancelsOnlyDeclared
<1>1. Init => DeclaredInv
  BY DEF Init, DeclaredInv, CancelsOnlyDeclared, BranchShapes, NoAudit, Cancelling,
         FailOpen, TpBranch, SwapPhases
<1>2. TypeOK /\ DeclaredInv /\ [Next]_vars => DeclaredInv'
  BY DeclaredStep
<1>3. DeclaredInv => CancelsOnlyDeclared
  BY DEF DeclaredInv
<1> QED BY <1>1, <1>2, <1>3, TypeCorrect, PTL DEF Spec

-----------------------------------------------------------------------------
(* A heal never sells                                                       *)

\* What an undisturbed sweep knows about the market: the price is the one it
\* read, and no plain take-profit it may send has been reached by it.
RestsAbove ==
    /\ snap.px = price
    /\ \A i \in DOMAIN snap.legs : snap.legs[i].kind = "tp" => snap.px < snap.legs[i].tp
    /\ pc \in Placements /\ (order.kind = "tp" \/ pc = "sliceOco") => snap.px < order.tp

RestsInv == sweep.trouble = {} /\ pc # "idle" => RestsAbove

LEMMA NumbersTyped ==
  ASSUME TypeOK
  PROVE  /\ price \in Nat /\ snap.px \in Nat /\ PlanTp \in Nat /\ order.tp \in Nat
         /\ \A i \in DOMAIN snap.legs : snap.legs[i].tp \in Nat
<1>1. Prices \subseteq Nat
  BY ExchangeAssumption DEF ExchangeAssumption
<1>2. PlanTp \in Nat
  BY PlanTyped
<1> QED BY <1>1, <1>2 DEF TypeOK, ExchangeTyped, LocalTyped, SnapTyped, Leg

\* What comes to rest or is cancelled moves between free and locked.
LEMMA EnterHeld ==
  ASSUME ExchangeTyped, NEW l, NEW taken, Enter(l, taken), ~Marketable(l)
  PROVE  Held' = Held
<1>1. PICK i \in Fresh(DOMAIN book \cup taken) : Rest(l, i)
  BY DEF Enter, Join
<1>2. l.kind \in Kinds /\ l.qty \in Nat
  BY DEF Enter, Placeable, Leg
<1>3. /\ free' = free - l.qty
      /\ \A k \in Kinds : locked'[k] = IF k = l.kind THEN locked[k] + l.qty ELSE locked[k]
  BY <1>1, <1>2 DEF Rest, ExchangeTyped
<1>4. free \in Int /\ \A k \in Kinds : locked[k] \in Int
  BY DEF ExchangeTyped
<1> QED BY <1>2, <1>3, <1>4 DEF Held, Kinds

LEMMA CancelHeld ==
  ASSUME ExchangeTyped, NEW i, Cancel(i)
  PROVE  Held' = Held
<1>1. book[i].kind \in Kinds /\ book[i].qty \in Nat
  BY DEF Cancel, ExchangeTyped, Leg
<1>2. /\ free' = free + book[i].qty
      /\ \A k \in Kinds : locked'[k] = IF k = book[i].kind THEN locked[k] - book[i].qty
                                                        ELSE locked[k]
  BY <1>1 DEF Cancel, ExchangeTyped
<1>3. free \in Int /\ \A k \in Kinds : locked[k] \in Int
  BY DEF ExchangeTyped
<1> QED BY <1>1, <1>2, <1>3 DEF Held, Kinds

LEMMA ExchangeHeld == UNCHANGED exchange => Held' = Held
BY DEF exchange, Held

\* A request sells nothing if its limit, should it be a plain take-profit, lies
\* above the market.
LEMMA SendHeld ==
  ASSUME TypeOK, NEW l, NEW ok \in BOOLEAN, Send(l, ok),
         l.kind = "tp" => l.tp \in Nat /\ price < l.tp
  PROVE  Held' = Held
<1>1. ~Marketable(l)
  BY NumbersTyped DEF Marketable
<1> QED BY <1>1, EnterHeld, ExchangeHeld DEF Send, TypeOK

LEMMA SendCancelHeld ==
  ASSUME TypeOK, NEW i, NEW counted \in BOOLEAN, SendCancel(i, counted)
  PROVE  Held' = Held
BY CancelHeld, ExchangeHeld DEF SendCancel, TypeOK, exchange

\* A trouble ends the calm.
LEMMA DisturbedLoud ==
  ASSUME TypeOK, NEW by, Disturbed(by)
  PROVE  sweep'.trouble # {}
BY DEF Disturbed, TypeOK, HistoryTyped

LEMMA TroubleStays ==
  ASSUME TypeOK, (\E l : \E ok \in BOOLEAN : Send(l, ok))
                 \/ (\E i : \E ok \in BOOLEAN : SendCancel(i, ok)),
         sweep'.trouble = {}
  PROVE  sweep' = sweep /\ price' = price
<1>1. price' = price
  BY SendTyped, SendCancelTyped
<1>2. sweep' = sweep \/ Disturbed("call")
  BY DEF Send, SendCancel
<1> QED BY <1>1, <1>2, DisturbedLoud

\* A take-profit is planned only where the market has not been.
LEMMA DecideRests ==
  ASSUME TypeOK, NEW c, NEW legs, Decide(c, legs), pc = "read"
  PROVE  pc' \in Placements /\ (order'.kind = "tp" \/ pc' = "sliceOco") => snap.px < order'.tp
<1>1. ~Breached(snap.px) => snap.px < PlanTp
  BY NumbersTyped DEF Breached
<1>2. CASE Skip(c)
  BY <1>2 DEF Skip, Placements
<1>3. CASE DecideBreached(c)
  BY <1>2, <1>3 DEF DecideBreached, Plan
<1>4. CASE DecideSlice(c)
  BY <1>1, <1>4 DEF DecideSlice, Plan
<1>5. CASE DecideLocked(c, legs)
  BY <1>2, <1>5 DEF DecideLocked, Plan, CancelFirst, Placements
<1> QED BY <1>2, <1>3, <1>4, <1>5 DEF Decide

LEMMA ReadOrdersRests ==
  ASSUME TypeOK, RestsInv, ReadOrders
  PROVE  RestsInv'
<1> SUFFICES ASSUME sweep'.trouble = {}, pc' # "idle" PROVE RestsAbove'
  BY DEF RestsInv
<1>1. PICK legs \in {book, NoLegs}, c \in {ListedCover(locked), NoCover} :
        /\ IF legs = book THEN NoFault /\ UNCHANGED sweep ELSE Fault /\ Disturbed("call")
        /\ Decide(c, legs)
        /\ snap' = IF pc' = "idle" THEN NoSnap
                   ELSE [snap EXCEPT !.legs = legs, !.cover = c]
  BY DEF ReadOrders
<1>2. legs = book /\ sweep' = sweep
  BY <1>1, DisturbedLoud
<1>3. snap'.px = snap.px /\ snap'.legs = book /\ price' = price
  BY <1>1, <1>2 DEF ReadOrders, exchange, TypeOK, LocalTyped, SnapTyped
<1>4. snap.px = price
  BY <1>2 DEF ReadOrders, RestsInv, RestsAbove
<1>5. ASSUME NEW i \in DOMAIN book, book[i].kind = "tp"
      PROVE  price < book[i].tp
  <2>1. ~(price >= book[i].tp)
    BY <1>5 DEF ReadOrders, Settled, Reached, HasTp
  <2>2. book[i].tp \in Nat
    BY DEF TypeOK, ExchangeTyped, Leg
  <2> QED BY <2>1, <2>2, NumbersTyped
<1>6. pc' \in Placements /\ (order'.kind = "tp" \/ pc' = "sliceOco") => snap.px < order'.tp
  BY <1>1, DecideRests DEF ReadOrders
<1> QED BY <1>3, <1>4, <1>5, <1>6 DEF RestsAbove

LEMMA PlacementRests ==
  ASSUME TypeOK, RestsInv, Place \/ PlaceAgain
  PROVE  RestsInv'
<1> SUFFICES ASSUME sweep'.trouble = {}, pc' # "idle" PROVE RestsAbove'
  BY DEF RestsInv
<1>1. /\ pc \in Placements
      /\ GiveUp \/ UNCHANGED <<pc, snap, order>>
  BY DEF Place, PlaceAgain, Succeed, Idle
<1>2. \/ \E l : \E ok \in BOOLEAN : Send(l, ok)
      \/ UNCHANGED <<exchange, sweep>>
      \/ UNCHANGED exchange /\ Disturbed("call")
  BY DEF Place, PlaceAgain
<1>3. sweep' = sweep /\ price' = price
  BY <1>2, TroubleStays, DisturbedLoud DEF exchange
<1>4. RestsAbove
  BY <1>1, <1>3 DEF RestsInv, Placements
<1>5. CASE UNCHANGED <<pc, snap, order>>
  BY <1>3, <1>4, <1>5 DEF RestsAbove
<1>6. CASE GiveUp
  <2>1. snap' = snap
    BY <1>6 DEF GiveUp, Idle
  <2>2. pc' \in Placements => pc = "sliceOco" /\ order'.tp = order.tp
    BY <1>6 DEF GiveUp, Idle, Placements
  <2> QED BY <1>1, <1>3, <1>4, <2>1, <2>2 DEF RestsAbove
<1> QED BY <1>1, <1>5, <1>6

LEMMA RestsStep == TypeOK /\ RestsInv /\ [Next]_vars => RestsInv'
<1> SUFFICES ASSUME TypeOK, RestsInv, [Next]_vars, sweep'.trouble = {}, pc' # "idle"
             PROVE  RestsAbove'
  BY DEF RestsInv
<1>1. CASE StartSweep
  <2>1. /\ snap'.px = price /\ price' = price /\ DOMAIN snap'.legs = {}
        /\ pc' = "read"
    BY <1>1 DEF StartSweep, exchange, NoLegs
  <2> QED BY <2>1 DEF RestsAbove, Placements
<1>2. CASE ReadOrders
  BY <1>2, ReadOrdersRests DEF RestsInv
<1>3. CASE Size
  <2>1. pc' = pc /\ snap' = snap /\ price' = price /\ pc \in Placements
    BY <1>3 DEF Size, Idle, exchange
  <2>2. order'.kind = order.kind /\ order'.tp = order.tp
    BY <1>3 DEF Size, Idle, TypeOK, LocalTyped
  <2>3. sweep' = sweep
    BY <1>3, DisturbedLoud DEF Size, SeeFree
  <2>4. RestsAbove
    BY <2>1, <2>3 DEF RestsInv
  <2> QED BY <2>1, <2>2, <2>4 DEF RestsAbove
<1>4. CASE Place \/ PlaceAgain
  BY <1>4, PlacementRests DEF RestsInv
<1>5. CASE CancelLeg
  <2>1. /\ \E i : \E ok \in BOOLEAN : SendCancel(i, ok)
        /\ UNCHANGED <<pc, snap>> /\ pc \notin Placements
    BY <1>5 DEF CancelLeg, Placements
  <2>2. sweep' = sweep /\ price' = price
    BY <2>1, TroubleStays
  <2>3. RestsAbove
    BY <2>1, <2>2 DEF RestsInv
  <2> QED BY <2>1, <2>2, <2>3 DEF RestsAbove
<1>6. CASE AbortPartial
  BY <1>6 DEF AbortPartial, Idle
<1>7. CASE PlanRebuild \/ PlanSwap
  <2>1. /\ UNCHANGED <<snap, sweep>> /\ price' = price /\ pc # "idle"
        /\ order'.kind = "oco" /\ pc' \in {"rebuild", "swap"}
    BY <1>7 DEF PlanRebuild, PlanSwap, exchange
  <2>2. RestsAbove
    BY <2>1 DEF RestsInv
  <2> QED BY <2>1, <2>2 DEF RestsAbove
<1>8. CASE RestoreTp \/ Demote \/ RestoreLast \/ RestoreSl
  <2>1. /\ \E l : \E ok \in BOOLEAN : Send(l, ok)
        /\ snap' = snap /\ pc' \notin Placements /\ pc # "idle"
    BY <1>8 DEF RestoreTp, Demote, RestoreLast, RestoreSl, Idle, Placements
  <2>2. sweep' = sweep /\ price' = price
    BY <2>1, TroubleStays
  <2>3. RestsAbove
    BY <2>1, <2>2 DEF RestsInv
  <2> QED BY <2>1, <2>2, <2>3 DEF RestsAbove
<1>9. CASE PriceMoves \/ LegFills \/ Abandon
  BY <1>9, DisturbedLoud DEF PriceMoves, LegFills, Abandon
<1>10. CASE SyncRow \/ SwapWindowEnds
  BY <1>10 DEF SyncRow, SwapWindowEnds, local
<1>11. CASE UNCHANGED vars
  <2>1. UNCHANGED <<price, pc, snap, order, sweep>>
    BY <1>11 DEF vars, exchange, local, history
  <2> QED BY <2>1 DEF RestsInv, RestsAbove
<1> QED
  BY <1>1, <1>2, <1>3, <1>4, <1>5, <1>6, <1>7, <1>8, <1>9, <1>10, <1>11
  DEF Next, Sweep, World

\* The loop counts the legs in the order of their numbers, so the leg the
\* rescue ladder gives up is one it has counted.
LastLeg == \E i \in gone : \A j \in gone : j <= i

LastInv ==
    /\ pc \in {"cancelTp", "cancelSl"} => \A i \in gone, j \in todo : i <= j
    /\ gone # {} => LastLeg
    /\ pc \in {"rebuild", "restoreTp", "demote", "restoreLast"} => gone # {}

LEMMA LastStep == TypeOK /\ LastInv /\ [Next]_vars => LastInv'
<1> SUFFICES ASSUME TypeOK, LastInv, [Next]_vars PROVE LastInv'
  OBVIOUS
<1>1. CASE UNCHANGED <<pc, todo, gone>>
  BY <1>1 DEF LastInv, LastLeg
<1>2. CASE gone' = {} /\ pc' \notin {"rebuild", "restoreTp", "demote", "restoreLast"}
  BY <1>2 DEF LastInv
<1>3. CASE StartSweep
  <2>1. gone' = {} /\ pc' = "read"
    BY <1>3 DEF StartSweep, TypeOK, LocalTyped
  <2> QED BY <1>2, <2>1
<1>4. CASE ReadOrders
  <2>1. PICK c, legs : Decide(c, legs)
    BY <1>4 DEF ReadOrders
  <2>2. pc' \in {"idle", "emergency", "sliceOco", "sliceTp", "cancelTp", "cancelSl"}
    BY <2>1 DEF Decide, DecideBreached, DecideSlice, DecideLocked, Skip, Plan, CancelFirst
  <2>3. gone = {} /\ (gone' = gone \/ gone' = {})
    BY <1>4, <2>1 DEF ReadOrders, TypeOK, LocalTyped, Decide, DecideBreached, DecideSlice,
                      DecideLocked, Skip, Plan, CancelFirst
  <2> QED BY <1>2, <2>2, <2>3
<1>5. CASE CancelLeg
  <2>1. PICK i \in todo, counted \in BOOLEAN :
          /\ \A j \in todo : i <= j
          /\ todo' = todo \ {i}
          /\ gone' = IF counted THEN gone \cup {i} ELSE gone
    BY <1>5 DEF CancelLeg
  <2>2. pc' = pc /\ pc \in {"cancelTp", "cancelSl"}
    BY <1>5 DEF CancelLeg
  <2>3. i \in Nat
    BY ExchangeAssumption DEF ExchangeAssumption, TypeOK, LocalTyped, SnapTyped
  <2>4. i \in gone' => \A j \in gone' : j <= i
    BY <2>1, <2>2, <2>3 DEF LastInv
  <2> QED BY <2>1, <2>2, <2>4 DEF LastInv, LastLeg
<1>6. CASE Idle
  BY <1>2, <1>6 DEF Idle
<1>7. CASE gone' = gone /\ pc \in {"rebuild", "restoreTp", "demote", "restoreLast"}
           /\ pc' \notin {"cancelTp", "cancelSl"}
  BY <1>7 DEF LastInv, LastLeg
<1>8. CASE gone' = gone /\ pc' \notin {"cancelTp", "cancelSl", "rebuild", "restoreTp",
                                       "demote", "restoreLast"}
  BY <1>8 DEF LastInv, LastLeg
<1>9. CASE Size \/ AbortPartial
  BY <1>1, <1>6, <1>7, <1>8, <1>9 DEF Size, AbortPartial, Placements
<1>10. CASE Place \/ PlaceAgain
  <2>1. Idle \/ GiveUp \/ UNCHANGED <<pc, todo, gone>>
    BY <1>10 DEF Place, PlaceAgain, Succeed
  <2>2. CASE GiveUp
    BY <1>6, <1>7, <1>8, <2>2 DEF GiveUp
  <2> QED BY <1>1, <1>6, <2>1, <2>2
<1>11. CASE PlanRebuild \/ PlanSwap
  <2>1. gone' = gone /\ gone # {} /\ pc' \in {"rebuild", "swap"}
    BY <1>11 DEF PlanRebuild, PlanSwap
  <2> QED BY <2>1 DEF LastInv, LastLeg
<1>12. CASE RestoreTp \/ Demote \/ RestoreLast
  BY <1>6, <1>7, <1>12 DEF RestoreTp, Demote, RestoreLast
<1>13. CASE RestoreSl
  BY <1>6, <1>8, <1>13 DEF RestoreSl
<1>14. CASE World \/ UNCHANGED vars
  BY <1>1, <1>6, <1>14
  DEF World, PriceMoves, LegFills, SyncRow, SwapWindowEnds, Abandon, vars, local
<1> QED
  BY <1>3, <1>4, <1>5, <1>9, <1>10, <1>11, <1>12, <1>13, <1>14 DEF Next, Sweep

LEMMA HeldStep ==
  ASSUME TypeOK, RestsInv, LastInv, [Next]_vars, sweep.trouble = {}, sweep'.trouble = {}
  PROVE  Held' = Held
<1>1. CASE Place \/ PlaceAgain
  <2>1. pc \in Placements
    BY <1>1 DEF Place, PlaceAgain
  <2>2. order.kind = "tp" => order.tp \in Nat /\ price < order.tp
    BY <2>1, NumbersTyped DEF RestsInv, RestsAbove, Placements
  <2>3. Downgraded(free).kind = order.kind /\ Downgraded(free).tp = order.tp
    BY DEF Downgraded, TypeOK, LocalTyped
  <2>4. \/ \E ok \in BOOLEAN : Send(order, ok)
        \/ \E ok \in BOOLEAN : Send(Downgraded(free), ok)
        \/ UNCHANGED exchange
    BY <1>1 DEF Place, PlaceAgain
  <2> QED BY <2>2, <2>3, <2>4, SendHeld, ExchangeHeld
<1>2. CASE CancelLeg
  BY <1>2, SendCancelHeld DEF CancelLeg
<1>3. ASSUME NEW i \in DOMAIN snap.legs, pc # "idle", NEW ok \in BOOLEAN,
             Send(snap.legs[i], ok)
      PROVE  Held' = Held
  BY <1>3, NumbersTyped, SendHeld DEF RestsInv, RestsAbove
<1>4. CASE RestoreTp \/ RestoreSl
  BY <1>3, <1>4 DEF RestoreTp, RestoreSl, TypeOK, LocalTyped
<1>5. CASE RestoreLast
  <2>1. DemoteLeg \in gone
    BY <1>5 DEF RestoreLast, LastInv, LastLeg, DemoteLeg
  <2> QED BY <1>3, <1>5, <2>1 DEF RestoreLast, TypeOK, LocalTyped
<1>6. CASE Demote
  <2>1. PICK ok \in BOOLEAN : Send(Demoted, ok)
    BY <1>6 DEF Demote
  <2>2. Demoted.kind = "sl"
    BY DEF Demoted
  <2> QED BY <2>1, <2>2, SendHeld
<1>7. CASE StartSweep \/ ReadOrders \/ Size \/ AbortPartial \/ PlanRebuild \/ PlanSwap
  BY <1>7, ExchangeHeld
  DEF StartSweep, ReadOrders, Size, AbortPartial, PlanRebuild, PlanSwap
<1>8. CASE PriceMoves \/ LegFills \/ Abandon
  BY <1>8, DisturbedLoud DEF PriceMoves, LegFills, Abandon
<1>9. CASE SyncRow \/ SwapWindowEnds \/ UNCHANGED vars
  BY <1>9, ExchangeHeld DEF SyncRow, SwapWindowEnds, vars
<1> QED BY <1>1, <1>2, <1>4, <1>5, <1>6, <1>7, <1>8, <1>9 DEF Next, Sweep, World

\* "Deciding to sell is a strategy decision, not the guardian's": for every set
\* of prices, lot size, row and book, what a sweep sends while neither a call
\* nor the market disturbs it comes to rest; none of it is executed at once.
THEOREM HealsNeverSell == Spec => NeverSells
<1>1. Init => RestsInv /\ LastInv
  BY DEF Init, RestsInv, LastInv
<1>2. TypeOK /\ RestsInv /\ LastInv /\ [Next]_vars => RestsInv' /\ LastInv'
  BY RestsStep, LastStep
<1>3. TypeOK /\ RestsInv /\ LastInv /\ [Next]_vars =>
        [sweep.trouble = {} /\ sweep'.trouble = {} => Held' = Held]_vars
  BY HeldStep
<1> QED BY <1>1, <1>2, <1>3, TypeCorrect, PTL DEF Spec, NeverSells
=============================================================================
