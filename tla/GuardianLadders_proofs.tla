----------------------- MODULE GuardianLadders_proofs -----------------------
(***************************************************************************)
(* Proofs about what ProtectionGuardian does to the quantities behind the   *)
(* protective orders: a shaped book is never taken apart, an undisturbed    *)
(* sweep leaves no less under stops than it found, and the rescue ladder of *)
(* a TP-only book ends with a stop or with all of its take-profits back.    *)
(*                                                                          *)
(* All three rest on the account the exchange keeps (what is locked is the  *)
(* quantity of the resting legs) and on how much of what a cancel loop      *)
(* freed is still free.                                                     *)
(***************************************************************************)
EXTENDS ProtectionGuardian_proofs

-----------------------------------------------------------------------------
(* Books and the quantity behind their legs                                 *)

Whole(q) == \E m \in Int : q = m * Step

\* What a book of the exchange looks like.
BookOk(b) ==
    /\ IsFiniteSet(DOMAIN b)
    /\ \A i \in DOMAIN b : b[i] \in Leg /\ Accepted(b[i]) /\ Whole(b[i].qty)

LEMMA LegQtys ==
  ASSUME NEW b, BookOk(b), NEW legs, legs \subseteq DOMAIN b
  PROVE  /\ IsFiniteSet(legs)
         /\ \A i \in legs : /\ [j \in DOMAIN b |-> b[j].qty][i] = b[i].qty
                            /\ b[i].qty \in Nat \ {0}
<1>1. IsFiniteSet(legs)
  BY FS_Subset DEF BookOk
<1> QED BY <1>1 DEF BookOk, Leg

\* The quantity behind a set of legs: any leg can be counted first, a part
\* counts no more, none counts nothing, one counts something.
LEMMA QtyTake ==
  ASSUME NEW b, BookOk(b), NEW legs, legs \subseteq DOMAIN b, NEW i \in legs
  PROVE  QtyIn(b, legs) = b[i].qty + QtyIn(b, legs \ {i})
<1> DEFINE f == [j \in DOMAIN b |-> b[j].qty]
<1>1. IsFiniteSet(legs) /\ \A j \in legs : f[j] = b[j].qty /\ f[j] \in Int
  BY LegQtys
<1> HIDE DEF f
<1>2. SumFunctionOnSet(f, legs) = f[i] + SumFunctionOnSet(f, legs \ {i})
  BY <1>1, SumTake
<1>3. f[i] = b[i].qty
  BY <1>1
<1> QED BY <1>2, <1>3 DEF f, QtyIn

LEMMA QtyPart ==
  ASSUME NEW b, BookOk(b), NEW legs, legs \subseteq DOMAIN b, NEW part, part \subseteq legs
  PROVE  QtyIn(b, part) <= QtyIn(b, legs)
<1> DEFINE f == [j \in DOMAIN b |-> b[j].qty]
<1>1. IsFiniteSet(legs) /\ \A j \in legs : f[j] \in Nat
  BY LegQtys
<1> HIDE DEF f
<1>2. SumFunctionOnSet(f, part) <= SumFunctionOnSet(f, legs)
  BY <1>1, SumPart
<1> QED BY <1>2 DEF f, QtyIn

LEMMA QtyNone == \A b : QtyIn(b, {}) = 0
BY SumEmpty DEF QtyIn

LEMMA QtyBook ==
  ASSUME NEW b, BookOk(b), NEW legs, legs \subseteq DOMAIN b
  PROVE  QtyIn(b, legs) \in Nat /\ (QtyIn(b, legs) = 0 <=> legs = {})
<1>1. QtyIn(b, legs) \in Nat
  BY QtyNat DEF BookOk
<1>2. ASSUME NEW i \in legs PROVE QtyIn(b, legs) # 0
  <2>1. QtyIn(b, legs) = b[i].qty + QtyIn(b, legs \ {i})
    BY QtyTake
  <2>2. QtyIn(b, legs \ {i}) \in Nat /\ b[i].qty \in Nat \ {0}
    BY QtyNat, LegQtys DEF BookOk
  <2> QED BY <2>1, <2>2
<1> QED BY <1>1, <1>2, QtyNone

\* Whole lots add up to whole lots.
LEMMA QtyWhole ==
  ASSUME NEW b, BookOk(b), NEW legs, legs \subseteq DOMAIN b
  PROVE  Whole(QtyIn(b, legs))
<1> DEFINE f == [j \in DOMAIN b |-> b[j].qty]
<1>1. /\ IsFiniteSet(legs) /\ Step \in Int
      /\ \A j \in legs : f[j] \in Int /\ \E m \in Int : f[j] = m * Step
  <2>1. IsFiniteSet(legs) /\ \A j \in legs : f[j] = b[j].qty /\ f[j] \in Int
    BY LegQtys
  <2>2. \A j \in legs : Whole(b[j].qty)
    BY DEF BookOk
  <2> HIDE DEF f
  <2>3. \A j \in legs : \E m \in Int : f[j] = m * Step
    BY <2>1, <2>2 DEF Whole
  <2>4. Step \in Int
    BY ExchangeAssumption DEF ExchangeAssumption
  <2> QED BY <2>1, <2>3, <2>4, Zenon
<1> HIDE DEF f
<1>2. \E m \in Int : SumFunctionOnSet(f, legs) = m * Step
  BY <1>1, SumWhole
<1> QED BY <1>2 DEF f, QtyIn, Whole

\* Book `new` is book b with leg l under a new number i.
Adds(b, new, l, i) ==
    /\ l \in Leg /\ i \notin DOMAIN b
    /\ DOMAIN new = DOMAIN b \cup {i} /\ new[i] = l
    /\ \A j \in DOMAIN b : new[j] = b[j]

\* A leg that comes to rest adds its quantity to that of its kind.
LEMMA QtyRest ==
  ASSUME NEW b, BookOk(b), NEW new, NEW l, NEW i, Adds(b, new, l, i), NEW k
  PROVE  QtyOf(new, k) = QtyOf(b, k) + (IF l.kind = k THEN l.qty ELSE 0)
<1> DEFINE f == [j \in DOMAIN b |-> b[j].qty]
           g == [j \in DOMAIN new |-> new[j].qty]
           K == {j \in DOMAIN b : b[j].kind = k}
           L == {j \in DOMAIN new : new[j].kind = k}
<1> USE DEF Adds
<1>1. /\ IsFiniteSet(K) /\ i \notin K
      /\ \A j \in K : f[j] \in Int /\ g[j] = f[j]
      /\ g[i] = l.qty /\ g[i] \in Int
  <2>1. K \subseteq DOMAIN b /\ i \notin K
    OBVIOUS
  <2>2. IsFiniteSet(K) /\ \A j \in K : b[j].qty \in Nat
    BY <2>1, LegQtys
  <2>3. \A j \in K : f[j] = b[j].qty /\ g[j] = b[j].qty
    BY <2>1
  <2>4. g[i] = l.qty /\ l.qty \in Nat
    BY DEF Leg
  <2> QED BY <2>1, <2>2, <2>3, <2>4
<1>2. L = IF l.kind = k THEN K \cup {i} ELSE K
  OBVIOUS
<1>3. QtyOf(new, k) = SumFunctionOnSet(g, L) /\ QtyOf(b, k) = SumFunctionOnSet(f, K)
  BY DEF QtyOf, QtyIn
<1> HIDE DEF f, g, K, L
<1>4. SumFunctionOnSet(f, K) = SumFunctionOnSet(g, K) /\ SumFunctionOnSet(f, K) \in Int
  BY <1>1, SumAgree, SumInt
<1>5. CASE l.kind = k
  <2>1. SumFunctionOnSet(g, K \cup {i}) = g[i] + SumFunctionOnSet(g, K)
    BY <1>1, SumAdd
  <2>2. L = K \cup {i}
    BY <1>2, <1>5
  <2>3. QtyOf(new, k) = g[i] + SumFunctionOnSet(g, K)
    BY Zenon, <1>3, <2>1, <2>2
  <2> QED BY <1>1, <1>3, <1>4, <1>5, <2>3
<1>6. CASE l.kind # k
  BY <1>2, <1>3, <1>4, <1>6
<1> QED BY <1>5, <1>6

\* A leg that leaves the book takes its quantity along.
LEMMA QtyRemove ==
  ASSUME NEW b, BookOk(b), NEW new, NEW i \in DOMAIN b,
         DOMAIN new = DOMAIN b \ {i} /\ (\A j \in DOMAIN new : new[j] = b[j]),
         NEW k
  PROVE  /\ BookOk(new)
         /\ QtyOf(new, k) = QtyOf(b, k) - (IF b[i].kind = k THEN b[i].qty ELSE 0)
<1>1. BookOk(new)
  BY FS_Subset DEF BookOk
<1>2. /\ b[i] \in Leg /\ DOMAIN b = DOMAIN new \cup {i} /\ i \notin DOMAIN new
      /\ \A j \in DOMAIN new : b[j] = new[j]
  BY DEF BookOk
<1>3. QtyOf(b, k) = QtyOf(new, k) + (IF b[i].kind = k THEN b[i].qty ELSE 0)
  <2>1. Adds(new, b, b[i], i)
    BY <1>2 DEF Adds
  <2> QED BY <1>1, <2>1, QtyRest
<1>4. QtyOf(new, k) \in Int /\ b[i].qty \in Int
  BY <1>1, <1>2, QtyBook DEF QtyOf, Leg
<1> QED BY <1>1, <1>3, <1>4

-----------------------------------------------------------------------------
(* The account of the exchange                                              *)

\* What is locked is the quantity of the resting legs.
Account ==
    /\ BookOk(book)
    /\ \A k \in Kinds : locked[k] = QtyOf(book, k)

\* A step that takes no leg off the book
LegsStay == \A j \in DOMAIN book : j \in DOMAIN book' /\ book'[j] = book[j]

\* What locked becomes when leg l is added
LocksMore(l) == \A k \in Kinds : locked'[k] = locked[k] + (IF l.kind = k THEN l.qty ELSE 0)

LEMMA AccountNat ==
  ASSUME Account
  PROVE  \A k \in Kinds : locked[k] \in Nat
BY QtyBook DEF Account, QtyOf

LEMMA EnterAccount ==
  ASSUME ExchangeTyped, Account, NEW l, Whole(l.qty), NEW taken, Enter(l, taken)
  PROVE  /\ Account' /\ LegsStay
         /\ l \in Leg /\ l.qty <= free /\ free' = free - l.qty
         /\ IF Marketable(l) THEN locked' = locked ELSE LocksMore(l)
<1>1. l \in Leg /\ l.qty <= free /\ Accepted(l)
  BY DEF Enter, Placeable, Accepted
<1>2. CASE Marketable(l)
  <2>1. /\ book' = book /\ locked' = locked
        /\ free' = free - l.qty
    BY <1>2 DEF Enter, Join, Execute
  <2> QED BY <1>1, <1>2, <2>1 DEF Account, LegsStay
<1>3. CASE ~Marketable(l)
  <2>1. PICK i \in Fresh(DOMAIN book \cup taken) : Rest(l, i)
    BY <1>3 DEF Enter, Join
  <2>2. Adds(book, book', l, i)
    BY <1>1, <2>1 DEF Fresh, Rest, Adds
  <2>3. LocksMore(l) /\ free' = free - l.qty
    BY <1>1, <2>1 DEF Rest, LocksMore, ExchangeTyped, Leg
  <2>4. BookOk(book')
    <3>1. IsFiniteSet(DOMAIN book \cup {i})
      BY FS_AddElement DEF Account, BookOk
    <3>2. IsFiniteSet(DOMAIN book')
      BY <2>2, <3>1 DEF Adds
    <3>3. \A j \in DOMAIN book' : book'[j] \in Leg /\ Accepted(book'[j]) /\ Whole(book'[j].qty)
      BY <1>1, <2>2 DEF Adds, Account, BookOk
    <3> QED BY <3>2, <3>3 DEF BookOk
  <2>5. ASSUME NEW k \in Kinds PROVE locked'[k] = QtyOf(book', k)
    <3>1. QtyOf(book', k) = QtyOf(book, k) + (IF l.kind = k THEN l.qty ELSE 0)
      BY <2>2, QtyRest DEF Account
    <3> QED BY <2>3, <3>1 DEF Account, LocksMore
  <2>6. LegsStay
    BY <2>2 DEF Adds, LegsStay
  <2> QED BY <1>1, <1>3, <2>3, <2>4, <2>5, <2>6 DEF Account
<1> QED BY <1>2, <1>3

\* An order that leaves the book, cancelled or filled
LEMMA RemoveAccount ==
  ASSUME ExchangeTyped, Account, NEW i \in DOMAIN book, Remove(i),
         locked' = [locked EXCEPT ![book[i].kind] = @ - book[i].qty]
  PROVE  /\ Account'
         /\ \A k \in Kinds :
               locked'[k] = locked[k] - (IF book[i].kind = k THEN book[i].qty ELSE 0)
<1>1. DOMAIN book' = DOMAIN book \ {i} /\ (\A j \in DOMAIN book' : book'[j] = book[j])
  BY DEF Remove
<1>2. \A k \in Kinds :
        locked'[k] = locked[k] - (IF book[i].kind = k THEN book[i].qty ELSE 0)
  BY AccountNat DEF ExchangeTyped, Leg
<1>3. ASSUME NEW k \in Kinds
      PROVE  /\ BookOk(book')
             /\ QtyOf(book', k) = QtyOf(book, k)
                                   - (IF book[i].kind = k THEN book[i].qty ELSE 0)
  BY <1>1, QtyRemove DEF Account
<1>4. "tp" \in Kinds
  BY DEF Kinds
<1> QED BY <1>2, <1>3, <1>4 DEF Account

LEMMA CancelAccount ==
  ASSUME ExchangeTyped, Account, NEW i, Cancel(i)
  PROVE  /\ Account'
         /\ free' = free + book[i].qty
         /\ \A k \in Kinds :
               locked'[k] = locked[k] - (IF book[i].kind = k THEN book[i].qty ELSE 0)
BY RemoveAccount DEF Cancel

LEMMA SameAccount ==
  ASSUME Account, UNCHANGED <<book, locked>>
  PROVE  Account' /\ LegsStay
BY DEF Account, LegsStay

\* What a request may do to the account and, when nothing disturbs it, does.
LEMMA SendAccount ==
  ASSUME TypeOK, Account, NEW l, Whole(l.qty), NEW ok \in BOOLEAN, Send(l, ok)
  PROVE  /\ Account' /\ LegsStay /\ price' = price
         /\ sweep'.trouble = {} =>
               /\ sweep' = sweep
               /\ ok => /\ l \in Leg /\ l.qty <= free /\ free' = free - l.qty
                        /\ IF Marketable(l) THEN locked' = locked ELSE LocksMore(l)
               /\ ~ok => /\ UNCHANGED exchange
                         /\ ~Placeable(l) \/ l.kind = "oco"
<1>1. ExchangeTyped
  BY DEF TypeOK
<1>2. price' = price
  BY SendTyped
<1>3. Account' /\ LegsStay
  <2>1. CASE Enter(l, DOMAIN snap.legs)
    BY <1>1, <2>1, EnterAccount
  <2>2. CASE UNCHANGED exchange
    BY <2>2, SameAccount DEF exchange
  <2> QED BY <2>1, <2>2 DEF Send
<1>4. ASSUME sweep'.trouble = {}
      PROVE  /\ sweep' = sweep
             /\ ok => Enter(l, DOMAIN snap.legs)
             /\ ~ok => /\ UNCHANGED exchange
                       /\ ~Placeable(l) \/ l.kind = "oco"
  BY <1>4, DisturbedLoud DEF Send
<1> QED BY <1>1, <1>2, <1>3, <1>4, EnterAccount

\* A request refused in a calm sweep changes nothing.
LEMMA SendRefused ==
  ASSUME TypeOK, NEW l, Send(l, FALSE), sweep'.trouble = {}
  PROVE  UNCHANGED exchange
BY DisturbedLoud DEF Send

LEMMA SendCancelAccount ==
  ASSUME TypeOK, Account, NEW i, NEW counted \in BOOLEAN, SendCancel(i, counted)
  PROVE  Account' /\ price' = price
<1>1. ExchangeTyped
  BY DEF TypeOK
<1>2. CASE Cancel(i)
  BY <1>1, <1>2, CancelAccount DEF Cancel
<1>3. CASE UNCHANGED exchange
  BY <1>3, SameAccount DEF exchange
<1> QED BY <1>2, <1>3 DEF SendCancel, exchange

-----------------------------------------------------------------------------
(* What a sweep starts from                                                 *)

\* Whatever is placed, or is to be put back, comes in whole lots.
LotsInv ==
    /\ BookOk(snap.legs)
    /\ pc \in Placements => Whole(order.qty)

\* The market has reached no leg of the book the sweep began with.
StartRests == \A i \in DOMAIN sweep.before : ~Reached(sweep.before[i])

\* What the sweep knows of that book.
StartInv ==
    /\ BookOk(sweep.before)
    /\ sweep.trouble = {} => StartRests
    /\ "fill" \notin sweep.trouble /\ pc = "read" => book = sweep.before
    /\ pc # "idle" => snap.qty = sweep.qty
    /\ sweep.trouble = {} /\ pc \notin {"idle", "read"} => snap.legs = sweep.before

LEMMA FloorStepWhole == \A q \in Int : Whole(FloorStep(q))
<1> TAKE q \in Int
<1>1. q \div Step \in Int
  BY ExchangeAssumption DEF ExchangeAssumption
<1> QED BY <1>1 DEF FloorStep, Whole

LEMMA NoLegsOk == BookOk(NoLegs) /\ DOMAIN NoLegs = {}
<1>1. DOMAIN NoLegs = {}
  BY DEF NoLegs
<1> QED BY <1>1, FS_EmptySet DEF BookOk

LEMMA DecideLots ==
  ASSUME TypeOK, NEW c \in [Kinds -> Int], NEW legs, Decide(c, legs), pc = "read"
  PROVE  pc' \in Placements => Whole(order'.qty)
<1>1. Whole(FloorStep(snap.qty)) /\ Whole(FreeSlice(c))
  BY FloorStepWhole DEF FreeSlice, Kinds, TypeOK, LocalTyped, SnapTyped
<1>2. CASE Skip(c)
  BY <1>2 DEF Skip, Placements
<1>3. CASE DecideBreached(c)
  BY <1>1, <1>2, <1>3 DEF DecideBreached, Plan
<1>4. CASE DecideSlice(c)
  BY <1>1, <1>4 DEF DecideSlice, Plan
<1>5. CASE DecideLocked(c, legs)
  BY <1>1, <1>2, <1>5 DEF DecideLocked, Plan, CancelFirst, Placements
<1> QED BY <1>2, <1>3, <1>4, <1>5 DEF Decide

\* The end of a sweep, and every step that keeps the placement, keeps the lots.
LEMMA IdleLots == Idle => LotsInv'
BY NoLegsOk DEF Idle, LotsInv, NoSnap, Placements

LEMMA SameLots ==
  ASSUME LotsInv, snap' = snap, pc' \in Placements => pc \in Placements /\ order'.qty = order.qty
  PROVE  LotsInv'
BY DEF LotsInv

LEMMA ReadOrdersLots ==
  ASSUME TypeOK, Account, ReadOrders
  PROVE  LotsInv'
<1>1. PICK legs \in {book, NoLegs}, c \in {ListedCover(locked), NoCover} :
        /\ Decide(c, legs)
        /\ snap' = IF pc' = "idle" THEN NoSnap
                   ELSE [snap EXCEPT !.legs = legs, !.cover = c]
  BY DEF ReadOrders
<1>2. c \in [Kinds -> Int]
  BY ListedCoverTyped DEF TypeOK, ExchangeTyped, NoCover
<1>3. pc' \in Placements => Whole(order'.qty)
  BY <1>1, <1>2, DecideLots DEF ReadOrders
<1>4. snap'.legs \in {legs, NoLegs}
  BY <1>1 DEF NoSnap, TypeOK, LocalTyped, SnapTyped
<1>5. BookOk(snap'.legs)
  BY <1>1, <1>4, NoLegsOk DEF Account
<1> QED BY <1>3, <1>5 DEF LotsInv

LEMMA SizeLots ==
  ASSUME TypeOK, LotsInv, Size
  PROVE  LotsInv'
<1>1. PICK seen \in {free, 0} :
        \/ Idle
        \/ /\ order' = [order EXCEPT !.qty = Calibrate(order.qty, seen)]
           /\ UNCHANGED <<pc, snap, todo, gone>>
  BY DEF Size
<1>2. Whole(Calibrate(order.qty, seen))
  BY FloorStepWhole DEF Calibrate, TypeOK, ExchangeTyped, LocalTyped
<1>3. CASE /\ order' = [order EXCEPT !.qty = Calibrate(order.qty, seen)]
           /\ UNCHANGED <<pc, snap, todo, gone>>
  <2>1. order'.qty = Calibrate(order.qty, seen)
    BY <1>3 DEF TypeOK, LocalTyped
  <2> QED BY <1>2, <1>3, <2>1 DEF LotsInv
<1> QED BY <1>1, <1>3, IdleLots

LEMMA GiveUpLots == TypeOK /\ LotsInv /\ pc \in Placements /\ GiveUp => LotsInv'
<1> SUFFICES ASSUME TypeOK, LotsInv, pc \in Placements, GiveUp, ~Idle PROVE LotsInv'
  BY IdleLots
<1>1. snap' = snap /\ (pc' \in Placements => order'.qty = order.qty)
  BY DEF GiveUp, Placements
<1> QED BY <1>1, SameLots

LEMMA LotsStep == TypeOK /\ Account /\ LotsInv /\ [Next]_vars => LotsInv'
<1> SUFFICES ASSUME TypeOK, Account, LotsInv, [Next]_vars PROVE LotsInv'
  OBVIOUS
<1>1. CASE StartSweep
  <2>1. snap'.legs = NoLegs /\ pc' = "read"
    BY <1>1 DEF StartSweep
  <2> QED BY <2>1, NoLegsOk DEF LotsInv, Placements
<1>2. CASE Place \/ PlaceAgain
  <2>1. \/ Idle \/ UNCHANGED <<pc, snap, order>>
        \/ GiveUp /\ pc \in Placements
    BY <1>2 DEF Place, PlaceAgain, Succeed
  <2> QED BY <2>1, GiveUpLots, IdleLots, SameLots
<1>3. CASE PlanRebuild \/ PlanSwap
  <2>1. snap' = snap /\ order'.qty = FloorStep(snap.qty)
    BY <1>3 DEF PlanRebuild, PlanSwap
  <2>2. Whole(FloorStep(snap.qty))
    BY FloorStepWhole DEF TypeOK, LocalTyped, SnapTyped
  <2> QED BY <2>1, <2>2 DEF LotsInv
<1>4. CASE CancelLeg \/ AbortPartial \/ RestoreTp \/ Demote \/ RestoreLast \/ RestoreSl
  <2>1. Idle \/ (snap' = snap /\ pc' \notin Placements)
    BY <1>4 DEF CancelLeg, AbortPartial, RestoreTp, Demote, RestoreLast, RestoreSl, Placements
  <2> QED BY <2>1, IdleLots, SameLots
<1>5. CASE World \/ UNCHANGED vars
  <2>1. Idle \/ UNCHANGED <<pc, snap, order>>
    BY <1>5 DEF World, PriceMoves, LegFills, SyncRow, SwapWindowEnds, Abandon, local, vars
  <2> QED BY <2>1, IdleLots, SameLots
<1> QED
  BY <1>1, <1>2, <1>3, <1>4, <1>5, ReadOrdersLots, SizeLots DEF Next, Sweep

\* The account stays balanced whatever the sweep and the market do, and every
\* step but a cancel and a fill leaves the legs on the book.
LEMMA AccountStep ==
  ASSUME TypeOK, LastInv, Account, LotsInv, [Next]_vars
  PROVE  Account' /\ (LegsStay \/ CancelLeg \/ LegFills)
<1>1. CASE UNCHANGED exchange
  BY <1>1, SameAccount DEF exchange
<1>2. ASSUME NEW l, Whole(l.qty), \E ok \in BOOLEAN : Send(l, ok)
      PROVE  Account' /\ LegsStay
  BY <1>2, SendAccount
<1>3. CASE Place \/ PlaceAgain
  <2>1. pc \in Placements
    BY <1>3 DEF Place, PlaceAgain
  <2>2. Downgraded(free).qty = FloorStep(free)
    BY DEF Downgraded, TypeOK, LocalTyped
  <2>3. Whole(order.qty) /\ Whole(Downgraded(free).qty)
    BY <2>1, <2>2, FloorStepWhole DEF LotsInv, TypeOK, ExchangeTyped
  <2> QED BY <1>1, <1>2, <1>3, <2>3 DEF Place, PlaceAgain
<1>4. CASE CancelLeg
  BY <1>4, SendCancelAccount DEF CancelLeg
<1>5. \A i \in DOMAIN snap.legs : Whole(snap.legs[i].qty) /\ snap.legs[i] \in Leg
  BY DEF LotsInv, BookOk
<1>6. CASE RestoreTp \/ RestoreSl
  BY <1>2, <1>5, <1>6 DEF RestoreTp, RestoreSl, TypeOK, LocalTyped
<1>7. CASE Demote \/ RestoreLast
  <2>1. DemoteLeg \in DOMAIN snap.legs
    BY <1>7 DEF Demote, RestoreLast, LastInv, LastLeg, DemoteLeg, TypeOK, LocalTyped
  <2>2. Whole(Demoted.qty)
    BY <1>5, <2>1, FloorStepWhole DEF Demoted, Leg
  <2> QED BY <1>2, <1>5, <1>7, <2>1, <2>2 DEF Demote, RestoreLast
<1>8. CASE LegFills
  BY <1>8, RemoveAccount DEF LegFills, Fill, TypeOK
<1>9. CASE StartSweep \/ ReadOrders \/ Size \/ AbortPartial \/ PlanRebuild \/ PlanSwap
           \/ SyncRow \/ SwapWindowEnds \/ Abandon \/ UNCHANGED vars
  BY <1>1, <1>9
  DEF StartSweep, ReadOrders, Size, AbortPartial, PlanRebuild, PlanSwap,
      SyncRow, SwapWindowEnds, Abandon, vars
<1>10. CASE PriceMoves
  BY <1>10, SameAccount DEF PriceMoves, MoveTo
<1> QED
  BY <1>3, <1>4, <1>6, <1>7, <1>8, <1>9, <1>10 DEF Next, Sweep, World

\* A disturbance is recorded, and nothing else of what the sweep began with.
LEMMA DisturbedRecord ==
  ASSUME TypeOK, NEW by, Disturbed(by)
  PROVE  /\ sweep'.before = sweep.before /\ sweep'.qty = sweep.qty
         /\ sweep'.trouble = sweep.trouble \cup {by}
BY DEF Disturbed, TypeOK, HistoryTyped

\* A step inside a sweep, or to its end
LEMMA SameStart ==
  ASSUME TypeOK, StartInv, sweep' = sweep \/ (\E by : Disturbed(by)),
         price' = price \/ sweep'.trouble # {},
         pc' # "read", pc' # "idle" => pc \notin {"idle", "read"} /\ snap' = snap
  PROVE  StartInv'
<1>1. /\ sweep'.before = sweep.before /\ sweep'.qty = sweep.qty
      /\ sweep'.trouble = {} => sweep.trouble = {}
  BY DisturbedRecord
<1>2. sweep'.trouble = {} => StartRests'
  BY <1>1 DEF StartInv, StartRests, Reached
<1>3. /\ pc' # "idle" => snap'.qty = sweep'.qty
      /\ sweep'.trouble = {} /\ pc' \notin {"idle", "read"} => snap'.legs = sweep'.before
  BY <1>1 DEF StartInv
<1>4. BookOk(sweep'.before)
  BY <1>1 DEF StartInv
<1> QED BY <1>2, <1>3, <1>4 DEF StartInv

LEMMA StartStep == TypeOK /\ Account /\ StartInv /\ [Next]_vars => StartInv'
<1> SUFFICES ASSUME TypeOK, Account, StartInv, [Next]_vars PROVE StartInv'
  OBVIOUS
<1>1. CASE StartSweep
  <2>1. /\ book' = book /\ price' = price /\ Settled
        /\ pc' = "read" /\ snap'.qty = pos.qty
        /\ sweep'.before = book /\ sweep'.qty = pos.qty
    BY <1>1 DEF StartSweep, exchange
  <2>2. StartRests'
    BY <2>1 DEF Settled, StartRests, Reached
  <2>3. BookOk(book)
    BY DEF Account
  <2>4. BookOk(sweep'.before) /\ StartRests'
    BY <2>1, <2>2, <2>3
  <2> QED BY <2>1, <2>4 DEF StartInv
<1>2. CASE ReadOrders
  <2>1. PICK legs \in {book, NoLegs}, c \in {ListedCover(locked), NoCover} :
          /\ IF legs = book THEN NoFault /\ UNCHANGED sweep ELSE Fault /\ Disturbed("call")
          /\ Decide(c, legs)
          /\ snap' = IF pc' = "idle" THEN NoSnap
                     ELSE [snap EXCEPT !.legs = legs, !.cover = c]
    BY <1>2 DEF ReadOrders
  <2>2. pc = "read" /\ price' = price /\ book' = book
    BY <1>2 DEF ReadOrders, exchange
  <2>3. pc' # "read"
    BY <2>1, <2>2 DEF Decide, DecideBreached, DecideSlice, DecideLocked, Skip, Plan, CancelFirst
  <2>4. pc' # "idle" => snap'.qty = snap.qty /\ snap'.legs = legs
    BY <2>1 DEF TypeOK, LocalTyped, SnapTyped
  <2>5. /\ sweep'.before = sweep.before /\ sweep'.qty = sweep.qty
        /\ sweep'.trouble = {} => sweep.trouble = {} /\ legs = book
    BY <2>1, DisturbedRecord
  <2>6. sweep'.trouble = {} => StartRests'
    BY <2>2, <2>5 DEF StartInv, StartRests, Reached
  <2>7. BookOk(sweep'.before)
    BY <2>5 DEF StartInv
  <2>8. sweep'.trouble = {} /\ pc' # "idle" => snap'.legs = sweep'.before
    BY <2>2, <2>4, <2>5 DEF StartInv
  <2> QED BY <2>2, <2>3, <2>4, <2>5, <2>6, <2>7, <2>8 DEF StartInv
<1>3. CASE Size
  <2>1. sweep' = sweep \/ (\E by : Disturbed(by))
    BY <1>3 DEF Size, SeeFree
  <2>2. price' = price /\ (Idle \/ UNCHANGED <<pc, snap>>) /\ pc \in Placements
    BY <1>3 DEF Size, exchange
  <2> QED BY <2>1, <2>2, SameStart DEF Idle, Placements
<1>4. CASE Place \/ PlaceAgain
  <2>1. \/ \E l : \E ok \in BOOLEAN : Send(l, ok)
        \/ UNCHANGED <<exchange, sweep>>
        \/ UNCHANGED exchange /\ Disturbed("call")
    BY <1>4 DEF Place, PlaceAgain
  <2>2. price' = price /\ (sweep' = sweep \/ (\E by : Disturbed(by)))
    BY <2>1, SendTyped DEF Send, exchange
  <2>3. Idle \/ (pc' # "read" /\ pc' # "idle" /\ snap' = snap)
    BY <1>4 DEF Place, PlaceAgain, Succeed, GiveUp, Placements
  <2>4. pc \in Placements
    BY <1>4 DEF Place, PlaceAgain
  <2> QED BY <2>2, <2>3, <2>4, SameStart DEF Idle, Placements
<1>5. CASE CancelLeg \/ AbortPartial \/ PlanRebuild \/ PlanSwap
  <2>1. \/ \E i : \E ok \in BOOLEAN : SendCancel(i, ok)
        \/ UNCHANGED <<exchange, sweep>>
    BY <1>5 DEF CancelLeg, AbortPartial, PlanRebuild, PlanSwap
  <2>2. price' = price /\ (sweep' = sweep \/ (\E by : Disturbed(by)))
    BY <2>1, SendCancelTyped DEF SendCancel, exchange
  <2>3. Idle \/ (pc' # "read" /\ pc' # "idle" /\ snap' = snap)
    BY <1>5 DEF CancelLeg, AbortPartial, PlanRebuild, PlanSwap
  <2>4. pc \notin {"idle", "read"}
    BY <1>5 DEF CancelLeg, AbortPartial, PlanRebuild, PlanSwap
  <2> QED BY <2>2, <2>3, <2>4, SameStart DEF Idle
<1>6. CASE RestoreTp \/ Demote \/ RestoreLast \/ RestoreSl
  <2>1. \E l : \E ok \in BOOLEAN : Send(l, ok)
    BY <1>6 DEF RestoreTp, Demote, RestoreLast, RestoreSl
  <2>2. price' = price /\ (sweep' = sweep \/ (\E by : Disturbed(by)))
    BY <2>1, SendTyped DEF Send
  <2>3. /\ Idle \/ (pc' # "read" /\ pc' # "idle" /\ snap' = snap)
        /\ pc \notin {"idle", "read"}
    BY <1>6 DEF RestoreTp, Demote, RestoreLast, RestoreSl
  <2> QED BY <2>2, <2>3, SameStart DEF Idle
<1>7. CASE PriceMoves \/ LegFills
  <2>1. /\ (Disturbed("price") /\ book' = book) \/ Disturbed("fill")
        /\ UNCHANGED <<pc, snap>>
    BY <1>7 DEF PriceMoves, LegFills, local, MoveTo, Fill
  <2>2. /\ sweep'.before = sweep.before /\ sweep'.qty = sweep.qty /\ sweep'.trouble # {}
        /\ "fill" \notin sweep'.trouble => "fill" \notin sweep.trouble /\ book' = book
    BY <2>1, DisturbedRecord
  <2>3. BookOk(sweep'.before)
    BY <2>2 DEF StartInv
  <2> QED BY <2>1, <2>2, <2>3 DEF StartInv
<1>8. CASE Abandon
  BY <1>8, SameStart DEF Abandon, exchange, Idle
<1>9. CASE SyncRow \/ SwapWindowEnds \/ UNCHANGED vars
  <2>1. UNCHANGED <<price, book, pc, snap, sweep>>
    BY <1>9 DEF SyncRow, SwapWindowEnds, vars, exchange, local, history
  <2>2. StartRests' <=> StartRests
    BY <2>1 DEF StartRests, Reached
  <2>3. BookOk(sweep'.before)
    BY <2>1 DEF StartInv
  <2> QED BY <2>1, <2>2, <2>3 DEF StartInv
<1> QED
  BY <1>1, <1>2, <1>3, <1>4, <1>5, <1>6, <1>7, <1>8, <1>9 DEF Next, Sweep, World

\* All of it: what every proof below starts from.
Ground == Account /\ LotsInv /\ StartInv

LEMMA GroundInit == Init => Ground
<1> SUFFICES ASSUME Init PROVE Ground
  OBVIOUS
<1>1. BookOk(book)
  <2>1. /\ IsFiniteSet(DOMAIN book)
        /\ \A i \in DOMAIN book : Accepted(book[i]) /\ book[i].qty % Step = 0
    BY GuardianAssumption DEF Init, GuardianAssumption
  <2>2. ASSUME NEW i \in DOMAIN book
        PROVE  book[i] \in Leg /\ Whole(book[i].qty)
    <3>1. book[i] \in Leg /\ book[i].qty \in Int /\ book[i].qty % Step = 0
      BY <2>1 DEF Accepted, Leg
    <3> DEFINE q == book[i].qty
    <3>2. q = (q \div Step) * Step /\ q \div Step \in Int
      <4>1. q \in Int /\ q % Step = 0 /\ Step \in Nat \ {0}
        BY <3>1, ExchangeAssumption DEF ExchangeAssumption
      <4> HIDE DEF q
      <4> QED BY <4>1, Z3
    <3> QED BY <3>1, <3>2 DEF Whole
  <2> QED BY <2>1, <2>2 DEF BookOk
<1>2. locked = [k \in Kinds |-> QtyOf(book, k)] /\ pc = "idle" /\ snap = NoSnap
      /\ sweep.before = NoLegs
  BY DEF Init
<1>3. Account
  BY <1>1, <1>2 DEF Account
<1>4. BookOk(snap.legs) /\ BookOk(sweep.before) /\ DOMAIN sweep.before = {}
  BY <1>2, NoLegsOk DEF NoSnap
<1> QED BY <1>2, <1>3, <1>4 DEF Ground, LotsInv, StartInv, StartRests, Placements

LEMMA GroundStep == TypeOK /\ LastInv /\ Ground /\ [Next]_vars => Ground'
BY AccountStep, LotsStep, StartStep DEF Ground

LEMMA Grounded == Spec => [](TypeOK /\ LastInv /\ Ground)
<1>1. Init => LastInv /\ Ground
  <2>1. Init => LastInv
    BY DEF Init, LastInv
  <2> QED BY <2>1, GroundInit
<1>2. TypeOK /\ LastInv /\ Ground /\ [Next]_vars => LastInv' /\ Ground'
  BY LastStep, GroundStep
<1> QED BY <1>1, <1>2, TypeCorrect, PTL DEF Spec

-----------------------------------------------------------------------------
(* A shaped book is never taken apart                                       *)

Shaped(b) == QtyOf(b, "oco") > 0 \/ (QtyOf(b, "tp") > 0 /\ QtyOf(b, "sl") > 0)

LegsKept == \A i \in DOMAIN sweep.before : i \in DOMAIN book /\ book[i] = sweep.before[i]

ShapedInv ==
    "fill" \notin sweep.trouble /\ Shaped(sweep.before) =>
        /\ pc \in {"idle", "read", "emergency", "sliceOco", "sliceTp"}
        /\ LegsKept

\* A cancel loop starts from a read that shows one kind of legs alone.
LEMMA DecideTears ==
  ASSUME TypeOK, NEW c \in [Kinds -> Int], NEW legs, Decide(c, legs)
  PROVE  /\ \/ pc' \in {"idle", "emergency", "sliceOco", "sliceTp"}
            \/ pc' = "cancelTp" /\ NoSl(c) /\ c["tp"] > 0
            \/ pc' = "cancelSl" /\ OnlySl(c) /\ c["tp"] <= 0
<1> USE DEF Decide, DecideBreached, DecideSlice, DecideLocked, Skip, Plan, CancelFirst,
            SwapAllowed
<1> QED OBVIOUS

LEMMA ReadOrdersShaped ==
  ASSUME TypeOK, Ground, ReadOrders, "fill" \notin sweep.trouble, Shaped(sweep.before)
  PROVE  pc' \in {"idle", "emergency", "sliceOco", "sliceTp"}
<1>1. PICK legs \in {book, NoLegs}, c \in {ListedCover(locked), NoCover} : Decide(c, legs)
  BY DEF ReadOrders
<1>2. c \in [Kinds -> Int]
  BY ListedCoverTyped DEF TypeOK, ExchangeTyped, NoCover
<1>3. book = sweep.before
  BY DEF ReadOrders, Ground, StartInv
<1>4. locked["oco"] > 0 \/ (locked["tp"] > 0 /\ locked["sl"] > 0)
  BY <1>3 DEF Ground, Account, Kinds, Shaped
<1>5. CASE c = NoCover
  <2>1. c["tp"] = 0 /\ c["sl"] = 0 /\ c["oco"] = 0
    BY <1>5 DEF NoCover, Kinds
  <2> QED BY <1>1, <1>2, <2>1, DecideTears DEF NoSl, OnlySl
<1>6. CASE c = ListedCover(locked)
  <2>1. c["tp"] = locked["tp"] /\ c["sl"] = locked["sl"] /\ c["oco"] = 2 * locked["oco"]
    BY <1>6 DEF ListedCover, TypeOK, ExchangeTyped, Kinds
  <2>2. locked["tp"] \in Nat /\ locked["sl"] \in Nat /\ locked["oco"] \in Nat
    BY AccountNat DEF Ground, Kinds
  <2> QED BY <1>1, <1>2, <1>4, <2>1, <2>2, DecideTears DEF NoSl, OnlySl
<1> QED BY <1>1, <1>5, <1>6

\* No step inside a sweep changes what it began with.
LEMMA StepRecord ==
  ASSUME [Next]_vars, ~StartSweep
  PROVE  sweep' = sweep \/ (\E by : Disturbed(by))
<1>1. (\E l : \E ok \in BOOLEAN : Send(l, ok)) => sweep' = sweep \/ Disturbed("call")
  BY DEF Send
<1>2. (\E i : \E ok \in BOOLEAN : SendCancel(i, ok)) => sweep' = sweep \/ Disturbed("call")
  BY DEF SendCancel
<1>3. CASE ReadOrders \/ Size \/ AbortPartial \/ PlanRebuild \/ PlanSwap
  BY <1>3 DEF ReadOrders, Size, SeeFree, AbortPartial, PlanRebuild, PlanSwap
<1>4. CASE Place \/ PlaceAgain
  BY <1>1, <1>4 DEF Place, PlaceAgain
<1>5. CASE CancelLeg
  BY <1>2, <1>5 DEF CancelLeg
<1>6. CASE RestoreTp \/ Demote \/ RestoreLast \/ RestoreSl
  BY <1>1, <1>6 DEF RestoreTp, Demote, RestoreLast, RestoreSl
<1>7. CASE World \/ UNCHANGED vars
  BY <1>7 DEF World, PriceMoves, LegFills, SyncRow, SwapWindowEnds, Abandon, vars, history
<1> QED BY <1>3, <1>4, <1>5, <1>6, <1>7 DEF Next, Sweep

LEMMA ShapedStep ==
  ASSUME TypeOK, LastInv, Ground, ShapedInv, [Next]_vars
  PROVE  ShapedInv'
<1> SUFFICES ASSUME "fill" \notin sweep'.trouble, Shaped(sweep'.before)
             PROVE  /\ pc' \in {"idle", "read", "emergency", "sliceOco", "sliceTp"}
                    /\ LegsKept'
  BY DEF ShapedInv, Shaped
<1>1. CASE StartSweep
  BY <1>1 DEF StartSweep, exchange, LegsKept
<1>2. CASE ~StartSweep
  <2>1. sweep' = sweep \/ (\E by : Disturbed(by))
    BY <1>2, StepRecord
  <2>2. /\ sweep'.before = sweep.before /\ "fill" \notin sweep.trouble
        /\ Shaped(sweep.before)
    BY <2>1, DisturbedRecord
  <2>3. pc \in {"idle", "read", "emergency", "sliceOco", "sliceTp"} /\ LegsKept
    BY <2>2 DEF ShapedInv
  <2>4. ~CancelLeg /\ ~LegFills
    <3>1. ~CancelLeg
      BY <2>3 DEF CancelLeg
    <3>2. ~Disturbed("fill")
      BY DisturbedRecord
    <3> QED BY <3>1, <3>2 DEF LegFills
  <2>5. LegsKept'
    BY <2>2, <2>3, <2>4, AccountStep DEF Ground, LegsKept, LegsStay
  <2>6. pc' \in {"idle", "read", "emergency", "sliceOco", "sliceTp"}
    <3>1. CASE ReadOrders
      BY <2>2, <3>1, ReadOrdersShaped
    <3>2. CASE Size
      BY <2>3, <3>2 DEF Size, Idle
    <3>3. CASE Place \/ PlaceAgain
      BY <2>3, <3>3 DEF Place, PlaceAgain, Succeed, GiveUp, Idle
    <3>4. CASE AbortPartial \/ PlanRebuild \/ PlanSwap \/ RestoreTp \/ Demote
               \/ RestoreLast \/ RestoreSl
      BY <2>3, <3>4 DEF AbortPartial, PlanRebuild, PlanSwap, RestoreTp, Demote,
                        RestoreLast, RestoreSl
    <3>5. CASE World \/ UNCHANGED vars
      BY <2>3, <3>5
      DEF World, PriceMoves, LegFills, SyncRow, SwapWindowEnds, Abandon, Idle, vars, local
    <3> QED BY <1>2, <2>4, <3>1, <3>2, <3>3, <3>4, <3>5 DEF Next, Sweep
  <2> QED BY <2>5, <2>6
<1> QED BY <1>1, <1>2

\* "An OCO, or a plain pair, is never taken apart": for every book, any number
\* of failing calls, moves of the price and deaths of the process in between,
\* the legs a sweep found in such a shape are on the book when it ends, unless
\* the market has served one.
THEOREM ShapesStand == Spec => []ShapedBookKept
<1>1. Init => ShapedInv
  <2> SUFFICES ASSUME Init PROVE ~Shaped(sweep.before)
    BY DEF ShapedInv
  <2>1. sweep.before = NoLegs /\ \A k : {i \in DOMAIN NoLegs : NoLegs[i].kind = k} = {}
    BY NoLegsOk DEF Init
  <2>2. \A k : QtyOf(sweep.before, k) = 0
    BY <2>1, QtyNone DEF QtyOf
  <2> QED BY <2>2 DEF Shaped
<1>2. TypeOK /\ LastInv /\ Ground /\ ShapedInv /\ [Next]_vars => ShapedInv'
  BY ShapedStep
<1>3. ShapedInv => ShapedBookKept
  BY DEF ShapedInv, ShapedBookKept, Shaped, LegsKept
<1> QED BY <1>1, <1>2, <1>3, Grounded, PTL DEF Spec

-----------------------------------------------------------------------------
(* The rescue ladder of a TP-only book                                      *)

\* The quantity behind some of the legs the sweep began with
LegQty(legs) == QtyIn(sweep.before, legs)

TpOnly == QtyOf(sweep.before, "tp") > 0 /\ SlLegs(sweep.before) = {}

\* The quantity of these legs is free, and with it under take-profits again
\* nothing is missing.
Backed(legs) ==
    /\ free >= LegQty(legs)
    /\ locked["tp"] + LegQty(legs) >= QtyOf(sweep.before, "tp")

Rescued == SlLegs(book) # {} \/ locked["tp"] >= QtyOf(sweep.before, "tp")

\* The legs the ladder has still to put back
Waiting == todo \cup {DemoteLeg}

LadderSafe ==
    /\ pc \notin SwapPhases
    /\ pc \notin TpBranch => Rescued
    /\ pc = "cancelTp" => todo \subseteq DOMAIN book /\ todo \cap gone = {} /\ Backed(gone)
    /\ pc = "rebuild" => /\ Backed(gone) /\ order.kind = "oco"
                         /\ stage = "size" => order.qty >= Step
    /\ pc \in {"restoreTp", "demote", "restoreLast"} =>
          /\ Backed(Waiting) /\ DemoteLeg \in gone \ todo
          /\ pc # "restoreTp" => todo = {}

RescueInv == sweep.trouble = {} /\ TpOnly => LadderSafe

\* An undisturbed step inside a sweep
CalmStep == sweep' = sweep /\ price' = price /\ sweep.trouble = {} /\ ~StartSweep

LEMMA CalmSteps ==
  ASSUME TypeOK, [Next]_vars, ~StartSweep, sweep'.trouble = {}
  PROVE  CalmStep /\ ~PriceMoves /\ ~LegFills /\ ~Abandon
<1>1. sweep' = sweep
  BY StepRecord, DisturbedRecord
<1>2. ~PriceMoves /\ ~LegFills /\ ~Abandon
  BY DisturbedLoud DEF PriceMoves, LegFills, Abandon
<1>3. price' = price
  <2>1. (\E l : \E ok \in BOOLEAN : Send(l, ok)) => price' = price
    BY SendTyped
  <2>2. (\E i : \E ok \in BOOLEAN : SendCancel(i, ok)) => price' = price
    BY SendCancelTyped
  <2>3. CASE ReadOrders \/ Size \/ AbortPartial \/ PlanRebuild \/ PlanSwap
    BY <2>3 DEF ReadOrders, Size, AbortPartial, PlanRebuild, PlanSwap, exchange
  <2>4. CASE Place \/ PlaceAgain
    BY <2>1, <2>4 DEF Place, PlaceAgain, exchange
  <2>5. CASE CancelLeg
    BY <2>2, <2>5 DEF CancelLeg
  <2>6. CASE RestoreTp \/ Demote \/ RestoreLast \/ RestoreSl
    BY <2>1, <2>6 DEF RestoreTp, Demote, RestoreLast, RestoreSl
  <2>7. CASE SyncRow \/ SwapWindowEnds \/ UNCHANGED vars
    BY <2>7 DEF SyncRow, SwapWindowEnds, vars, exchange
  <2> QED BY <1>2, <2>3, <2>4, <2>5, <2>6, <2>7 DEF Next, Sweep, World
<1> QED BY <1>1, <1>2, <1>3 DEF CalmStep

\* A leg of the old book whose quantity is free comes back to rest where it was,
\* if it is a take-profit, or a stop in the band.
LEMMA LegPlaceable ==
  ASSUME TypeOK, Ground, sweep.trouble = {}, NEW i \in DOMAIN sweep.before,
         sweep.before[i].qty <= free, sweep.before[i].kind # "oco",
         sweep.before[i].kind = "sl" => InBand(sweep.before[i].sl, price)
  PROVE  Placeable(sweep.before[i]) /\ ~Marketable(sweep.before[i])
<1> DEFINE l == sweep.before[i]
<1>1. l \in Leg /\ l.qty >= MinQty /\ Notional(l) >= MinNotional /\ ~Reached(l)
  BY DEF Ground, StartInv, StartRests, BookOk, Accepted
<1>2. price \in Nat /\ l.tp \in Nat /\ l.sl \in Nat
  BY <1>1, ExchangeAssumption DEF TypeOK, ExchangeTyped, Leg, ExchangeAssumption
<1>3. CASE l.kind = "sl"
  <2>1. l.sl < price /\ 100 * l.sl >= BandPct * price
    BY <1>1, <1>2, <1>3, BandLooser DEF Reached, HasSl
  <2> QED BY <1>1, <1>3, <2>1 DEF Placeable, Marketable, HasSl
<1>4. CASE l.kind = "tp"
  <2>1. price < l.tp
    BY <1>1, <1>2, <1>4 DEF Reached, HasTp
  <2> QED BY <1>1, <1>2, <1>4, <2>1 DEF Placeable, Marketable, HasSl
<1> QED BY <1>1, <1>3, <1>4 DEF Leg, Kinds

\* What is already proved
Known == TypeOK /\ LastInv /\ Ground /\ FloorInv

LEMMA TpLegs ==
  ASSUME TpOnly, NEW i \in DOMAIN sweep.before
  PROVE  sweep.before[i].kind = "tp" /\ ~HasSl(sweep.before[i])
BY DEF TpOnly, SlLegs, HasSl

\* One of these legs alone is a lot or more.
LEMMA LotFree ==
  ASSUME Known, NEW legs, legs \subseteq DOMAIN sweep.before, legs # {}, free >= LegQty(legs)
  PROVE  free \in Int /\ free >= Step /\ \A i \in legs : sweep.before[i].qty <= free
<1>1. BookOk(sweep.before) /\ free \in Int
  BY DEF Known, Ground, StartInv, TypeOK, ExchangeTyped
<1>2. ASSUME NEW i \in legs
      PROVE  sweep.before[i].qty <= LegQty(legs) /\ sweep.before[i].qty >= Step
  <2>1. LegQty(legs) = sweep.before[i].qty + LegQty(legs \ {i})
    BY <1>1, QtyTake DEF LegQty
  <2>2. LegQty(legs \ {i}) \in Nat
    BY <1>1, QtyBook DEF LegQty
  <2>3. sweep.before[i].qty \in Nat /\ sweep.before[i].qty >= MinQty
    BY <1>1 DEF BookOk, Accepted, Leg
  <2> QED BY <2>1, <2>2, <2>3, ExchangeAssumption DEF ExchangeAssumption
<1>3. LegQty(legs) \in Nat /\ Step \in Nat
  BY <1>1, QtyBook, ExchangeAssumption DEF LegQty, ExchangeAssumption
<1>4. \A i \in legs : sweep.before[i].qty \in Nat
  BY <1>1 DEF BookOk, Leg
<1> QED BY <1>1, <1>2, <1>3, <1>4

\* Sized from a free lot, a request keeps at least a lot.
LEMMA SizedLot ==
  ASSUME TypeOK, order.qty >= Step, free >= Step
  PROVE  Calibrate(order.qty, free) \in Int /\ Calibrate(order.qty, free) >= Step
         /\ ~(Calibrate(order.qty, free) <= 0)
<1>1. free \in Int /\ order.qty \in Int /\ Step \in Nat \ {0}
  BY ExchangeAssumption DEF TypeOK, ExchangeTyped, LocalTyped, ExchangeAssumption
<1>2. Calibrate(order.qty, free) \in Int /\ Calibrate(order.qty, free) >= Step
  BY <1>1, FloorStepInt, FloorStepLot DEF Calibrate
<1> QED BY <1>1, <1>2

LEMMA StartRescue ==
  ASSUME Known, StartSweep, TpOnly'
  PROVE  LadderSafe'
<1>1. /\ pc' = "read" /\ locked' = locked /\ sweep'.before = book
      /\ locked["tp"] = QtyOf(book, "tp") /\ QtyOf(book, "tp") \in Nat
  BY QtyBook DEF StartSweep, exchange, Known, Ground, Account, Kinds, QtyOf
<1> QED BY <1>1 DEF LadderSafe, SwapPhases, TpBranch, Rescued

LEMMA ReadOrdersRescue ==
  ASSUME Known, CalmStep, TpOnly, LadderSafe, ReadOrders
  PROVE  LadderSafe'
<1>1. PICK legs \in {book, NoLegs}, c \in {ListedCover(locked), NoCover} :
        /\ IF legs = book THEN NoFault /\ UNCHANGED sweep ELSE Fault /\ Disturbed("call")
        /\ c = IF legs = book THEN ListedCover(locked) ELSE NoCover
        /\ Decide(c, legs)
  BY DEF ReadOrders
<1>2. /\ pc = "read" /\ UNCHANGED exchange
      /\ gone = {} /\ free >= 0 /\ free \in Int
  BY DEF ReadOrders, Known, TypeOK, LocalTyped, FloorInv, BookInv, ExchangeTyped
<1>3. legs = book /\ c = ListedCover(locked)
  BY <1>1, DisturbedLoud DEF Known, CalmStep
<1>4. book = sweep.before
  BY <1>2 DEF Known, Ground, StartInv, CalmStep
<1>5. SlLegs(book) = {} /\ locked["tp"] >= QtyOf(sweep.before, "tp")
      /\ QtyOf(sweep.before, "tp") > 0
  BY <1>2, <1>4 DEF LadderSafe, TpBranch, Rescued, TpOnly
<1>6. c \in [Kinds -> Int] /\ c["tp"] = locked["tp"]
  BY <1>3, ListedCoverTyped DEF Known, TypeOK, ExchangeTyped, ListedCover, Kinds
<1>7. locked["tp"] \in Nat /\ QtyOf(sweep.before, "tp") \in Nat
  BY <1>4, AccountNat, QtyBook DEF Known, Ground, Account, Kinds, QtyOf
<1>8. pc' \in {"idle", "emergency", "sliceOco", "sliceTp", "cancelTp"}
  BY <1>1, <1>5, <1>6, <1>7, DecideTears DEF Known
<1>9. CASE pc' = "cancelTp"
  <2>1. gone' = {} /\ todo' \subseteq DOMAIN book
    BY <1>1, <1>2, <1>3, <1>9, DecideCancels
  <2>2. LegQty({}) = 0 /\ LegQty({})' = 0
    BY QtyNone DEF LegQty
  <2>3. Backed({})'
    BY <1>2, <1>5, <1>7, <2>2 DEF Backed, CalmStep, exchange
  <2>4. Backed(gone)'
    BY <2>1, <2>3 DEF Backed
  <2> QED BY <1>2, <1>9, <2>1, <2>4 DEF LadderSafe, SwapPhases, TpBranch, exchange
<1>10. CASE pc' # "cancelTp"
  BY <1>2, <1>5, <1>8, <1>10 DEF LadderSafe, SwapPhases, TpBranch, Rescued, CalmStep, exchange
<1> QED BY <1>9, <1>10

LEMMA SizeRescue ==
  ASSUME Known, CalmStep, TpOnly, LadderSafe, Size
  PROVE  LadderSafe'
<1>1. /\ pc \in Placements /\ stage = "size" /\ UNCHANGED exchange
      /\ sweep' = sweep /\ sweep.trouble = {}
  BY DEF Size, CalmStep
<1> DEFINE q == Calibrate(order.qty, free)
<1>2. IF q <= 0 \/ (pc \in {"sliceOco", "sliceTp"} /\ ~WorthPlacing(q, snap.px))
        THEN Idle
        ELSE /\ order' = [order EXCEPT !.qty = q]
             /\ stage' = "place"
             /\ UNCHANGED <<pc, snap, todo, gone>>
  BY <1>1 DEF Size, SeeFree, Disturbed, Known, TypeOK, HistoryTyped
<1>3. CASE pc # "rebuild"
  <2>1. pc \notin TpBranch /\ Rescued /\ pc \notin SwapPhases /\ pc' \notin TpBranch \cup SwapPhases
    BY <1>1, <1>2, <1>3 DEF LadderSafe, Placements, TpBranch, SwapPhases, Idle
  <2> QED BY <1>1, <2>1 DEF LadderSafe, Rescued, TpBranch, SwapPhases, exchange
<1>4. CASE pc = "rebuild"
  <2>1. Backed(gone) /\ order.kind = "oco" /\ order.qty >= Step /\ gone # {}
    BY <1>1, <1>4 DEF LadderSafe, Known, LastInv
  <2>2. gone \subseteq DOMAIN sweep.before
    BY <1>1, <1>4 DEF Known, TypeOK, LocalTyped, Ground, StartInv
  <2>3. free >= Step
    BY <2>1, <2>2, LotFree DEF Backed
  <2>4. ~(q <= 0)
    BY <2>1, <2>3, SizedLot DEF Known
  <2>5. order' = [order EXCEPT !.qty = q] /\ stage' = "place" /\ pc' = pc /\ gone' = gone
    BY <1>2, <1>4, <2>4
  <2>6. order'.kind = "oco"
    BY <2>1, <2>5 DEF Known, TypeOK, LocalTyped
  <2>7. Backed(gone)'
    BY <1>1, <2>1, <2>5 DEF Backed, LegQty, exchange
  <2> QED BY <1>4, <2>5, <2>6, <2>7 DEF LadderSafe, TpBranch, SwapPhases
<1> QED BY <1>3, <1>4

\* What a placement does while nothing disturbs it.
LEMMA PlacementCalm ==
  ASSUME Known, CalmStep, Place \/ PlaceAgain
  PROVE  \/ /\ Succeed
            /\ \E l : /\ l.kind = order.kind /\ l.qty <= free /\ l \in Leg
                      /\ l = order \/ (stage = "again" /\ l = Downgraded(free))
                      /\ free' = free - l.qty
                      /\ IF Marketable(l) THEN locked' = locked ELSE LocksMore(l)
                      /\ HasSl(l) => SlLegs(book') # {}
            /\ SlLegs(book) # {} => SlLegs(book') # {}
         \/ /\ UNCHANGED exchange
            /\ GiveUp \/ (stage' = "again" /\ UNCHANGED <<pc, snap, todo, gone, order>>)
<1>1. PICK l \in {order, Downgraded(free)}, ok \in BOOLEAN :
        \/ /\ Send(l, ok)
           /\ l = order \/ stage = "again"
           /\ IF ok THEN Succeed
              ELSE GiveUp \/ (stage' = "again" /\ UNCHANGED <<pc, snap, todo, gone, order>>)
        \/ GiveUp /\ UNCHANGED exchange
  BY DEF Place, PlaceAgain
<1>2. CASE GiveUp /\ UNCHANGED exchange
  BY <1>2
<1>3. CASE /\ Send(l, ok)
           /\ l = order \/ stage = "again"
           /\ IF ok THEN Succeed
              ELSE GiveUp \/ (stage' = "again" /\ UNCHANGED <<pc, snap, todo, gone, order>>)
  <2>1. pc \in Placements /\ TypeOK /\ Account /\ BookInv /\ sweep'.trouble = {}
    BY DEF Place, PlaceAgain, Known, Ground, FloorInv, CalmStep
  <2>2. Downgraded(free).qty = FloorStep(free) /\ Downgraded(free).kind = order.kind
    BY <2>1 DEF Downgraded, TypeOK, LocalTyped
  <2>3. Whole(order.qty) /\ Whole(Downgraded(free).qty)
    BY <2>1, <2>2, FloorStepWhole DEF Known, Ground, LotsInv, TypeOK, ExchangeTyped
  <2>4. /\ ok => /\ l \in Leg /\ l.qty <= free /\ free' = free - l.qty
                 /\ IF Marketable(l) THEN locked' = locked ELSE LocksMore(l)
        /\ ~ok => UNCHANGED exchange
    <3>1. Whole(l.qty)
      BY <2>3
    <3>2. ok => l \in Leg /\ l.qty <= free /\ free' = free - l.qty
      BY <1>3, <2>1, <3>1, SendAccount
    <3>3. ok => IF Marketable(l) THEN locked' = locked ELSE LocksMore(l)
      BY <1>3, <2>1, <3>1, SendAccount
    <3>4. ~ok => UNCHANGED exchange
      BY <1>3, <2>1, SendRefused
    <3> QED BY <3>2, <3>3, <3>4
  <2>5. /\ SlLegs(book) # {} => SlLegs(book') # {}
        /\ ok => (HasSl(l) => SlLegs(book') # {})
    BY <1>3, <2>1, SendFloor
  <2>6. l.kind = order.kind
    BY <2>2
  <2>7. CASE ok
    BY <1>3, <2>4, <2>5, <2>6, <2>7
  <2>8. CASE ~ok
    BY <1>3, <2>4, <2>8
  <2> QED BY <2>7, <2>8
<1> QED BY <1>1, <1>2, <1>3

LEMMA PlacementRescue ==
  ASSUME Known, CalmStep, TpOnly, LadderSafe, Place \/ PlaceAgain
  PROVE  LadderSafe'
<1>1. pc \in Placements /\ pc # "swap" /\ sweep' = sweep
  BY DEF Place, PlaceAgain, LadderSafe, SwapPhases, CalmStep
<1>2. CASE /\ Succeed
           /\ \E l : /\ l.kind = order.kind /\ l \in Leg
                     /\ IF Marketable(l) THEN locked' = locked ELSE LocksMore(l)
                     /\ HasSl(l) => SlLegs(book') # {}
           /\ SlLegs(book) # {} => SlLegs(book') # {}
  <2>1. PICK l : /\ l.kind = order.kind /\ l \in Leg
                 /\ IF Marketable(l) THEN locked' = locked ELSE LocksMore(l)
                 /\ HasSl(l) => SlLegs(book') # {}
    BY <1>2
  <2>2. pc' = "idle"
    BY <1>2 DEF Succeed, Idle
  <2>3. CASE pc = "rebuild"
    <3>1. SlLegs(book') # {}
      BY <2>1, <2>3 DEF LadderSafe, HasSl
    <3> QED BY <2>2, <3>1 DEF LadderSafe, Rescued, TpBranch, SwapPhases
  <2>4. CASE pc # "rebuild"
    <3>1. Rescued
      BY <1>1, <2>4 DEF LadderSafe, TpBranch, Placements
    <3>2. locked["tp"] \in Int /\ locked'["tp"] \in Int /\ locked'["tp"] >= locked["tp"]
      BY <2>1 DEF LocksMore, Kinds, Leg, Known, TypeOK, ExchangeTyped
    <3>3. QtyOf(sweep.before, "tp") \in Nat
      BY QtyBook DEF QtyOf, Known, Ground, StartInv
    <3>4. Rescued'
      BY <1>1, <1>2, <3>1, <3>2, <3>3 DEF Rescued
    <3> QED BY <2>2, <3>4 DEF LadderSafe, TpBranch, SwapPhases
  <2> QED BY <2>3, <2>4
<1>3. CASE UNCHANGED exchange /\ GiveUp /\ pc # "rebuild"
  <2>1. Rescued /\ pc' \in {"sliceTp", "idle"}
    BY <1>1, <1>3 DEF LadderSafe, TpBranch, Placements, GiveUp, Idle
  <2> QED BY <1>1, <1>3, <2>1 DEF LadderSafe, Rescued, TpBranch, SwapPhases, exchange
<1>4. CASE UNCHANGED exchange /\ GiveUp /\ pc = "rebuild"
  <2>1. /\ todo' = gone \ {DemoteLeg} /\ gone' = gone
        /\ pc' = IF todo' = {} THEN "demote" ELSE "restoreTp"
    BY <1>4 DEF GiveUp
  <2>2. DemoteLeg \in gone
    BY <1>4 DEF Known, LastInv, LastLeg, DemoteLeg
  <2>3. DemoteLeg' = DemoteLeg
    BY <2>1 DEF DemoteLeg
  <2>4. Waiting' = gone
    BY <2>1, <2>2, <2>3 DEF Waiting
  <2>5. Backed(gone)
    BY <1>4 DEF LadderSafe
  <2>6. Backed(Waiting)'
    BY <1>1, <1>4, <2>4, <2>5 DEF Backed, LegQty, exchange
  <2> QED BY <2>1, <2>2, <2>3, <2>6 DEF LadderSafe, TpBranch, SwapPhases
<1>5. CASE /\ UNCHANGED exchange /\ stage' = "again"
           /\ UNCHANGED <<pc, snap, todo, gone, order>>
  <2>1. CASE pc = "rebuild"
    <3>1. Backed(gone) /\ order.kind = "oco"
      BY <2>1 DEF LadderSafe
    <3>2. Backed(gone)'
      BY <1>1, <1>5, <3>1 DEF Backed, LegQty, exchange
    <3> QED BY <1>5, <2>1, <3>1, <3>2 DEF LadderSafe, TpBranch, SwapPhases
  <2>2. CASE pc # "rebuild"
    BY <1>1, <1>5, <2>2 DEF LadderSafe, Rescued, TpBranch, SwapPhases, Placements, exchange
  <2> QED BY <2>1, <2>2
<1> QED BY <1>2, <1>3, <1>4, <1>5, PlacementCalm

\* A leg the cancel loop takes off the book is free.
LEMMA CancelCalm ==
  ASSUME Known, CalmStep, CancelLeg
  PROVE  \E i \in todo :
           /\ todo' = todo \ {i} /\ UNCHANGED <<pc, stage, snap, order>>
           /\ gone' = gone \cup {i}
           /\ i \in DOMAIN sweep.before
           /\ \/ /\ i \in DOMAIN book /\ book[i] = sweep.before[i]
                 /\ DOMAIN book' = DOMAIN book \ {i}
                 /\ free' = free + sweep.before[i].qty
                 /\ \A k \in Kinds : locked'[k] = locked[k] -
                       (IF sweep.before[i].kind = k THEN sweep.before[i].qty ELSE 0)
              \/ i \notin DOMAIN book /\ UNCHANGED exchange
<1>1. PICK i \in todo, counted \in BOOLEAN :
        /\ SendCancel(i, counted)
        /\ todo' = todo \ {i}
        /\ gone' = IF counted THEN gone \cup {i} ELSE gone
        /\ UNCHANGED <<pc, stage, snap, order>>
  BY DEF CancelLeg
<1>2. pc \in {"cancelTp", "cancelSl"} /\ sweep.trouble = {} /\ sweep' = sweep
  BY DEF CancelLeg, CalmStep
<1>3. counted /\ (Cancel(i) \/ (i \notin DOMAIN book /\ UNCHANGED exchange))
  BY <1>1, <1>2, DisturbedLoud DEF Known, SendCancel
<1>4. snap.legs = sweep.before /\ i \in DOMAIN sweep.before
  BY <1>1, <1>2 DEF Known, Ground, StartInv, TypeOK, LocalTyped
<1>5. CASE Cancel(i)
  <2>1. i \in DOMAIN book /\ book[i] = sweep.before[i]
    BY <1>2, <1>4, <1>5 DEF Cancel, Known, FloorInv, CalmInv
  <2>2. DOMAIN book' = DOMAIN book \ {i}
    BY <1>5 DEF Cancel, Remove
  <2>3. /\ free' = free + book[i].qty
        /\ \A k \in Kinds :
              locked'[k] = locked[k] - (IF book[i].kind = k THEN book[i].qty ELSE 0)
    BY <1>5, CancelAccount DEF Known, Ground, TypeOK
  <2> QED BY <1>1, <1>3, <1>4, <2>1, <2>2, <2>3
<1> QED BY <1>1, <1>3, <1>4, <1>5

LEMMA CancelRescue ==
  ASSUME Known, CalmStep, TpOnly, LadderSafe, CancelLeg
  PROVE  LadderSafe'
<1>1. pc = "cancelTp" /\ sweep' = sweep
  BY DEF CancelLeg, CalmStep, LadderSafe, SwapPhases
<1>2. todo \subseteq DOMAIN book /\ todo \cap gone = {} /\ Backed(gone)
  BY <1>1 DEF LadderSafe
<1>3. PICK i \in todo :
        /\ todo' = todo \ {i} /\ UNCHANGED <<pc, stage, snap, order>>
        /\ gone' = gone \cup {i}
        /\ i \in DOMAIN sweep.before
        /\ \/ /\ i \in DOMAIN book /\ book[i] = sweep.before[i]
              /\ DOMAIN book' = DOMAIN book \ {i}
              /\ free' = free + sweep.before[i].qty
              /\ \A k \in Kinds : locked'[k] = locked[k] -
                    (IF sweep.before[i].kind = k THEN sweep.before[i].qty ELSE 0)
           \/ i \notin DOMAIN book /\ UNCHANGED exchange
  BY CancelCalm
<1>4. /\ DOMAIN book' = DOMAIN book \ {i}
      /\ free' = free + sweep.before[i].qty
      /\ locked'["tp"] = locked["tp"] - sweep.before[i].qty
  BY <1>2, <1>3, TpLegs DEF Kinds
<1>5. todo' \subseteq DOMAIN book' /\ todo' \cap gone' = {}
  BY <1>2, <1>3, <1>4
<1>6. gone \subseteq DOMAIN sweep.before /\ BookOk(sweep.before)
  BY <1>1 DEF CalmStep, Known, Ground, StartInv, TypeOK, LocalTyped
<1>7. LegQty(gone \cup {i}) = sweep.before[i].qty + LegQty(gone)
  <2>1. gone \cup {i} \subseteq DOMAIN sweep.before /\ (gone \cup {i}) \ {i} = gone
    BY <1>2, <1>3, <1>6
  <2>2. QtyIn(sweep.before, gone \cup {i})
          = sweep.before[i].qty + QtyIn(sweep.before, (gone \cup {i}) \ {i})
    BY <1>6, <2>1, QtyTake
  <2> QED BY <2>1, <2>2 DEF LegQty
<1>8. /\ LegQty(gone) \in Nat /\ sweep.before[i].qty \in Nat
      /\ QtyOf(sweep.before, "tp") \in Nat /\ free \in Int /\ locked["tp"] \in Int
  BY <1>3, <1>6, QtyBook
  DEF LegQty, QtyOf, BookOk, Leg, Known, TypeOK, ExchangeTyped, Kinds
<1>9. LegQty(gone)' = LegQty(gone \cup {i})
  BY <1>1, <1>3 DEF LegQty
<1>10. Backed(gone)'
  BY <1>1, <1>2, <1>4, <1>7, <1>8, <1>9 DEF Backed
<1> QED BY <1>1, <1>3, <1>5, <1>10 DEF LadderSafe, TpBranch, SwapPhases

LEMMA LoopEndsRescue ==
  ASSUME Known, CalmStep, TpOnly, LadderSafe, AbortPartial \/ PlanRebuild \/ PlanSwap
  PROVE  LadderSafe'
<1>1. /\ pc = "cancelTp" /\ sweep' = sweep /\ sweep.trouble = {} /\ UNCHANGED exchange
      /\ todo = {}
  BY DEF AbortPartial, PlanRebuild, PlanSwap, CalmStep, LadderSafe, SwapPhases
<1>2. CalmInv
  BY <1>1 DEF Known, FloorInv
<1>3. gone = Targets
  BY <1>1, <1>2 DEF CalmInv, Visited
<1>4. PlanRebuild
  BY <1>1, <1>3 DEF AbortPartial, PlanSwap
<1>5. /\ pc' = "rebuild" /\ gone' = gone
      /\ order'.kind = "oco" /\ order'.qty = FloorStep(snap.qty)
  BY <1>4 DEF PlanRebuild
<1>6. order'.qty >= Step
  BY <1>1, <1>2, <1>5, FloorStepLot DEF CalmInv, Known, TypeOK, LocalTyped, SnapTyped
<1>7. Backed(gone)
  BY <1>1 DEF LadderSafe
<1>8. Backed(gone)'
  BY <1>1, <1>5, <1>7 DEF Backed, LegQty, exchange
<1> QED BY <1>5, <1>6, <1>8 DEF LadderSafe, TpBranch, SwapPhases

\* A leg of the old book that is free comes back, unless the sweep is disturbed.
LEMMA LegBack ==
  ASSUME Known, CalmStep, NEW i \in DOMAIN sweep.before,
         sweep.before[i].qty <= free, sweep.before[i].kind # "oco",
         sweep.before[i].kind = "sl" => InBand(sweep.before[i].sl, price),
         NEW ok \in BOOLEAN, Send(sweep.before[i], ok)
  PROVE  /\ ok
         /\ free' = free - sweep.before[i].qty
         /\ LocksMore(sweep.before[i])
<1> DEFINE l == sweep.before[i]
<1>1. TypeOK /\ Ground /\ Account /\ sweep.trouble = {} /\ sweep'.trouble = {}
  BY DEF Known, Ground, CalmStep
<1>2. Placeable(l) /\ ~Marketable(l) /\ l.kind # "oco"
  BY <1>1, LegPlaceable
<1>3. Whole(l.qty)
  BY <1>1 DEF Ground, StartInv, BookOk
<1>4. Send(l, ok)
  OBVIOUS
<1> HIDE DEF l
<1>5. ok
  BY <1>1, <1>2, <1>3, <1>4, SendAccount
<1>6. free' = free - l.qty /\ (IF Marketable(l) THEN locked' = locked ELSE LocksMore(l))
  BY <1>1, <1>3, <1>4, <1>5, SendAccount
<1> QED BY <1>2, <1>5, <1>6 DEF l

\* One of the waiting legs is put back.
LEMMA PutBackRescue ==
  ASSUME Known, CalmStep, TpOnly, NEW legs, legs \subseteq DOMAIN sweep.before,
         Backed(legs), NEW i \in legs, NEW ok \in BOOLEAN, Send(sweep.before[i], ok)
  PROVE  Backed(legs \ {i})'
<1>1. BookOk(sweep.before) /\ sweep.before[i].kind = "tp" /\ free >= LegQty(legs)
  BY TpLegs DEF Backed, Known, Ground, StartInv
<1>2. sweep.before[i].qty <= free /\ free \in Int
  BY <1>1, LotFree
<1>3. free' = free - sweep.before[i].qty /\ LocksMore(sweep.before[i])
  BY <1>1, <1>2, LegBack
<1>4. locked'["tp"] = locked["tp"] + sweep.before[i].qty
  BY <1>1, <1>3 DEF LocksMore, Kinds
<1>5. LegQty(legs) = sweep.before[i].qty + LegQty(legs \ {i})
  BY <1>1, QtyTake DEF LegQty
<1>6. /\ LegQty(legs \ {i}) \in Nat /\ sweep.before[i].qty \in Nat
      /\ QtyOf(sweep.before, "tp") \in Nat /\ locked["tp"] \in Int
  BY <1>1, QtyBook DEF LegQty, QtyOf, BookOk, Leg, Known, TypeOK, ExchangeTyped, Kinds
<1>7. LegQty(legs \ {i})' = LegQty(legs \ {i})
      /\ QtyOf(sweep'.before, "tp") = QtyOf(sweep.before, "tp")
  BY DEF CalmStep, LegQty
<1>8. free' >= LegQty(legs \ {i})
  BY <1>1, <1>2, <1>3, <1>5, <1>6
<1>9. locked'["tp"] + LegQty(legs \ {i}) >= QtyOf(sweep.before, "tp")
  BY <1>4, <1>5, <1>6 DEF Backed
<1> QED BY <1>7, <1>8, <1>9 DEF Backed

LEMMA RestoreTpRescue ==
  ASSUME Known, CalmStep, TpOnly, LadderSafe, RestoreTp
  PROVE  LadderSafe'
<1>1. PICK i \in todo, ok \in BOOLEAN : Send(snap.legs[i], ok) /\ todo' = todo \ {i}
  BY DEF RestoreTp
<1>2. /\ pc = "restoreTp" /\ gone' = gone
      /\ pc' = IF todo' = {} THEN "demote" ELSE "restoreTp"
  BY DEF RestoreTp
<1>3. snap.legs = sweep.before /\ Waiting \subseteq DOMAIN sweep.before
      /\ Backed(Waiting) /\ DemoteLeg \in gone \ todo
  BY <1>2 DEF LadderSafe, Waiting, Known, Ground, StartInv, CalmStep, TypeOK, LocalTyped
<1>4. PICK legs \in SUBSET DOMAIN sweep.before : legs = Waiting
  BY <1>3
<1>5. Backed(legs \ {i})'
  <2>1. Backed(legs) /\ i \in legs
    BY <1>3, <1>4 DEF Waiting
  <2> QED BY <1>1, <1>3, <2>1, PutBackRescue
<1>6. DemoteLeg' = DemoteLeg /\ Waiting' = legs \ {i}
  <2>1. DemoteLeg' = DemoteLeg
    BY <1>2 DEF DemoteLeg
  <2> QED BY <1>1, <1>3, <1>4, <2>1 DEF Waiting
<1>7. Backed(Waiting)'
  BY <1>5, <1>6 DEF Backed, LegQty
<1>8. DemoteLeg' \in gone' \ todo'
  BY <1>1, <1>2, <1>3, <1>6
<1> QED BY <1>2, <1>7, <1>8 DEF LadderSafe, TpBranch, SwapPhases

LEMMA DemoteRescue ==
  ASSUME Known, CalmStep, TpOnly, LadderSafe, Demote
  PROVE  LadderSafe'
<1>1. PICK ok \in BOOLEAN :
        /\ Send(Demoted, ok)
        /\ IF ok THEN Idle ELSE pc' = "restoreLast" /\ UNCHANGED <<todo, gone>>
  BY DEF Demote
<1>2. CASE ok
  <2>1. SlLegs(book') # {}
    BY <1>1, <1>2, SendFloor DEF Known, FloorInv, Demoted, HasSl, CalmStep
  <2> QED BY <1>1, <1>2, <2>1 DEF Idle, LadderSafe, Rescued, TpBranch, SwapPhases
<1>3. CASE ~ok
  <2>1. UNCHANGED exchange /\ sweep' = sweep
    BY <1>1, <1>3, SendRefused DEF Known, CalmStep
  <2>2. Backed(Waiting) /\ DemoteLeg \in gone \ todo /\ todo = {}
    BY DEF Demote, LadderSafe
  <2>3. pc' = "restoreLast" /\ todo' = todo /\ gone' = gone
    BY <1>1, <1>3
  <2>4. DemoteLeg' = DemoteLeg
    BY <2>3 DEF DemoteLeg
  <2>5. Waiting' = Waiting
    BY <2>3, <2>4 DEF Waiting
  <2>6. Backed(Waiting)'
    BY <2>1, <2>2, <2>5 DEF Backed, LegQty, exchange
  <2> QED BY <2>2, <2>3, <2>4, <2>6 DEF LadderSafe, TpBranch, SwapPhases
<1> QED BY <1>2, <1>3

LEMMA RestoreLastRescue ==
  ASSUME Known, CalmStep, TpOnly, LadderSafe, RestoreLast
  PROVE  LadderSafe'
<1>1. PICK ok \in BOOLEAN : Send(snap.legs[DemoteLeg], ok)
  BY DEF RestoreLast
<1>2. pc = "restoreLast" /\ Idle
  BY DEF RestoreLast
<1>3. /\ snap.legs = sweep.before /\ Waiting \subseteq DOMAIN sweep.before
      /\ Backed(Waiting) /\ Waiting = {DemoteLeg}
  BY <1>2 DEF LadderSafe, Waiting, Known, Ground, StartInv, CalmStep, TypeOK, LocalTyped
<1>4. PICK i \in DOMAIN sweep.before : i = DemoteLeg
  BY <1>3
<1>5. Backed({i} \ {i})' /\ LegQty({i} \ {i})' = 0
  <2>1. Backed({i})
    BY <1>3, <1>4
  <2>2. {i} \ {i} = {}
    OBVIOUS
  <2> QED BY <1>1, <1>3, <1>4, <2>1, <2>2, PutBackRescue, QtyNone DEF LegQty
<1>6. \A k \in Kinds : locked'[k] \in Int
  BY NextTyped DEF Known, TypeOK, ExchangeTyped, Next, Sweep
<1>7. locked'["tp"] >= QtyOf(sweep'.before, "tp")
  BY <1>4, <1>5, <1>6 DEF Backed, Kinds
<1> QED BY <1>2, <1>7 DEF Idle, LadderSafe, Rescued, TpBranch, SwapPhases

LEMMA RescueStep ==
  ASSUME Known, RescueInv, [Next]_vars
  PROVE  RescueInv'
<1> SUFFICES ASSUME sweep'.trouble = {}, TpOnly' PROVE LadderSafe'
  BY DEF RescueInv
<1>1. CASE StartSweep
  BY <1>1, StartRescue
<1>2. CASE ~StartSweep
  <2>1. CalmStep /\ ~PriceMoves /\ ~LegFills /\ ~Abandon
    BY <1>2, CalmSteps DEF Known
  <2>2. TpOnly /\ LadderSafe
    BY <2>1 DEF CalmStep, TpOnly, RescueInv
  <2>3. CASE RestoreSl
    BY <2>2, <2>3 DEF RestoreSl, LadderSafe, SwapPhases
  <2>4. CASE SyncRow \/ SwapWindowEnds \/ UNCHANGED vars
    <3>1. UNCHANGED <<free, locked, book, pc, stage, todo, gone, order, sweep>>
      BY <2>4 DEF SyncRow, SwapWindowEnds, vars, exchange, local, history
    <3>2. DemoteLeg' = DemoteLeg /\ Waiting' = Waiting
      BY <3>1 DEF DemoteLeg, Waiting
    <3>3. \A legs : Backed(legs) => Backed(legs)'
      BY <3>1 DEF Backed, LegQty
    <3>4. (Backed(Waiting) => Backed(Waiting)') /\ (Backed(gone) => Backed(gone)')
      BY <3>1, <3>2, <3>3 DEF Backed, LegQty
    <3> QED BY <2>2, <3>1, <3>2, <3>4 DEF LadderSafe, Rescued, SlLegs
  <2> QED
    BY <1>2, <2>1, <2>2, <2>3, <2>4, ReadOrdersRescue, SizeRescue, PlacementRescue,
       CancelRescue, LoopEndsRescue, RestoreTpRescue, DemoteRescue, RestoreLastRescue
    DEF Next, Sweep, World
<1> QED BY <1>1, <1>2

LEMMA AllKnown == Spec => []Known
<1> QED BY Grounded, InitFloor, FloorStepInv, PTL DEF Spec, Known

\* "Last leg as plain SL; on failure restore": for every lot size, book and
\* price, a sweep of a TP-only book that nothing disturbs ends with a stop on
\* the book or with no less under take-profits than it found, however often the
\* exchange refuses the OCO.
THEOREM LadderComplete == Spec => []RescueComplete
<1>1. Init => RescueInv
  <2> SUFFICES ASSUME Init PROVE ~TpOnly
    BY DEF RescueInv
  <2>1. sweep.before = NoLegs /\ {i \in DOMAIN NoLegs : NoLegs[i].kind = "tp"} = {}
    BY NoLegsOk DEF Init
  <2>2. QtyOf(sweep.before, "tp") = 0
    BY <2>1, QtyNone DEF QtyOf
  <2> QED BY <2>2 DEF TpOnly
<1>2. Known /\ RescueInv /\ [Next]_vars => RescueInv'
  BY RescueStep
<1>3. RescueInv => RescueComplete
  BY DEF RescueInv, LadderSafe, TpBranch, Rescued, TpOnly, RescueComplete, Calm
<1> QED BY <1>1, <1>2, <1>3, AllKnown, PTL DEF Spec

-----------------------------------------------------------------------------
(* An undisturbed sweep takes nothing off the downside                      *)

Stops == SlLegs(sweep.before)

\* The old legs the exchange takes back, and whether enough is stopped.
Back == {i \in Stops : BackInBand(i)}
Down == locked["oco"] + locked["sl"]
Enough == Down >= LegQty(Back) \/ Down >= FloorStep(sweep.qty)

\* In the branch of the swap the old book is stops alone: what the loop freed is
\* free until the OCO, of at least that quantity, or the old stops are placed.
StopsSafe ==
    /\ pc \notin TpBranch
    /\ pc \notin SwapPhases \cup {"idle"} => Down >= LegQty(Stops)
    /\ pc = "idle" => Enough
    /\ pc \in SwapPhases => \A i \in DOMAIN sweep.before : sweep.before[i].kind = "sl"
    /\ pc = "cancelSl" => /\ todo \subseteq DOMAIN book /\ todo \cap gone = {}
                          /\ free >= LegQty(gone) /\ Down + LegQty(gone) >= LegQty(Stops)
    /\ pc = "swap" => /\ gone = DOMAIN sweep.before /\ free >= LegQty(Stops)
                      /\ order.kind = "oco"
                      /\ order.qty = FloorStep(sweep.qty) \/ order.qty >= LegQty(Stops)
    /\ pc = "restoreSl" => /\ free >= LegQty(todo)
                           /\ Down + LegQty(todo \cap Back) >= LegQty(Back)

CoverInv == sweep.trouble = {} /\ Stops # {} => StopsSafe

\* Rounding down to lots keeps whole lots.
LEMMA FloorStepKeeps ==
  ASSUME NEW x \in Int, Whole(x), NEW q \in Int, x <= q
  PROVE  x <= FloorStep(q) /\ FloorStep(x) = x
<1>1. PICK m \in Int : x = m * Step
  BY DEF Whole
<1>2. Step \in Nat \ {0}
  BY ExchangeAssumption DEF ExchangeAssumption
<1>3. x \div Step = m
  BY <1>1, <1>2, Z3
<1> DEFINE d == q \div Step
<1>4. d \in Int /\ d * Step <= q /\ q < (d + 1) * Step
  BY <1>2, Z3
<1> HIDE DEF d
<1>5. m <= d
  <2>1. m * Step < (d + 1) * Step
    BY <1>1, <1>2, <1>4
  <2>2. m < d + 1
    BY <1>2, <1>4, <2>1, Z3
  <2> QED BY <1>4, <2>2
<1>6. m * Step <= d * Step
  BY <1>2, <1>4, <1>5, Z3
<1> QED BY <1>1, <1>3, <1>6 DEF FloorStep, d

LEMMA StopsNat ==
  ASSUME Known
  PROVE  /\ Down \in Nat /\ LegQty(Stops) \in Nat /\ LegQty(Back) \in Nat
         /\ LegQty(Back) <= LegQty(Stops)
         /\ Whole(LegQty(Stops)) /\ free \in Nat
         /\ Stops \subseteq DOMAIN sweep.before /\ BookOk(sweep.before)
<1>1. BookOk(sweep.before) /\ Stops \subseteq DOMAIN sweep.before /\ Back \subseteq Stops
  BY DEF Known, Ground, StartInv, Stops, SlLegs, Back
<1>2. Down \in Nat
  BY AccountNat DEF Down, Known, Ground, Kinds
<1>3. LegQty(Stops) \in Nat /\ LegQty(Back) \in Nat /\ Whole(LegQty(Stops))
  BY <1>1, QtyBook, QtyWhole DEF LegQty
<1>4. LegQty(Back) <= LegQty(Stops)
  BY <1>1, QtyPart DEF LegQty
<1>5. free \in Nat
  BY DEF Known, TypeOK, ExchangeTyped, FloorInv, BookInv
<1> QED BY <1>1, <1>2, <1>3, <1>4, <1>5

\* What is locked under stops is the quantity of the legs that have one.
LEMMA DownIs ==
  ASSUME Account
  PROVE  Down = QtyIn(book, SlLegs(book))
<1> DEFINE f == [j \in DOMAIN book |-> book[j].qty]
           S == {i \in DOMAIN book : book[i].kind = "oco"}
           T == {i \in DOMAIN book : book[i].kind = "sl"}
<1>1. SlLegs(book) = S \cup T /\ S \cap T = {}
  BY DEF SlLegs, HasSl, Account, BookOk, Leg, Kinds
<1>2. IsFiniteSet(S) /\ IsFiniteSet(T) /\ \A j \in S \cup T : f[j] \in Int
  <2>1. SlLegs(book) \subseteq DOMAIN book /\ S \subseteq DOMAIN book /\ T \subseteq DOMAIN book
    BY DEF SlLegs
  <2>2. \A j \in DOMAIN book : f[j] \in Int
    BY DEF Account, BookOk, Leg
  <2>3. IsFiniteSet(S) /\ IsFiniteSet(T)
    BY <2>1, FS_Subset DEF Account, BookOk
  <2> QED BY <2>1, <2>2, <2>3
<1>3. /\ locked["oco"] = SumFunctionOnSet(f, S) /\ locked["sl"] = SumFunctionOnSet(f, T)
      /\ QtyIn(book, SlLegs(book)) = SumFunctionOnSet(f, SlLegs(book))
  BY DEF Account, Kinds, QtyOf, QtyIn
<1> HIDE DEF f, S, T
<1>4. SumFunctionOnSet(f, S \cup T) = SumFunctionOnSet(f, S) + SumFunctionOnSet(f, T)
  BY <1>1, <1>2, SumUnion
<1> QED BY <1>1, <1>3, <1>4 DEF Down

\* A leg of the old book, counted apart.
LEMMA LegTake ==
  ASSUME Known, NEW legs, legs \subseteq DOMAIN sweep.before, NEW i \in legs
  PROVE  /\ LegQty(legs) = sweep.before[i].qty + LegQty(legs \ {i})
         /\ LegQty(legs \ {i}) \in Nat /\ sweep.before[i].qty \in Nat
         /\ sweep.before[i].qty >= Step
<1>1. BookOk(sweep.before) /\ legs \ {i} \subseteq DOMAIN sweep.before
  BY DEF Known, Ground, StartInv
<1>2. sweep.before[i].qty \in Nat /\ sweep.before[i].qty >= MinQty
  BY <1>1 DEF BookOk, Accepted, Leg
<1> QED BY <1>1, <1>2, QtyTake, QtyBook, ExchangeAssumption DEF LegQty, ExchangeAssumption

LEMMA StartCover ==
  ASSUME Known, StartSweep
  PROVE  StopsSafe'
<1>1. pc' = "read" /\ locked' = locked /\ sweep'.before = book
  BY DEF StartSweep, exchange
<1>2. Down' = LegQty(Stops)' /\ Down \in Nat
  BY <1>1, DownIs, StopsNat DEF Known, Ground, Down, LegQty, Stops
<1>3. Down' >= LegQty(Stops)'
  BY <1>1, <1>2 DEF Down
<1> QED BY <1>1, <1>3 DEF StopsSafe, SwapPhases, TpBranch

\* A step that leaves the exchange alone outside the branch of the swap
LEMMA QuietCover ==
  ASSUME Known, CalmStep, StopsSafe, pc \notin SwapPhases \cup {"idle"},
         pc' \notin SwapPhases \cup TpBranch, Down' >= Down, Down' \in Int
  PROVE  StopsSafe'
<1>1. /\ LegQty(Stops)' = LegQty(Stops) /\ LegQty(Back)' = LegQty(Back)
      /\ Down >= LegQty(Stops)
  BY DEF CalmStep, LegQty, Stops, Back, BackInBand, StopsSafe
<1>2. Down' >= LegQty(Stops)' /\ Down' >= LegQty(Back)'
  BY <1>1, StopsNat
<1> QED BY <1>2 DEF StopsSafe, Enough, SwapPhases

LEMMA ReadOrdersCover ==
  ASSUME Known, CalmStep, Stops # {}, StopsSafe, ReadOrders
  PROVE  StopsSafe'
<1>1. PICK legs \in {book, NoLegs}, c \in {ListedCover(locked), NoCover} :
        /\ IF legs = book THEN NoFault /\ UNCHANGED sweep ELSE Fault /\ Disturbed("call")
        /\ c = IF legs = book THEN ListedCover(locked) ELSE NoCover
        /\ Decide(c, legs)
  BY DEF ReadOrders
<1>2. pc = "read" /\ UNCHANGED exchange /\ gone = {}
  BY DEF ReadOrders, Known, TypeOK, LocalTyped
<1>3. legs = book /\ c = ListedCover(locked)
  BY <1>1, DisturbedLoud DEF Known, CalmStep
<1>4. book = sweep.before /\ Account
  BY <1>2 DEF Known, Ground, StartInv, CalmStep
<1>5. /\ c \in [Kinds -> Int] /\ c["tp"] = locked["tp"] /\ c["sl"] = locked["sl"]
      /\ c["oco"] = 2 * locked["oco"]
  BY <1>3, ListedCoverTyped DEF Known, TypeOK, ExchangeTyped, ListedCover, Kinds
<1>6. locked["tp"] \in Nat /\ locked["sl"] \in Nat /\ locked["oco"] \in Nat
  BY <1>4, AccountNat DEF Kinds
<1>7. ~NoSl(c)
  <2>1. Down # 0
    BY <1>4, DownIs, StopsNat, QtyBook DEF Stops
  <2> QED BY <1>5, <1>6, <2>1 DEF NoSl, Down
<1>8. \/ pc' \in {"idle", "emergency", "sliceOco", "sliceTp"}
      \/ pc' = "cancelSl" /\ OnlySl(c) /\ c["tp"] <= 0
  BY <1>1, <1>5, <1>7, DecideTears DEF Known
<1>9. Down' = Down /\ Down \in Nat /\ LegQty(Stops)' = LegQty(Stops)
  BY <1>2, StopsNat DEF exchange, Down, LegQty, Stops, CalmStep
<1>10. CASE pc' = "cancelSl"
  <2>1. locked["tp"] = 0 /\ locked["oco"] = 0
    BY <1>5, <1>6, <1>7, <1>8, <1>10 DEF OnlySl
  <2>2. \A i \in DOMAIN book : book[i].kind = "sl"
    <3>1. QtyOf(book, "tp") = 0 /\ QtyOf(book, "oco") = 0
      BY <1>4, <2>1 DEF Account, Kinds
    <3>2. {i \in DOMAIN book : book[i].kind = "tp"} = {}
          /\ {i \in DOMAIN book : book[i].kind = "oco"} = {}
      <4>1. \A k : {i \in DOMAIN book : book[i].kind = k} \subseteq DOMAIN book
        OBVIOUS
      <4> QED BY <1>4, <3>1, <4>1, QtyBook DEF QtyOf, Account
    <3> QED BY <1>4, <3>2 DEF Account, BookOk, Leg, Kinds
  <2>3. gone' = {} /\ todo' \subseteq DOMAIN book
    BY <1>1, <1>2, <1>3, <1>10, DecideCancels
  <2>4. LegQty(gone)' = 0
    BY <2>3, QtyNone DEF LegQty
  <2>5. free' = free /\ free \in Nat /\ Down >= LegQty(Stops)
    BY <1>2, StopsNat DEF exchange, StopsSafe, SwapPhases
  <2>6. /\ free' >= LegQty(gone)' /\ Down' + LegQty(gone)' >= LegQty(Stops)'
        /\ todo' \subseteq DOMAIN book' /\ todo' \cap gone' = {}
    BY <1>2, <1>9, <2>3, <2>4, <2>5 DEF exchange
  <2>7. \A i \in DOMAIN sweep'.before : sweep'.before[i].kind = "sl"
    BY <1>4, <2>2 DEF CalmStep
  <2> QED BY <1>10, <2>6, <2>7 DEF StopsSafe, SwapPhases, TpBranch
<1>11. CASE pc' # "cancelSl"
  BY <1>2, <1>8, <1>9, <1>11, QuietCover DEF SwapPhases, TpBranch
<1> QED BY <1>10, <1>11

\* A lot freed, or the row's quantity, is what the swap goes on with.
LEMMA SizeCover ==
  ASSUME Known, CalmStep, StopsSafe, Size
  PROVE  StopsSafe'
<1>1. /\ pc \in Placements /\ stage = "size" /\ UNCHANGED exchange
      /\ sweep' = sweep /\ sweep.trouble = {}
  BY DEF Size, CalmStep
<1> DEFINE q == Calibrate(order.qty, free)
<1>2. IF q <= 0 \/ (pc \in {"sliceOco", "sliceTp"} /\ ~WorthPlacing(q, snap.px))
        THEN Idle
        ELSE /\ order' = [order EXCEPT !.qty = q]
             /\ stage' = "place"
             /\ UNCHANGED <<pc, snap, todo, gone>>
  BY <1>1 DEF Size, SeeFree, Disturbed, Known, TypeOK, HistoryTyped
<1>3. CASE pc # "swap"
  <2>1. pc \notin SwapPhases \cup {"idle"} /\ pc' \notin SwapPhases \cup TpBranch
    BY <1>1, <1>2, <1>3 DEF StopsSafe, Placements, TpBranch, SwapPhases, Idle
  <2>2. Down' = Down /\ Down \in Nat
    BY <1>1, StopsNat DEF exchange, Down
  <2> QED BY <2>1, <2>2, QuietCover
<1>4. CASE pc = "swap"
  <2>1. /\ gone = DOMAIN sweep.before /\ free >= LegQty(Stops)
        /\ order.kind = "oco"
        /\ order.qty = FloorStep(sweep.qty) \/ order.qty >= LegQty(Stops)
        /\ \A i \in DOMAIN sweep.before : sweep.before[i].kind = "sl"
    BY <1>4 DEF StopsSafe, SwapPhases
  <2>2. order.qty >= Step /\ free >= Step /\ order.qty \in Int /\ free \in Int
        /\ LegQty(Stops) \in Nat /\ Whole(LegQty(Stops)) /\ Whole(order.qty)
    <3>1. PICK b \in DOMAIN snap.legs : b \in gone /\ Freed(b) /\ order.qty >= Step
      BY <1>1, <1>4 DEF Known, FloorInv, CalmInv, SwapSafe, SwapPhases
    <3>2. b \in DOMAIN sweep.before /\ snap.legs = sweep.before
      BY <1>1, <1>4, <2>1, <3>1 DEF Known, Ground, StartInv
    <3>3. sweep.before[b].qty \in Nat /\ sweep.before[b].qty >= Step /\ Step \in Nat
      BY <3>2, LegTake, ExchangeAssumption DEF ExchangeAssumption
    <3>4. order.qty \in Int /\ free \in Int /\ Whole(order.qty)
      BY <1>1 DEF Known, TypeOK, LocalTyped, ExchangeTyped, Ground, LotsInv
    <3> QED BY <3>1, <3>2, <3>3, <3>4, StopsNat DEF Freed
  <2>3. q \in Int /\ ~(q <= 0)
    BY <2>2, SizedLot DEF Known
  <2>4. q = order.qty \/ q >= LegQty(Stops)
    <3>1. CASE free > 0 /\ free < order.qty
      BY <2>1, <2>2, <3>1, FloorStepKeeps DEF Calibrate
    <3>2. CASE ~(free > 0 /\ free < order.qty)
      BY <2>2, <3>2, FloorStepKeeps DEF Calibrate
    <3> QED BY <3>1, <3>2
  <2> HIDE DEF q
  <2>5. order' = [order EXCEPT !.qty = q] /\ stage' = "place" /\ pc' = pc /\ gone' = gone
    BY <1>2, <1>4, <2>3
  <2>6. order'.kind = "oco" /\ order'.qty = q
    BY <2>1, <2>5 DEF Known, TypeOK, LocalTyped
  <2>7. LegQty(Stops)' = LegQty(Stops) /\ FloorStep(sweep'.qty) = FloorStep(sweep.qty)
    BY <1>1 DEF LegQty, Stops
  <2>8. order'.qty = FloorStep(sweep'.qty) \/ order'.qty >= LegQty(Stops)'
    BY <2>1, <2>4, <2>6, <2>7
  <2>9. free' >= LegQty(Stops)'
    BY <1>1, <2>1, <2>7 DEF exchange
  <2> QED
    BY <1>1, <1>4, <2>1, <2>5, <2>6, <2>8, <2>9 DEF StopsSafe, SwapPhases, TpBranch
<1> QED BY <1>3, <1>4

\* The swapped OCO stands for the old stops or for the whole row.
LEMMA SwapStands ==
  ASSUME Known, CalmStep, StopsSafe, pc = "swap", NEW l,
         l.kind = order.kind, l.qty <= free, l \in Leg,
         l = order \/ l = Downgraded(free),
         IF Marketable(l) THEN locked' = locked ELSE LocksMore(l)
  PROVE  Enough'
<1>1. /\ free >= LegQty(Stops) /\ order.kind = "oco"
      /\ order.qty = FloorStep(sweep.qty) \/ order.qty >= LegQty(Stops)
  BY DEF StopsSafe
<1>2. LocksMore(l) /\ l.kind = "oco" /\ l.qty \in Nat
  BY <1>1 DEF Marketable, Leg
<1>3. Down' = Down + l.qty /\ Down \in Nat
  <2>1. /\ locked'["oco"] = locked["oco"] + l.qty /\ locked'["sl"] = locked["sl"] + 0
        /\ locked["oco"] \in Int /\ locked["sl"] \in Int
    BY <1>2 DEF LocksMore, Kinds, Known, TypeOK, ExchangeTyped
  <2> QED BY <1>2, <2>1, StopsNat DEF Down
<1>4. l.qty = FloorStep(sweep.qty) \/ l.qty >= LegQty(Stops)
  <2>1. CASE l = order
    BY <1>1, <2>1
  <2>2. CASE l = Downgraded(free)
    <3>1. l.qty = FloorStep(free)
      BY <2>2 DEF Downgraded, Known, TypeOK, LocalTyped
    <3>2. LegQty(Stops) <= FloorStep(free)
      BY <1>1, StopsNat, FloorStepKeeps
    <3> QED BY <1>2, <3>1, <3>2, StopsNat
  <2> QED BY <2>1, <2>2
<1>5. /\ FloorStep(sweep'.qty) = FloorStep(sweep.qty) /\ LegQty(Back)' = LegQty(Back)
  BY DEF CalmStep, LegQty, Back, Stops, BackInBand
<1>6. Down' >= LegQty(Back)' \/ Down' >= FloorStep(sweep'.qty)
  <2>1. CASE l.qty = FloorStep(sweep.qty)
    BY <1>2, <1>3, <1>5, <2>1
  <2>2. CASE l.qty >= LegQty(Stops)
    BY <1>2, <1>3, <1>5, <2>2, StopsNat
  <2> QED BY <1>4, <2>1, <2>2
<1> QED BY <1>6 DEF Enough

LEMMA PlacementCover ==
  ASSUME Known, CalmStep, StopsSafe, Place \/ PlaceAgain
  PROVE  StopsSafe'
<1>1. pc \in Placements
  BY DEF Place, PlaceAgain
<1>2. /\ LegQty(Stops)' = LegQty(Stops) /\ LegQty(Back)' = LegQty(Back)
      /\ FloorStep(sweep'.qty) = FloorStep(sweep.qty) /\ sweep' = sweep
  BY DEF CalmStep, LegQty, Stops, Back, BackInBand
<1>3. Down \in Nat
  BY StopsNat
<1>4. CASE /\ Succeed
           /\ \E l : /\ l.kind = order.kind /\ l.qty <= free /\ l \in Leg
                     /\ l = order \/ (stage = "again" /\ l = Downgraded(free))
                     /\ IF Marketable(l) THEN locked' = locked ELSE LocksMore(l)
  <2>1. PICK l : /\ l.kind = order.kind /\ l.qty <= free /\ l \in Leg
                 /\ l = order \/ (stage = "again" /\ l = Downgraded(free))
                 /\ IF Marketable(l) THEN locked' = locked ELSE LocksMore(l)
    BY <1>4
  <2>2. pc' = "idle"
    BY <1>4 DEF Succeed, Idle
  <2>3. CASE pc = "swap"
    <3>1. Enough'
      BY <2>1, <2>3, SwapStands
    <3> QED BY <2>2, <3>1 DEF StopsSafe, SwapPhases, TpBranch
  <2>4. CASE pc # "swap"
    <3>1. Down' \in Int /\ Down' >= Down
      <4>1. l.qty \in Nat /\ locked["oco"] \in Int /\ locked["sl"] \in Int
        BY <2>1 DEF Leg, Known, TypeOK, ExchangeTyped, Kinds
      <4>2. \/ locked' = locked
            \/ /\ locked'["oco"] = locked["oco"] + (IF l.kind = "oco" THEN l.qty ELSE 0)
               /\ locked'["sl"] = locked["sl"] + (IF l.kind = "sl" THEN l.qty ELSE 0)
        BY <2>1 DEF LocksMore, Kinds
      <4> QED BY <1>3, <4>1, <4>2 DEF Down
    <3> QED BY <1>1, <2>2, <2>4, <3>1, QuietCover DEF SwapPhases, TpBranch, Placements
  <2> QED BY <2>3, <2>4
<1>5. CASE UNCHANGED exchange /\ GiveUp /\ pc = "swap"
  <2>1. pc' = "restoreSl" /\ todo' = gone
    BY <1>5 DEF GiveUp
  <2>2. /\ gone = DOMAIN sweep.before /\ free >= LegQty(Stops)
        /\ \A i \in DOMAIN sweep.before : sweep.before[i].kind = "sl"
    BY <1>5 DEF StopsSafe, SwapPhases
  <2>3. todo' = Stops /\ Back \subseteq Stops
    BY <2>1, <2>2 DEF Stops, SlLegs, HasSl, Back
  <2>4. todo' \cap Back' = Back
    BY <1>2, <2>3 DEF CalmStep, Back, Stops, BackInBand
  <2>5. LegQty(todo)' = LegQty(Stops) /\ LegQty(todo \cap Back)' = LegQty(Back)
    BY <1>2, <2>3, <2>4 DEF LegQty
  <2>6. free' >= LegQty(todo)'
    BY <1>5, <2>2, <2>5 DEF exchange
  <2>7. Down' + LegQty(todo \cap Back)' >= LegQty(Back)'
    <3>1. Down' = Down
      BY <1>5 DEF exchange, Down
    <3> QED BY <1>2, <1>3, <2>5, <3>1, StopsNat
  <2> QED BY <1>2, <2>1, <2>2, <2>6, <2>7 DEF StopsSafe, SwapPhases, TpBranch
<1>6. CASE UNCHANGED exchange /\ GiveUp /\ pc # "swap"
  <2>1. pc' \notin SwapPhases \cup TpBranch /\ pc \notin SwapPhases \cup {"idle"}
    BY <1>1, <1>6 DEF GiveUp, Idle, SwapPhases, TpBranch, Placements, StopsSafe
  <2>2. Down' = Down
    BY <1>6 DEF exchange, Down
  <2> QED BY <1>3, <2>1, <2>2, QuietCover
<1>7. CASE UNCHANGED exchange /\ stage' = "again" /\ UNCHANGED <<pc, snap, todo, gone, order>>
  <2>1. Down' = Down /\ free' = free
    BY <1>7 DEF exchange, Down
  <2>2. CASE pc = "swap"
    BY <1>2, <1>7, <2>1, <2>2 DEF StopsSafe, SwapPhases, TpBranch
  <2>3. CASE pc # "swap"
    BY <1>1, <1>3, <1>7, <2>1, <2>3, QuietCover DEF StopsSafe, SwapPhases, TpBranch, Placements
  <2> QED BY <2>2, <2>3
<1> QED BY <1>4, <1>5, <1>6, <1>7, PlacementCalm

LEMMA CancelCover ==
  ASSUME Known, CalmStep, StopsSafe, CancelLeg
  PROVE  StopsSafe'
<1>1. pc = "cancelSl" /\ sweep' = sweep
  BY DEF CancelLeg, CalmStep, StopsSafe, TpBranch
<1>2. /\ todo \subseteq DOMAIN book /\ todo \cap gone = {}
      /\ free >= LegQty(gone) /\ Down + LegQty(gone) >= LegQty(Stops)
      /\ \A i \in DOMAIN sweep.before : sweep.before[i].kind = "sl"
  BY <1>1 DEF StopsSafe, SwapPhases
<1>3. PICK i \in todo :
        /\ todo' = todo \ {i} /\ UNCHANGED <<pc, stage, snap, order>>
        /\ gone' = gone \cup {i}
        /\ i \in DOMAIN sweep.before
        /\ \/ /\ i \in DOMAIN book /\ book[i] = sweep.before[i]
              /\ DOMAIN book' = DOMAIN book \ {i}
              /\ free' = free + sweep.before[i].qty
              /\ \A k \in Kinds : locked'[k] = locked[k] -
                    (IF sweep.before[i].kind = k THEN sweep.before[i].qty ELSE 0)
           \/ i \notin DOMAIN book /\ UNCHANGED exchange
  BY CancelCalm
<1>4. /\ DOMAIN book' = DOMAIN book \ {i}
      /\ free' = free + sweep.before[i].qty
      /\ locked'["sl"] = locked["sl"] - sweep.before[i].qty
      /\ locked'["oco"] = locked["oco"] - 0
  BY <1>2, <1>3 DEF Kinds
<1>5. todo' \subseteq DOMAIN book' /\ todo' \cap gone' = {}
  BY <1>2, <1>3, <1>4
<1>6. LegQty(gone \cup {i}) = sweep.before[i].qty + LegQty(gone)
      /\ LegQty(gone) \in Nat /\ sweep.before[i].qty \in Nat
  <2>1. gone \subseteq DOMAIN sweep.before
    BY <1>1 DEF CalmStep, Known, Ground, StartInv, TypeOK, LocalTyped
  <2>2. gone \cup {i} \subseteq DOMAIN sweep.before /\ (gone \cup {i}) \ {i} = gone
    BY <1>2, <1>3, <2>1
  <2>3. i \in gone \cup {i}
    OBVIOUS
  <2> DEFINE all == gone \cup {i}
  <2>4. LegQty(all) = sweep.before[i].qty + LegQty(all \ {i})
        /\ LegQty(all \ {i}) \in Nat /\ sweep.before[i].qty \in Nat
    <3>1. all \subseteq DOMAIN sweep.before /\ i \in all
      BY <2>2
    <3> HIDE DEF all
    <3> QED BY <3>1, LegTake
  <2> QED BY <2>2, <2>4
<1>7. /\ free \in Int /\ locked["sl"] \in Int /\ locked["oco"] \in Int
      /\ LegQty(Stops) \in Nat
  BY StopsNat DEF Known, TypeOK, ExchangeTyped, Kinds
<1>8. LegQty(gone)' = LegQty(gone \cup {i}) /\ LegQty(Stops)' = LegQty(Stops)
  BY <1>1, <1>3 DEF LegQty, Stops
<1>9. free' >= LegQty(gone)'
  BY <1>2, <1>4, <1>6, <1>7, <1>8
<1>10. Down' + LegQty(gone)' >= LegQty(Stops)'
  BY <1>2, <1>4, <1>6, <1>7, <1>8 DEF Down
<1>11. \A j \in DOMAIN sweep'.before : sweep'.before[j].kind = "sl"
  BY <1>1, <1>2
<1> QED BY <1>1, <1>3, <1>5, <1>9, <1>10, <1>11 DEF StopsSafe, SwapPhases, TpBranch

LEMMA LoopEndsCover ==
  ASSUME Known, CalmStep, StopsSafe, AbortPartial \/ PlanRebuild \/ PlanSwap
  PROVE  StopsSafe'
<1>1. /\ pc = "cancelSl" /\ sweep' = sweep /\ sweep.trouble = {} /\ UNCHANGED exchange
      /\ todo = {}
  BY DEF AbortPartial, PlanRebuild, PlanSwap, CalmStep, StopsSafe, TpBranch
<1>2. CalmInv /\ snap.legs = sweep.before /\ snap.qty = sweep.qty
  BY <1>1 DEF Known, FloorInv, Ground, StartInv
<1>3. gone = Targets
  BY <1>1, <1>2 DEF CalmInv, Visited
<1>4. PlanSwap
  BY <1>1, <1>3 DEF AbortPartial, PlanRebuild
<1>5. /\ \A i \in DOMAIN sweep.before : sweep.before[i].kind = "sl"
      /\ free >= LegQty(gone)
  BY <1>1 DEF StopsSafe, SwapPhases
<1>6. gone = DOMAIN sweep.before /\ Stops = DOMAIN sweep.before
  BY <1>1, <1>2, <1>3, <1>5 DEF Targets, Stops, SlLegs, HasSl
<1>7. /\ pc' = "swap" /\ gone' = gone
      /\ order'.kind = "oco" /\ order'.qty = FloorStep(sweep.qty)
  BY <1>2, <1>4 DEF PlanSwap
<1>8. free' >= LegQty(Stops)'
  BY <1>1, <1>5, <1>6 DEF LegQty, Stops, exchange
<1> QED BY <1>1, <1>5, <1>6, <1>7, <1>8 DEF StopsSafe, SwapPhases, TpBranch

\* One of the old stops comes back, or was not one the exchange takes.
LEMMA StopBack ==
  ASSUME Known, CalmStep, NEW legs, legs \subseteq DOMAIN sweep.before,
         free >= LegQty(legs), Down + LegQty(legs \cap Back) >= LegQty(Back),
         NEW i \in legs, sweep.before[i].kind = "sl",
         NEW ok \in BOOLEAN, Send(sweep.before[i], ok)
  PROVE  /\ free' >= LegQty(legs \ {i})
         /\ Down' + LegQty((legs \ {i}) \cap Back) >= LegQty(Back)
<1> DEFINE l == sweep.before[i]
           rest == legs \ {i}
<1>1. LegQty(legs) = l.qty + LegQty(rest) /\ LegQty(rest) \in Nat /\ l.qty \in Nat
  BY LegTake
<1>2. /\ Down \in Nat /\ LegQty(Back) \in Nat /\ free \in Nat
      /\ locked["oco"] \in Int /\ locked["sl"] \in Int
  BY StopsNat DEF Known, TypeOK, ExchangeTyped, Kinds
<1>3. l.qty <= free
  BY <1>1, <1>2
<1>4. CASE InBand(l.sl, price)
  <2>1. ok /\ free' = free - l.qty /\ LocksMore(l)
    BY <1>3, <1>4, LegBack
  <2>2. Down' = Down + l.qty
    BY <1>1, <1>2, <2>1 DEF LocksMore, Kinds, Down
  <2>3. i \in legs \cap Back /\ legs \cap Back \subseteq DOMAIN sweep.before
        /\ (legs \cap Back) \ {i} = rest \cap Back
    BY <1>4 DEF Back, Stops, SlLegs, HasSl, BackInBand
  <2>4. LegQty(legs \cap Back) = l.qty + LegQty(rest \cap Back)
        /\ LegQty(rest \cap Back) \in Nat
    <3> DEFINE both == legs \cap Back
    <3>1. both \subseteq DOMAIN sweep.before /\ i \in both
      BY <2>3
    <3> HIDE DEF both, rest
    <3>2. LegQty(both) = sweep.before[i].qty + LegQty(both \ {i}) /\ LegQty(both \ {i}) \in Nat
      BY <3>1, LegTake
    <3> QED BY <2>3, <3>2 DEF both
  <2> HIDE DEF l, rest
  <2>5. free' >= LegQty(rest)
    BY <1>1, <1>2, <2>1
  <2>6. Down' + LegQty(rest \cap Back) >= LegQty(Back)
    BY <1>1, <1>2, <2>2, <2>4
  <2> QED BY <2>5, <2>6 DEF rest
<1>5. CASE ~InBand(l.sl, price)
  <2>1. rest \cap Back = legs \cap Back
    BY <1>5 DEF Back, BackInBand
  <2>2. LegQty(legs \cap Back) \in Nat
    <3>1. legs \cap Back \subseteq DOMAIN sweep.before /\ BookOk(sweep.before)
      BY StopsNat
    <3> QED BY <3>1, QtyBook DEF LegQty
  <2>3. CASE ok
    <3>1. TypeOK /\ Account /\ Whole(l.qty) /\ sweep'.trouble = {}
      BY DEF Known, Ground, StartInv, BookOk, CalmStep
    <3>2. free' = free - l.qty /\ (IF Marketable(l) THEN locked' = locked ELSE LocksMore(l))
      BY <2>3, <3>1, SendAccount
    <3>3. LocksMore(l)
      BY <3>2 DEF Marketable
    <3>4. Down' = Down + l.qty
      BY <1>1, <1>2, <3>3 DEF LocksMore, Kinds, Down
    <3> HIDE DEF l, rest
    <3>5. free' >= LegQty(rest)
      BY <1>1, <1>2, <3>2
    <3>6. Down' + LegQty(legs \cap Back) >= LegQty(Back)
      BY <1>1, <1>2, <2>2, <3>4
    <3>7. Down' + LegQty(rest \cap Back) >= LegQty(Back)
      BY <2>1, <3>6
    <3> QED BY <3>5, <3>7 DEF rest
  <2>4. CASE ~ok
    <3>1. UNCHANGED exchange
      BY <2>4, SendRefused DEF Known, CalmStep
    <3>2. free' = free /\ Down' = Down
      BY <3>1 DEF exchange, Down
    <3> HIDE DEF l, rest
    <3>3. free' >= LegQty(rest)
      BY <1>1, <1>2, <3>2
    <3>4. Down' + LegQty(rest \cap Back) >= LegQty(Back)
      BY <2>1, <3>2
    <3> QED BY <3>3, <3>4 DEF rest
  <2> QED BY <2>3, <2>4
<1> QED BY <1>4, <1>5

LEMMA RestoreSlCover ==
  ASSUME Known, CalmStep, StopsSafe, RestoreSl
  PROVE  StopsSafe'
<1>1. PICK i \in todo, ok \in BOOLEAN :
        /\ Send(snap.legs[i], ok)
        /\ IF todo = {i} THEN Idle ELSE todo' = todo \ {i} /\ pc' = pc
  BY DEF RestoreSl
<1>2. pc = "restoreSl" /\ sweep' = sweep /\ sweep.trouble = {}
  BY DEF RestoreSl, CalmStep
<1>3. snap.legs = sweep.before /\ todo \subseteq DOMAIN sweep.before
  BY <1>2 DEF Known, Ground, StartInv, TypeOK, LocalTyped
<1>4. PICK legs \in SUBSET DOMAIN sweep.before : legs = todo
  BY <1>3
<1>5. /\ free >= LegQty(legs) /\ Down + LegQty(legs \cap Back) >= LegQty(Back)
      /\ \A j \in DOMAIN sweep.before : sweep.before[j].kind = "sl"
  BY <1>2, <1>4 DEF StopsSafe, SwapPhases
<1>6. free' >= LegQty(legs \ {i}) /\ Down' + LegQty((legs \ {i}) \cap Back) >= LegQty(Back)
  BY <1>1, <1>3, <1>4, <1>5, StopBack
<1>7. /\ LegQty(Back)' = LegQty(Back) /\ Back' = Back
      /\ \A S : QtyIn(sweep'.before, S) = LegQty(S)
  BY DEF CalmStep, LegQty, Stops, Back, BackInBand
<1>8. CASE todo = {i}
  <2>1. (legs \ {i}) \cap Back = {}
    BY <1>4, <1>8
  <2>2. LegQty((legs \ {i}) \cap Back) = 0
    BY <2>1, QtyNone DEF LegQty
  <2>3. pc' = "idle" /\ Down' \in Int
    <3>1. Idle
      BY <1>1, <1>8
    <3>2. TypeOK'
      BY NextTyped DEF Known, Next, Sweep
    <3> QED BY <3>1, <3>2 DEF Idle, TypeOK, ExchangeTyped, Kinds, Down
  <2>4. Down' >= LegQty(Back)'
    BY <1>6, <1>7, <2>2, <2>3
  <2> QED BY <2>3, <2>4 DEF StopsSafe, SwapPhases, TpBranch, Enough
<1>9. CASE todo # {i}
  <2>1. todo' = legs \ {i} /\ pc' = pc
    BY <1>1, <1>4, <1>9
  <2>2. LegQty(todo)' = LegQty(legs \ {i}) /\ LegQty(todo \cap Back)' = LegQty((legs \ {i}) \cap Back)
    BY <1>7, <2>1 DEF LegQty
  <2>3. free' >= LegQty(todo)' /\ Down' + LegQty(todo \cap Back)' >= LegQty(Back)'
    BY <1>6, <1>7, <2>2
  <2> QED BY <1>2, <1>5, <2>1, <2>3 DEF StopsSafe, SwapPhases, TpBranch
<1> QED BY <1>8, <1>9

LEMMA CoverStep ==
  ASSUME Known, CoverInv, [Next]_vars
  PROVE  CoverInv'
<1> SUFFICES ASSUME sweep'.trouble = {}, Stops' # {} PROVE StopsSafe'
  BY DEF CoverInv
<1>1. CASE StartSweep
  BY <1>1, StartCover
<1>2. CASE ~StartSweep
  <2>1. CalmStep /\ ~PriceMoves /\ ~LegFills /\ ~Abandon
    BY <1>2, CalmSteps DEF Known
  <2>2. Stops # {} /\ StopsSafe
    BY <2>1 DEF CalmStep, Stops, CoverInv
  <2>3. CASE RestoreTp \/ Demote \/ RestoreLast
    BY <2>2, <2>3 DEF RestoreTp, Demote, RestoreLast, StopsSafe, TpBranch
  <2>4. CASE SyncRow \/ SwapWindowEnds \/ UNCHANGED vars
    <3>1. UNCHANGED <<free, locked, book, pc, stage, todo, gone, order, sweep, price>>
      BY <2>4 DEF SyncRow, SwapWindowEnds, vars, exchange, local, history
    <3>2. /\ Stops' = Stops /\ Back' = Back /\ Down' = Down
          /\ \A S : QtyIn(sweep'.before, S) = LegQty(S)
      BY <3>1 DEF Stops, Back, BackInBand, Down, LegQty
    <3>3. /\ LegQty(Stops)' = LegQty(Stops) /\ LegQty(Back)' = LegQty(Back)
          /\ LegQty(gone)' = LegQty(gone) /\ LegQty(todo)' = LegQty(todo)
          /\ LegQty(todo \cap Back)' = LegQty(todo \cap Back)
      BY <3>1, <3>2 DEF LegQty
    <3> QED BY <2>2, <3>1, <3>2, <3>3 DEF StopsSafe, Enough
  <2> QED
    BY <1>2, <2>1, <2>2, <2>3, <2>4, ReadOrdersCover, SizeCover, PlacementCover,
       CancelCover, LoopEndsCover, RestoreSlCover
    DEF Next, Sweep, World
<1> QED BY <1>1, <1>2

\* And what it leaves under stops is no less than it found, counting of the old
\* legs those the exchange takes back, or than the row: for every lot size, band,
\* book and price, and although the exchange may refuse every OCO.
THEOREM DownsideKept == Spec => []CoverKept
<1>1. Init => CoverInv
  <2>1. Init => Stops = {}
    BY NoLegsOk DEF Init, Stops, SlLegs
  <2> QED BY <2>1 DEF CoverInv
<1>2. Known /\ CoverInv /\ [Next]_vars => CoverInv'
  BY CoverStep
<1>3. Known /\ CoverInv => CoverKept
  <2> SUFFICES ASSUME Known, CoverInv, Calm, Stops # {}
               PROVE  \/ locked["oco"] + locked["sl"] >= LegQty(Back)
                      \/ locked["oco"] + locked["sl"] >= FloorStep(sweep.qty)
    BY DEF CoverKept, Stops, Back, LegQty
  <2> QED BY DEF CoverInv, StopsSafe, Enough, Down, Calm
<1> QED BY <1>1, <1>2, <1>3, AllKnown, PTL DEF Spec
=============================================================================
