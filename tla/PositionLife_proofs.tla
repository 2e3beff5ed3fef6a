------------------------- MODULE PositionLife_proofs -------------------------
(***************************************************************************)
(* A position's life for all prices, sizes and bounds: its first tranche is *)
(* sold once, its records name orders there are, what its ladder reports of *)
(* its stops is so, an exit puts a stop behind what it leaves, and moving a *)
(* stop never costs the protection, however the market, failing and unheard *)
(* requests and a dying process come in between.                            *)
(***************************************************************************)
EXTENDS PositionLife, SumTheorems, FiniteSetTheorems, TLAPS

ExitFields == {"at", "kind", "pct", "want", "px", "todo", "q", "end"}
MarkFields == {"first", "cover", "calm", "faults", "tranche"}

\* The records the argument is about have their fields.
Fields ==
    /\ DOMAIN exit = Procs
    /\ \A p \in Procs : DOMAIN exit[p] = ExitFields
    /\ DOMAIN mark = MarkFields

\* A tranche is remembered for a position there was, and while it is the one
\* held, the mark in the database says so: what evaluate_one looks at.
Remembered ==
    /\ life \in Nat /\ mark.tranche \in 0 .. life
    /\ mark.tranche = life => banked = life

\* So a decision to sell a first tranche stands for a position none was sold
\* of, from the decision to the booking.
Undecided == exit["scan"].kind = "tp_partial" => mark.tranche = 0 \/ mark.tranche # life

\* The panel sells everything: it never remembers a tranche.
PanelSellsAll == exit["panel"].pct = 100

TrancheInv == Fields /\ Remembered /\ Undecided /\ PanelSellsAll

-----------------------------------------------------------------------------

\* What a step of the exit chain may do to a decision: keep it or drop it.
KeepsDecision(me) ==
    /\ DOMAIN exit' = Procs
    /\ \A p \in Procs : DOMAIN exit'[p] = ExitFields
    /\ \A p \in Procs \ {me} : exit'[p] = exit[p]
    /\ exit'[me].kind \in {exit[me].kind, "none"}
    /\ exit'[me].pct \in {exit[me].pct, 100}

LEMMA RestingRecord ==
    /\ DOMAIN Resting = ExitFields /\ Resting.kind = "none" /\ Resting.pct = 100
BY DEF Resting, ExitFields

LEMMA GoKeeps ==
    ASSUME NEW me \in Procs, NEW a, Fields, Go(me, a)
    PROVE  KeepsDecision(me)
BY DEF Go, Fields, KeepsDecision, ExitFields

LEMMA EndKeeps ==
    ASSUME NEW me \in Procs, NEW how, Fields, End(me, how)
    PROVE  KeepsDecision(me)
BY DEF End, Fields, KeepsDecision, ExitFields, Resting

\* Every call of the chain keeps the decision or drops it; before the booking
\* the mark in the database is left alone or set.
LEMMA ChainKeeps ==
    ASSUME NEW me \in Procs, Fields, ExecuteExit(me)
    PROVE  KeepsDecision(me) /\ life' = life
<1>1. CASE SyncTranche(me)
  BY <1>1, GoKeeps, EndKeeps DEF SyncTranche
<1>2. CASE ListLegs(me)
  BY <1>2 DEF ListLegs, Fields, KeepsDecision, ExitFields, books
<1>3. CASE CancelLeg(me)
  <2>1. PICK i \in exit[me].todo, ok \in BOOLEAN :
            IF ok THEN exit' = [exit EXCEPT ![me].todo = @ \ {i}] ELSE End(me, "kept")
    BY <1>3 DEF CancelLeg
  <2>2. life' = life
    BY <1>3 DEF CancelLeg, books
  <2>3. CASE ok
    BY <2>1, <2>2, <2>3 DEF Fields, KeepsDecision, ExitFields
  <2>4. CASE ~ok
    BY <2>1, <2>2, <2>4, EndKeeps
  <2> QED
    BY <2>3, <2>4
<1>4. CASE SizeSale(me)
  <2>1. PICK q : \/ End(me, "untradable")
                 \/ exit' = [exit EXCEPT ![me].at = "sell", ![me].q = q]
    BY <1>4 DEF SizeSale
  <2>2. life' = life
    BY <1>4 DEF SizeSale, books
  <2>3. CASE End(me, "untradable")
    BY <2>2, <2>3, EndKeeps
  <2>4. CASE exit' = [exit EXCEPT ![me].at = "sell", ![me].q = q]
    BY <2>2, <2>4 DEF Fields, KeepsDecision, ExitFields
  <2> QED
    BY <2>1, <2>3, <2>4
<1>5. CASE Sell(me)
  BY <1>5, GoKeeps DEF Sell, books
<1>6. CASE Rescue(me)
  BY <1>6, EndKeeps DEF Rescue, books
<1>7. CASE Relist(me)
  BY <1>7, GoKeeps DEF Relist, books
<1>8. CASE Finish(me)
  BY <1>8, EndKeeps DEF Finish
<1> QED
  BY <1>1, <1>2, <1>3, <1>4, <1>5, <1>6, <1>7, <1>8 DEF ExecuteExit

LEMMA ChainBanks ==
    ASSUME NEW me \in Procs, ExecuteExit(me)
    PROVE  /\ ~At(me, "book") => banked' = banked \/ banked' = life
           /\ At(me, "book") =>
                banked' = IF exit[me].pct >= 100 THEN 0
                          ELSE IF exit[me].kind = "tp_partial" THEN life ELSE banked
           /\ At(me, "book") => exit'[me].kind = "none" \/ me \notin DOMAIN exit
<1>1. CASE Finish(me)
  BY <1>1 DEF Finish, At, End, Resting
<1>2. CASE SyncTranche(me)
  BY <1>2 DEF SyncTranche, At
<1>3. CASE ListLegs(me) \/ CancelLeg(me) \/ SizeSale(me)
  BY <1>3 DEF ListLegs, CancelLeg, SizeSale, At, books
<1>4. CASE Sell(me) \/ Rescue(me) \/ Relist(me)
  BY <1>4 DEF Sell, Rescue, Relist, At, books
<1> QED
  BY <1>1, <1>2, <1>3, <1>4 DEF ExecuteExit

-----------------------------------------------------------------------------
(* The steps of the composition                                             *)

\* The history is moved on without touching what it says of the tranche.
SameTranche == DOMAIN mark' = MarkFields /\ mark'.tranche = mark.tranche

LEMMA HistoryMoves ==
    ASSUME Fields, Start \/ Alone \/ Disturb
    PROVE  SameTranche
BY DEF Fields, MarkFields, Start, Alone, Disturb, Marked, SameTranche

\* Whatever leaves the decisions alone and at most sets the mark.
LEMMA QuietStep ==
    ASSUME TrancheInv, SameTranche, exit' = exit, life' = life,
           banked' = banked \/ banked' = life
    PROVE  TrancheInv'
BY DEF TrancheInv, SameTranche, Fields, Remembered, Undecided, PanelSellsAll

LEMMA LadderQuiet ==
    ASSUME LadderStep
    PROVE  UNCHANGED <<banked, life>>
<1>1. CASE Begin \/ SmallSl \/ Tp1 \/ TierSl \/ Residue
  BY <1>1 DEF Begin, SmallSl, Tp1, TierSl, Residue, books
<1>2. CASE CancelResidue \/ PlaceOco \/ CSl \/ CTp \/ CSave
  BY <1>2 DEF CancelResidue, PlaceOco, CSl, CTp, CSave, books
<1>3. CASE Cover \/ Extra \/ Dump \/ Record
  BY <1>3 DEF Cover, Extra, Dump, Record, books
<1> QED
  BY <1>1, <1>2, <1>3 DEF LadderStep

LEMMA CheckQuiet ==
    ASSUME NEW found, CheckStep(found)
    PROVE  life' = life /\ (banked' = banked \/ banked' = life)
<1>1. CASE SeeFills(found)
  BY <1>1 DEF SeeFills
<1>2. CASE LiftCancel \/ LiftSize \/ LiftPlace \/ Trail \/ Close
  BY <1>2 DEF LiftCancel, LiftSize, LiftPlace, Trail, Close, books
<1>3. CASE SellSnapshot \/ FindStops \/ MoveCancel \/ Recheck \/ MovePlace
  BY <1>3 DEF SellSnapshot, FindStops, MoveCancel, Recheck, MovePlace, books
<1>4. CASE Safety \/ SafetySl \/ Create \/ FindBare \/ MakeRoom
  BY <1>4 DEF Safety, SafetySl, Create, FindBare, MakeRoom, books
<1>5. CASE PassOver \/ CoverSize \/ CoverPlace \/ CleanUp
  BY <1>5 DEF PassOver, CoverSize, CoverPlace, CleanUp, books
<1> QED
  BY <1>1, <1>2, <1>3, <1>4, <1>5 DEF CheckStep

\* A decision: the scan sells a first tranche only while the mark is clear.
LEMMA ChooseKeeps ==
    ASSUME NEW me \in Procs, TrancheInv, SameTranche, Choose(me)
    PROVE  TrancheInv'
<1>1. PICK kind \in ExitKinds, pct \in {50, 100} :
        /\ IF me = "scan" THEN ~cooling /\ Decides(kind, pct)
                          ELSE kind = "manual" /\ pct = 100
        /\ exit' = [exit EXCEPT ![me] = [Resting EXCEPT
                       !.at = IF kind = "tp_partial" THEN "sync" ELSE "list",
                       !.kind = kind, !.pct = pct, !.want = row.qty, !.px = price]]
  BY DEF Choose
<1>2. UNCHANGED <<banked, life>>
  BY DEF Choose, books
<1>3. /\ DOMAIN exit' = Procs
      /\ \A p \in Procs : DOMAIN exit'[p] = ExitFields
      /\ exit'[me].kind = kind /\ exit'[me].pct = pct
      /\ \A p \in Procs \ {me} : exit'[p] = exit[p]
  BY <1>1 DEF TrancheInv, Fields, Resting, ExitFields
<1>4. Fields' /\ Remembered'
  BY <1>2, <1>3 DEF TrancheInv, Fields, Remembered, SameTranche
<1>5. PanelSellsAll'
  BY <1>1, <1>3 DEF TrancheInv, PanelSellsAll, Procs
<1>6. Undecided'
  <2>1. CASE me = "scan" /\ kind = "tp_partial"
    <3>1. banked = 0
      BY <1>1, <2>1 DEF Decides
    <3> QED
      BY <1>2, <3>1 DEF TrancheInv, Remembered, Undecided, SameTranche
  <2>2. CASE me = "scan" /\ kind # "tp_partial"
    BY <1>3, <2>2 DEF Undecided
  <2>3. CASE me = "panel"
    BY <1>2, <1>3, <2>3 DEF TrancheInv, Undecided, SameTranche, Procs
  <2> QED
    BY <2>1, <2>2, <2>3 DEF Procs
<1> QED
  BY <1>4, <1>5, <1>6 DEF TrancheInv

\* A call of the chain: the booking remembers or forgets the tranche in the
\* database and drops the decision in one step.
LEMMA ExecuteKeeps ==
    ASSUME NEW me \in Procs, TrancheInv, ExecuteExit(me),
           DOMAIN mark' = MarkFields, mark'.tranche = TrancheAfter(me)
    PROVE  TrancheInv'
<1> DEFINE forgets == exit[me].pct >= 100
           remembers == exit[me].kind = "tp_partial"
<1>1. KeepsDecision(me) /\ life' = life
  BY ChainKeeps DEF TrancheInv
<1>2. Fields'
  BY <1>1 DEF Fields, KeepsDecision
<1>3. PanelSellsAll'
  BY <1>1 DEF KeepsDecision, TrancheInv, PanelSellsAll, Procs
<1>4. CASE ~At(me, "book")
  <2>1. mark'.tranche = mark.tranche /\ (banked' = banked \/ banked' = life)
    BY <1>4, ChainBanks DEF TrancheAfter
  <2>2. Remembered'
    BY <1>1, <2>1 DEF TrancheInv, Remembered
  <2>3. exit'["scan"].kind \in {exit["scan"].kind, "none"}
    BY <1>1 DEF KeepsDecision, Procs
  <2>4. Undecided'
    BY <1>1, <2>1, <2>3 DEF TrancheInv, Undecided
  <2> QED
    BY <1>2, <1>3, <2>2, <2>4 DEF TrancheInv
<1>5. CASE At(me, "book")
  <2>1. /\ banked' = IF forgets THEN 0 ELSE IF remembers THEN life ELSE banked
        /\ mark'.tranche = IF forgets THEN 0
                           ELSE IF remembers THEN life ELSE mark.tranche
    BY <1>5, ChainBanks DEF TrancheAfter
  <2>2. exit'[me].kind = "none"
    BY <1>5, ChainBanks DEF TrancheInv, Fields
  <2>3. Remembered'
    <3> HIDE DEF forgets, remembers
    <3> QED
      BY <1>1, <2>1 DEF TrancheInv, Remembered
  <2>4. Undecided'
    <3>1. CASE me = "scan"
      BY <2>2, <3>1 DEF Undecided
    <3>2. CASE me = "panel"
      <4>1. mark'.tranche = 0
        BY <2>1, <3>2 DEF TrancheInv, PanelSellsAll
      <4> QED
        BY <4>1 DEF Undecided
    <3> QED
      BY <3>1, <3>2 DEF Procs
  <2> QED
    BY <1>2, <1>3, <2>3, <2>4 DEF TrancheInv
<1> QED
  BY <1>4, <1>5

-----------------------------------------------------------------------------

LEMMA InitTranche == Init => TrancheInv
BY RestingRecord
   DEF Init, TrancheInv, Fields, Remembered, Undecided, PanelSellsAll, Procs, MarkFields

\* One step of Next for each step of the scan and for everybody else.
LEMMA TrancheStep == TrancheInv /\ [Next]_vars => TrancheInv'
<1> SUFFICES ASSUME TrancheInv, [Next]_vars PROVE TrancheInv'
  OBVIOUS
<1>f. Fields
  BY DEF TrancheInv
<1>1. CASE StartScan
  <2>1. exit' = exit /\ life' = life /\ banked' = banked /\ Alone
    BY <1>1 DEF StartScan, exits
  <2> QED
    BY <1>f, <2>1, HistoryMoves, QuietStep
<1>2. CASE Buy
  <2>1. exit' = exit /\ banked' = banked /\ life' = life + 1 /\ Start
    BY <1>2 DEF Buy, exits
  <2>2. SameTranche
    BY <1>f, <2>1, HistoryMoves
  <2> QED
    BY <2>1, <2>2
       DEF TrancheInv, SameTranche, Fields, Remembered, Undecided, PanelSellsAll
<1>3. CASE Entering
  <2>1. exit' = exit /\ Alone /\ UNCHANGED <<banked, life>>
    BY <1>3, LadderQuiet DEF Entering, exits, books
  <2> QED
    BY <1>f, <2>1, HistoryMoves, QuietStep
<1>4. CASE Reconcile
  <2>1. exit' = exit /\ life' = life /\ banked' = banked /\ Alone
    BY <1>4 DEF Reconcile, exits
  <2> QED
    BY <1>f, <2>1, HistoryMoves, QuietStep
<1>5. CASE ExitStep
  <2>1. CASE Choose("scan") /\ Start
    BY <1>f, <2>1, HistoryMoves, ChooseKeeps DEF Procs
  <2>2. CASE UNCHANGED <<books, exits>> /\ Alone
    BY <1>f, <2>2, HistoryMoves, QuietStep DEF books, exits
  <2>3. CASE ExecuteExit("scan") /\ mark' = [mark EXCEPT !.tranche = TrancheAfter("scan")]
    BY <1>f, <2>3, ExecuteKeeps DEF Procs, Fields, MarkFields
  <2> QED
    BY <1>5, <2>1, <2>2, <2>3 DEF ExitStep
<1>6. CASE Trailing
  <2>1. exit' = exit /\ (Start \/ Alone)
    BY <1>6 DEF Trailing, exits
  <2>2. life' = life /\ (banked' = banked \/ banked' = life)
    BY <1>6, CheckQuiet DEF Trailing, Snapshot
  <2> QED
    BY <1>f, <2>1, <2>2, HistoryMoves, QuietStep
<1>7. CASE Killed
  <2>1. exit' = [exit EXCEPT !["scan"] = Resting] /\ UNCHANGED <<banked, life>> /\ Disturb
    BY <1>7 DEF Killed, books
  <2>2. SameTranche
    BY <1>f, <2>1, HistoryMoves
  <2>3. exit'["scan"].kind = "none" /\ exit'["panel"] = exit["panel"] /\ Fields'
    BY <1>f, <2>1, <2>2, RestingRecord DEF Fields, Procs, SameTranche
  <2> QED
    BY <2>1, <2>2, <2>3 DEF TrancheInv, SameTranche, Remembered, Undecided, PanelSellsAll
<1>8. CASE Panel
  <2>1. mark' = [mark EXCEPT !.calm = FALSE, !.tranche = TrancheAfter("panel")]
    BY <1>8 DEF Panel
  <2>2. DOMAIN mark' = MarkFields /\ mark'.tranche = TrancheAfter("panel")
    BY <1>f, <2>1 DEF Fields, MarkFields
  <2>3. CASE Choose("panel")
    <3>1. TrancheAfter("panel") = mark.tranche
      BY <2>3 DEF Choose, At, TrancheAfter
    <3> QED
      BY <2>2, <2>3, <3>1, ChooseKeeps DEF SameTranche, Procs
  <2>4. CASE ExecuteExit("panel")
    BY <2>2, <2>4, ExecuteKeeps DEF Procs
  <2> QED
    BY <1>8, <2>3, <2>4 DEF Panel
<1>9. CASE Market
  <2>1. exit' = exit /\ Disturb /\ UNCHANGED <<banked, life>>
    BY <1>9 DEF Market, exits, books
  <2> QED
    BY <1>f, <2>1, HistoryMoves, QuietStep
<1>10. CASE Cool
  <2>1. exit' = exit /\ Alone /\ UNCHANGED <<banked, life>>
    BY <1>10 DEF Cool, CoolOff, books, Alone
  <2> QED
    BY <1>f, <2>1, HistoryMoves, QuietStep
<1>11. CASE UNCHANGED vars
  <2>1. exit' = exit /\ Alone /\ UNCHANGED <<banked, life>>
    BY <1>11 DEF vars, exits, books, Alone
  <2> QED
    BY <1>f, <2>1, HistoryMoves, QuietStep
<1> QED
  BY <1>1, <1>2, <1>3, <1>4, <1>5, <1>6, <1>7, <1>8, <1>9, <1>10, <1>11 DEF Next

\* A first tranche that was sold and remembered is not sold again for the same
\* position (execute_exit and the mark it writes), whatever the sizes, the
\* prices, the number of scans, of failing requests and of positions.
THEOREM TrancheOnce == Spec => OneTranche
<1>1. Spec => []TrancheInv
  BY InitTranche, TrancheStep, PTL DEF Spec
<1>2. TrancheInv =>
        [At("scan", "sell") /\ exit["scan"].kind = "tp_partial" /\ free' < free
            => mark.tranche = 0 \/ mark.tranche # life]_vars
  BY DEF TrancheInv, Undecided
<1> QED
  BY <1>1, <1>2, PTL DEF OneTranche

-----------------------------------------------------------------------------
(* Books and the quantity behind their legs                                 *)

\* What a book of the exchange looks like when n orders were numbered.
BookOk(b, n) == \A i \in DOMAIN b : i \in 1 .. n /\ b[i] \in Leg /\ Step <= b[i].qty

Part(b, k) == [i \in DOMAIN b |-> IF b[i].kind = k THEN b[i].qty ELSE 0]

\* The quantity behind the legs of kind k
QtyOf(b, k) == SumFunctionOnSet(Part(b, k), DOMAIN b)

\* Book `new` is book b with leg l under a new number i.
Adds(b, new, l, i) ==
    /\ i \notin DOMAIN b /\ DOMAIN new = DOMAIN b \cup {i} /\ new[i] = l
    /\ \A j \in DOMAIN b : new[j] = b[j]

LEMMA PartNat ==
    ASSUME NEW b, NEW n \in Nat, BookOk(b, n), NEW k
    PROVE  /\ IsFiniteSet(DOMAIN b)
           /\ \A i \in DOMAIN b : Part(b, k)[i] \in Nat
<1>1. DOMAIN b \subseteq 1 .. n
  BY DEF BookOk
<1>2. IsFiniteSet(1 .. n)
  BY FS_Interval
<1>3. IsFiniteSet(DOMAIN b)
  BY <1>1, <1>2, FS_Subset
<1>4. \A i \in DOMAIN b : b[i].qty \in Nat
  BY DEF BookOk, Leg
<1> QED
  BY <1>3, <1>4 DEF Part

LEMMA QtyNat ==
    ASSUME NEW b, NEW n \in Nat, BookOk(b, n), NEW k
    PROVE  QtyOf(b, k) \in Nat
BY PartNat, SumNat DEF QtyOf

LEMMA QtyEmpty == \A b, k : DOMAIN b = {} => QtyOf(b, k) = 0
BY SumEmpty DEF QtyOf

\* A kind that locks nothing has no leg, one that does locks a lot or more.
LEMMA QtyMember ==
    ASSUME NEW b, NEW n \in Nat, BookOk(b, n), NEW i \in DOMAIN b
    PROVE  b[i].qty <= QtyOf(b, b[i].kind)
<1>1. Part(b, b[i].kind)[i] = b[i].qty
  BY DEF Part
<1>2. Part(b, b[i].kind)[i] <= QtyOf(b, b[i].kind)
  BY PartNat, SumMember DEF QtyOf
<1> QED
  BY <1>1, <1>2

LEMMA QtyLot ==
    ASSUME NEW b, NEW n \in Nat, BookOk(b, n), NEW k, QtyOf(b, k) # 0
    PROVE  Step <= QtyOf(b, k)
<1>1. PICK i \in DOMAIN b : Part(b, k)[i] # 0
  BY PartNat, SumZero DEF QtyOf
<1>2. b[i].kind = k /\ Step <= b[i].qty /\ b[i].qty \in Nat
  BY <1>1 DEF Part, BookOk, Leg
<1>3. b[i].qty <= QtyOf(b, k)
  BY <1>2, QtyMember
<1> QED
  BY <1>2, <1>3, QtyNat, ExchangeAssumption DEF ExchangeAssumption

\* A leg that comes to rest adds its quantity to that of its kind.
LEMMA QtyAdds ==
    ASSUME NEW b, NEW n \in Nat, BookOk(b, n), NEW new, NEW m \in Nat, BookOk(new, m),
           NEW l, NEW i, Adds(b, new, l, i), NEW k
    PROVE  QtyOf(new, k) = QtyOf(b, k) + (IF l.kind = k THEN l.qty ELSE 0)
<1> DEFINE f == Part(b, k)
           g == Part(new, k)
           D == DOMAIN b
<1>1. /\ IsFiniteSet(D) /\ i \notin D /\ DOMAIN new = D \cup {i}
      /\ \A j \in D : f[j] \in Int /\ g[j] = f[j]
      /\ \A j \in D \cup {i} : g[j] \in Int
      /\ g[i] = IF l.kind = k THEN l.qty ELSE 0
  BY PartNat DEF Adds, Part
<1>2. QtyOf(new, k) = SumFunctionOnSet(g, D \cup {i}) /\ QtyOf(b, k) = SumFunctionOnSet(f, D)
  BY <1>1 DEF QtyOf
<1> HIDE DEF f, g, D
<1>3. SumFunctionOnSet(f, D) = SumFunctionOnSet(g, D)
  BY <1>1, SumAgree
<1>4. SumFunctionOnSet(g, D \cup {i}) = g[i] + SumFunctionOnSet(g, D)
  BY <1>1, SumAdd
<1>5. SumFunctionOnSet(f, D) \in Int /\ g[i] \in Int
  BY <1>1, SumInt
<1> QED
  BY <1>1, <1>2, <1>3, <1>4, <1>5

-----------------------------------------------------------------------------
(* The account                                                              *)

\* What the exchange keeps: every order has its number, what is locked is the
\* quantity of the resting legs.
Account ==
    /\ price \in Prices /\ free \in Nat /\ issued \in Nat
    /\ BookOk(book, issued)
    /\ locked \in [Kinds -> Nat]
    /\ \A k \in Kinds : locked[k] = QtyOf(book, k)
    /\ DOMAIN unbooked \subseteq 1 .. issued

Nothing == UNCHANGED <<exchange, issued, unbooked>>

\* What an accepted order does; a limit the market has passed is sold.
Taken(l) ==
    /\ l \in Leg /\ Step <= l.qty /\ l.qty <= free
    /\ issued' = issued + 1 /\ free' = free - l.qty /\ price' = price
    /\ \A j \in DOMAIN book : j \in DOMAIN book' /\ book'[j] = book[j]
    /\ \A j \in DOMAIN book' \ DOMAIN book : j = issued' /\ book'[j] = l
    /\ issued' \in DOMAIN book' \cup DOMAIN unbooked'
    /\ DOMAIN unbooked \subseteq DOMAIN unbooked'
    /\ StopCover' = StopCover + (IF l.kind = "tp" THEN 0 ELSE l.qty)
    /\ Held' <= Held

\* What becomes of the account when order i leaves the book.
Left(i) ==
    /\ i \in DOMAIN book /\ issued' = issued /\ price' = price
    /\ DOMAIN book' = DOMAIN book \ {i}
    /\ \A j \in DOMAIN book' : book'[j] = book[j]
    /\ StopCover' = StopCover - (IF book[i].kind = "tp" THEN 0 ELSE book[i].qty)
    /\ Held' <= Held

LEMMA KindNames == Kinds = {"tp", "sl", "oco"}
BY DEF Kinds

LEMMA AccountNat ==
    ASSUME Account
    PROVE  /\ locked \in [Kinds -> Nat]
           /\ locked["tp"] \in Nat /\ locked["sl"] \in Nat /\ locked["oco"] \in Nat
           /\ StopCover \in Nat /\ Held \in Nat /\ free + StopCover <= Held
BY KindNames DEF StopCover, Held, Account

LEMMA NumberNext ==
    ASSUME Account, NEW i \in Fresh(DOMAIN book \cup 1 .. issued)
    PROVE  i = issued + 1
<1>1. DOMAIN book \subseteq 1 .. issued /\ issued \in Nat
  BY DEF Account, BookOk
<1>2. /\ i \in OrderIds /\ i \in Nat /\ i > 0 /\ 1 .. i \subseteq OrderIds
      /\ i \notin 1 .. issued
      /\ \A j \in OrderIds \ (1 .. issued) : i <= j
  BY <1>1, ExchangeAssumption, CallAssumption DEF Fresh, ExchangeAssumption, CallAssumption
<1>3. i > issued
  BY <1>1, <1>2
<1>4. issued + 1 \in OrderIds \ (1 .. issued)
  BY <1>1, <1>2, <1>3
<1> QED
  BY <1>1, <1>2, <1>3, <1>4

LEMMA FillsGrow ==
    ASSUME NEW i, NEW q
    PROVE  DOMAIN WithFill(i, q) = DOMAIN unbooked \cup {i}
BY DEF WithFill

\* An accepted order keeps the account.
LEMMA AcceptEffect ==
    ASSUME Account, NEW l \in Leg, MinQty <= l.qty, l.qty <= free, Accept(l)
    PROVE  Account' /\ Taken(l)
<1>0. /\ Step \in Nat /\ MinQty \in Nat /\ Step <= MinQty /\ l.qty \in Nat
      /\ l.kind \in Kinds /\ free \in Nat /\ issued \in Nat
  BY ExchangeAssumption DEF ExchangeAssumption, Leg, Account, Kinds
<1>1. Step <= l.qty /\ issued' = issued + 1
  BY <1>0 DEF Accept
<1>2. CASE Marketable(l)
  <2>1. /\ UNCHANGED <<price, locked, book>> /\ free' = free - l.qty
        /\ DOMAIN unbooked' = DOMAIN unbooked \cup {issued'}
    BY <1>2, FillsGrow DEF Accept, Join, Execute
  <2>2. BookOk(book', issued')
    BY <1>0, <1>1, <2>1 DEF Account, BookOk
  <2>3. Account'
    BY <1>0, <1>1, <2>1, <2>2 DEF Account
  <2>4. StopCover' = StopCover /\ Held' <= Held
    BY <1>0, <2>1, AccountNat DEF StopCover, Held
  <2>5. l.kind = "tp"
    BY <1>2 DEF Marketable
  <2> QED
    BY <1>0, <1>1, <2>1, <2>3, <2>4, <2>5, AccountNat DEF Taken
<1>3. CASE ~Marketable(l)
  <2>1. PICK i \in Fresh(DOMAIN book \cup 1 .. issued) : Rest(l, i)
    BY <1>3 DEF Accept, Join
  <2>2. i = issued'
    BY <1>1, <2>1, NumberNext
  <2>3. UNCHANGED <<price, unbooked>> /\ free' = free - l.qty
    BY <1>3, <2>1 DEF Accept, Rest
  <2>4. Adds(book, book', l, issued')
    BY <2>1, <2>2 DEF Rest, Fresh, Adds
  <2>5. /\ locked' \in [Kinds -> Nat]
        /\ \A k \in Kinds : locked'[k] = locked[k] + (IF l.kind = k THEN l.qty ELSE 0)
    BY <1>0, <2>1, AccountNat DEF Rest, Account
  <2>6. BookOk(book', issued')
    BY <1>0, <1>1, <2>4 DEF Account, BookOk, Adds
  <2>7. ASSUME NEW k \in Kinds PROVE locked'[k] = QtyOf(book', k)
    <3>1. QtyOf(book', k) = QtyOf(book, k) + (IF l.kind = k THEN l.qty ELSE 0)
      BY <1>0, <1>1, <2>4, <2>6, QtyAdds DEF Account
    <3> QED
      BY <2>5, <3>1 DEF Account
  <2>8. Account'
    BY <1>0, <1>1, <2>3, <2>5, <2>6, <2>7 DEF Account
  <2>9. /\ StopCover' = StopCover + (IF l.kind = "tp" THEN 0 ELSE l.qty)
        /\ Held' <= Held
    BY <1>0, <2>3, <2>5, AccountNat, KindNames DEF StopCover, Held
  <2> QED
    BY <1>0, <1>1, <2>3, <2>4, <2>8, <2>9 DEF Taken, Adds
<1> QED
  BY <1>2, <1>3

LEMMA SendEffect ==
    ASSUME Account, NEW l, NEW ok \in BOOLEAN, Send(l, ok) \/ SendMarketStop(l, ok)
    PROVE  Account' /\ (Taken(l) \/ (~ok /\ Nothing))
<1>1. \/ /\ l \in Leg /\ MinQty <= l.qty /\ l.qty <= free /\ Accept(l)
      \/ ~ok /\ Nothing
  <2>1. CASE Send(l, ok)
    BY <2>1, ExchangeAssumption
       DEF Send, Answer, Placeable, Nothing, Leg, Account, ExchangeAssumption
  <2>2. CASE SendMarketStop(l, ok)
    BY <2>2, ExchangeAssumption
       DEF SendMarketStop, Answer, MarketStopPlaceable, Nothing, Leg, Account, ExchangeAssumption
  <2> QED
    BY <2>1, <2>2
<1>2. CASE ~ok /\ Nothing
  BY <1>2 DEF Nothing, exchange, Account
<1> QED
  BY <1>1, <1>2, AcceptEffect

\* An order that leaves the book takes its quantity along.
LEMMA RemoveEffect ==
    ASSUME Account, NEW i \in DOMAIN book, Remove(i), UNCHANGED <<price, issued>>,
           locked' = [locked EXCEPT ![book[i].kind] = @ - book[i].qty],
           free' = free \/ free' = free + book[i].qty,
           DOMAIN unbooked' \subseteq 1 .. issued
    PROVE  Account' /\ Left(i)
<1>0. /\ book[i] \in Leg /\ book[i].qty \in Nat /\ book[i].kind \in Kinds
      /\ issued \in Nat /\ free \in Nat
  BY DEF Account, BookOk, Leg
<1>1. DOMAIN book' = DOMAIN book \ {i} /\ \A j \in DOMAIN book' : book'[j] = book[j]
  BY DEF Remove
<1>2. BookOk(book', issued')
  BY <1>1 DEF Account, BookOk
<1>3. Adds(book', book, book[i], i)
  BY <1>1 DEF Adds
<1>4. /\ locked' \in [Kinds -> Int]
      /\ \A k \in Kinds :
            locked'[k] = locked[k] - (IF book[i].kind = k THEN book[i].qty ELSE 0)
  <2>1. locked \in [Kinds -> Nat]
    BY AccountNat
  <2> QED
    BY <1>0, <2>1
<1>5. ASSUME NEW k \in Kinds PROVE locked'[k] = QtyOf(book', k) /\ QtyOf(book', k) \in Nat
  <2>1. QtyOf(book, k) = QtyOf(book', k) + (IF book[i].kind = k THEN book[i].qty ELSE 0)
    BY <1>0, <1>2, <1>3, QtyAdds DEF Account
  <2>2. QtyOf(book', k) \in Nat
    BY <1>0, <1>2, QtyNat
  <2> QED
    BY <1>0, <1>4, <2>1, <2>2 DEF Account
<1>6. Account'
  BY <1>0, <1>2, <1>4, <1>5 DEF Account
<1>7. /\ StopCover' = StopCover - (IF book[i].kind = "tp" THEN 0 ELSE book[i].qty)
      /\ Held' <= Held
  BY <1>0, <1>4, AccountNat, KindNames DEF StopCover, Held
<1> QED
  BY <1>1, <1>6, <1>7 DEF Left

LEMMA CancelEffect ==
    ASSUME Account, NEW i, NEW ok \in BOOLEAN, CancelOrder(i, ok)
    PROVE  Account' /\ unbooked' = unbooked /\ (Left(i) \/ (~ok /\ Nothing))
<1>1. CASE Cancel(i) /\ UNCHANGED <<issued, unbooked>>
  <2>1. /\ i \in DOMAIN book /\ Remove(i) /\ free' = free + book[i].qty
        /\ locked' = [locked EXCEPT ![book[i].kind] = @ - book[i].qty]
        /\ UNCHANGED <<price, issued, unbooked>>
    BY <1>1 DEF Cancel
  <2> QED
    BY <2>1, RemoveEffect DEF Account
<1>2. CASE ~ok /\ Nothing
  BY <1>2 DEF Nothing, exchange, Account
<1> QED
  BY <1>1, <1>2 DEF CancelOrder, Answer, Nothing

LEMMA FillEffect ==
    ASSUME Account, NEW i \in DOMAIN book, TradeOrder(i)
    PROVE  /\ Account' /\ Left(i) /\ free' = free
           /\ DOMAIN unbooked' = DOMAIN unbooked \cup {i}
<1>1. DOMAIN unbooked' = DOMAIN unbooked \cup {i} /\ i \in 1 .. issued
  BY FillsGrow DEF TradeOrder, Account, BookOk
<1> QED
  BY <1>1, RemoveEffect DEF TradeOrder, Fill, Account

LEMMA MoveEffect ==
    ASSUME Account, MovePrice
    PROVE  Account' /\ UNCHANGED <<free, locked, book, issued, unbooked>>
BY DEF MovePrice, MoveTo, Account, BookOk, QtyOf, Part

\* A market sale of q units, accepted.
Sold(q) ==
    /\ Step <= q /\ q <= free /\ free' = free - q /\ issued' = issued + 1
    /\ UNCHANGED <<price, locked, book>>
    /\ DOMAIN unbooked' = DOMAIN unbooked \cup {issued'}

LEMMA SellEffect ==
    ASSUME Account, NEW q \in Int, NEW ok \in BOOLEAN, SellNow(q, ok)
    PROVE  Account' /\ (Sold(q) \/ (~ok /\ Nothing))
<1>0. Step \in Nat /\ MinQty \in Nat /\ Step <= MinQty /\ issued \in Nat /\ free \in Nat
  BY ExchangeAssumption DEF ExchangeAssumption, Account
<1>1. Sold(q) \/ (~ok /\ Nothing)
  <2>1. \/ /\ MinQty <= q /\ q <= free /\ free' = free - q /\ issued' = issued + 1
           /\ unbooked' = WithFill(issued', q) /\ UNCHANGED <<price, locked, book>>
        \/ ~ok /\ Nothing
    BY DEF SellNow, Answer, Nothing
  <2>2. DOMAIN WithFill(issued', q) = DOMAIN unbooked \cup {issued'}
    BY FillsGrow
  <2> QED
    BY <1>0, <2>1, <2>2 DEF Sold
<1>2. CASE Sold(q)
  <2>1. BookOk(book', issued') /\ free' \in Nat /\ issued' \in Nat
    BY <1>0, <1>2 DEF Sold, Account, BookOk
  <2>2. DOMAIN unbooked' \subseteq 1 .. issued'
    BY <1>0, <1>2 DEF Sold, Account
  <2> QED
    BY <1>2, <2>1, <2>2 DEF Sold, Account
<1>3. CASE ~ok /\ Nothing
  BY <1>3 DEF Nothing, exchange, Account
<1> QED
  BY <1>1, <1>2, <1>3

-----------------------------------------------------------------------------
(* Types                                                                    *)

TrackerFields == {"total", "tps", "done", "sl", "moved"}
TierOrders == [id : 1 .. issued, tier : DOMAIN TpPct]

\* The database names orders there are.
RowsOk ==
    /\ row \in [qty : Nat, sl : Nat]
    /\ DOMAIN tracker = TrackerFields
    /\ tracker.tps \subseteq TierOrders
    /\ tracker.done \subseteq {o.id : o \in tracker.tps}
    /\ tracker.sl \in 0 .. issued
    /\ life \in Nat /\ banked \in 0 .. life

LadderOk ==
    /\ rung \in Rungs /\ qty \in Nat /\ slq \in Int /\ tpq \in Int
    /\ placed \subseteq TierOrders /\ slId \in 0 .. issued
    /\ rung = "cTp" => left \subseteq DOMAIN TpSize

LEMMA FloorStepInt ==
    ASSUME NEW q \in Int
    PROVE  FloorStep(q) \in Int /\ FloorStep(q) <= q /\ q < FloorStep(q) + Step
<1>1. Step \in Nat /\ Step > 0
  BY ExchangeAssumption DEF ExchangeAssumption
<1>2. /\ q \div Step \in Int /\ q % Step \in 0 .. Step - 1
      /\ q = Step * (q \div Step) + (q % Step)
  BY <1>1, Z3
<1>3. \A n \in Int : Step * n = n * Step /\ n * Step \in Int
  BY <1>1
<1> QED
  BY <1>1, <1>2, <1>3 DEF FloorStep

LEMMA FloorStepNat ==
    ASSUME NEW q \in Nat
    PROVE  FloorStep(q) \in Nat
<1>1. Step \in Nat /\ Step > 0
  BY ExchangeAssumption DEF ExchangeAssumption
<1>2. q \div Step \in Nat
  BY <1>1
<1> QED
  BY <1>1, <1>2 DEF FloorStep

\* The shares of the tiers are quantities.
LEMMA TiersNat ==
    ASSUME NEW q \in Nat
    PROVE  /\ \A k \in DOMAIN TpSize : ScaledQty(q, k) \in Nat
           /\ CStop(q) \in Int
<1>1. IsFiniteSet(DOMAIN TpSize)
  <2>1. DOMAIN TpSize = 1 .. Len(TpPct) /\ Len(TpPct) \in Nat
    BY LadderAssumption DEF LadderAssumption
  <2> QED
    BY <2>1, FS_Interval
<1>2. ASSUME NEW k \in DOMAIN TpSize PROVE TierQty(q, k) \in Nat
  <2>1. TpSize[k] \in Nat
    <3>1. TpSize \in [DOMAIN TpPct -> 0 .. 100]
      BY Zenon, LadderAssumption DEF LadderAssumption
    <3>2. DOMAIN TpSize = DOMAIN TpPct
      BY Zenon, <3>1
    <3>3. TpSize[k] \in 0 .. 100
      BY Zenon, <3>1, <3>2
    <3> QED
      BY <3>3
  <2>2. q * TpSize[k] \in Nat
    BY <2>1
  <2>3. (q * TpSize[k]) \div 100 \in Nat
    BY <2>2
  <2> QED
    BY <2>3, FloorStepNat DEF TierQty
<1> DEFINE t == [k \in DOMAIN TpSize |-> TierQty(q, k)]
<1>3. TierTotal(q) \in Nat
  <2>1. \A k \in DOMAIN TpSize : t[k] \in Nat
    BY <1>2
  <2>2. TierTotal(q) = SumFunctionOnSet(t, DOMAIN TpSize)
    BY DEF TierTotal, SumFunction
  <2> HIDE DEF t
  <2> QED
    BY <1>1, <2>1, <2>2, SumNat
<1>4. ASSUME NEW k \in DOMAIN TpSize PROVE ScaledQty(q, k) \in Nat
  <2>1. CASE 100 * TierTotal(q) > 70 * q
    <3>1. TierQty(q, k) * 70 * q \in Nat /\ 100 * TierTotal(q) \in Nat \ {0}
      BY <1>2, <1>3, <2>1
    <3>2. (TierQty(q, k) * 70 * q) \div (100 * TierTotal(q)) \in Nat
      BY <3>1, Z3
    <3> QED
      BY <2>1, <3>2, FloorStepNat DEF ScaledQty
  <2>2. CASE ~(100 * TierTotal(q) > 70 * q)
    BY <1>2, <2>2 DEF ScaledQty
  <2> QED
    BY <2>1, <2>2
<1> DEFINE s == [k \in DOMAIN TpSize |-> ScaledQty(q, k)]
<1>5. CStop(q) \in Int
  <2>1. \A k \in DOMAIN TpSize : s[k] \in Int
    BY <1>4
  <2>2. CStop(q) = q - SumFunctionOnSet(s, DOMAIN TpSize)
    BY DEF CStop, SumFunction
  <2> HIDE DEF s
  <2> QED
    BY <1>1, <2>1, <2>2, SumInt
<1> QED
  BY <1>4, <1>5

-----------------------------------------------------------------------------
(* What the ladder's requests do                                            *)

\* The order is accepted, or nothing happens.
Asked(l) == Taken(l) \/ Nothing

SlOf(q) == StopLoss(FloorStep(q), StopPx)

LEMMA StopEffect ==
    ASSUME Account, NEW q, NEW ok \in BOOLEAN, RequestStop(q, ok)
    PROVE  Account' /\ Asked(SlOf(q)) /\ (ok => Taken(SlOf(q)))
BY SendEffect DEF RequestStop, SlOf, Asked

LEMMA SmallSlDoes ==
    ASSUME Account, SmallSl
    PROVE  /\ Account' /\ UNCHANGED <<qty, tpq, left, placed, slId, books>>
           /\ \/ Taken(SlOf(qty)) /\ slq' = qty /\ rung' = "cover" /\ alerted' = alerted
              \/ Asked(SlOf(qty)) /\ slq' = slq /\ rung' = "cover" /\ alerted' = TRUE
              \/ Asked(SlOf(qty)) /\ UNCHANGED <<rung, slq, alerted>>
<1>1. \/ /\ RequestStop(qty, TRUE)
         /\ slq' = qty /\ rung' = "cover" /\ alerted' = alerted
      \/ /\ RequestStop(qty, FALSE)
         /\ \/ slq' = slq /\ rung' = "cover" /\ alerted' = TRUE
            \/ UNCHANGED <<rung, slq, alerted>>
  BY DEF SmallSl, Try, Goto
<1>2. UNCHANGED <<qty, tpq, left, placed, slId, books>>
  BY DEF SmallSl, books
<1> QED
  BY <1>1, <1>2, StopEffect

LEMMA Tp1Does ==
    ASSUME Account, Tp1
    PROVE  LET l == TakeProfit(Tranche(qty), TpPx(1)) IN
           /\ Account' /\ UNCHANGED <<qty, slq, tpq, left, slId, alerted, books>>
           /\ \/ Taken(l) /\ placed' = {[id |-> issued', tier |-> 1]} /\ rung' = "tierSl"
              \/ Asked(l) /\ placed' = placed /\ rung' = "residue"
              \/ Asked(l) /\ UNCHANGED <<rung, placed>>
<1> DEFINE l == TakeProfit(Tranche(qty), TpPx(1))
<1>1. \/ /\ Send(l, TRUE)
         /\ placed' = {[id |-> issued', tier |-> 1]} /\ rung' = "tierSl"
      \/ /\ Send(l, FALSE)
         /\ \/ placed' = placed /\ rung' = "residue"
            \/ UNCHANGED <<rung, placed>>
  BY DEF Tp1, Try, Goto
<1>2. UNCHANGED <<qty, slq, tpq, left, slId, alerted, books>>
  BY DEF Tp1
<1> HIDE DEF l
<1>3. Account' /\ Asked(l)
  BY <1>1, SendEffect DEF Asked
<1>4. Send(l, TRUE) => Taken(l)
  BY SendEffect
<1> QED
  BY <1>1, <1>2, <1>3, <1>4 DEF l, Asked

LEMMA TierSlDoes ==
    ASSUME Account, TierSl
    PROVE  LET rest == FloorStep(qty - BehindTp) IN
           /\ Account' /\ UNCHANGED <<qty, left, placed, alerted, row, banked, life>>
           /\ \/ /\ Taken(SlOf(rest)) /\ slq' = rest /\ tpq' = BehindTp
                 /\ slId' = issued' /\ tracker' = Tracker(qty, placed, issued')
                 /\ rung' = "cover"
              \/ /\ Asked(SlOf(rest)) /\ UNCHANGED <<slq, tpq, slId, tracker>>
                 /\ rung' \in {"residue", rung}
<1> DEFINE rest == FloorStep(qty - BehindTp)
<1>1. \/ /\ RequestStop(rest, TRUE) /\ slq' = rest /\ tpq' = BehindTp
         /\ slId' = issued' /\ tracker' = Tracker(qty, placed, issued')
         /\ rung' = "cover"
      \/ /\ RequestStop(rest, FALSE) /\ UNCHANGED <<slq, tpq, slId, tracker>>
         /\ rung' \in {"residue", rung}
  BY DEF TierSl, Try, Goto
<1>2. UNCHANGED <<qty, left, placed, alerted, row, banked, life>>
  BY DEF TierSl
<1> HIDE DEF rest
<1> QED
  BY <1>1, <1>2, StopEffect DEF rest

LEMMA PlaceOcoDoes ==
    ASSUME Account, PlaceOco
    PROVE  LET l == Oco(FloorStep(qty), TpPx(1), StopPx) IN
           /\ Account' /\ UNCHANGED <<qty, tpq, left, placed, slId, alerted, books>>
           /\ \/ Taken(l) /\ slq' = qty /\ rung' = "done"
              \/ Asked(l) /\ slq' = slq /\ rung' \in {"cSl", rung}
<1> DEFINE l == Oco(FloorStep(qty), TpPx(1), StopPx)
<1>1. \/ Send(l, TRUE) /\ slq' = qty /\ rung' = "done"
      \/ Send(l, FALSE) /\ slq' = slq /\ rung' \in {"cSl", rung}
  BY DEF PlaceOco, Try, Goto
<1>2. UNCHANGED <<qty, tpq, left, placed, slId, alerted, books>>
  BY DEF PlaceOco
<1> HIDE DEF l
<1> QED
  BY <1>1, <1>2, SendEffect DEF l, Asked

LEMMA CSlDoes ==
    ASSUME Account, CSl
    PROVE  LET l == SlOf(CStop(qty)) IN
           /\ Account' /\ UNCHANGED <<qty, tpq, placed, books>>
           /\ \/ /\ Taken(l) /\ slq' = CStop(qty) /\ slId' = issued'
                 /\ left' = DOMAIN TpSize /\ rung' = "cTp" /\ alerted' = alerted
              \/ /\ Asked(l) /\ alerted' = TRUE /\ UNCHANGED <<slq, slId>>
                 /\ left' = DOMAIN TpSize /\ rung' = "cTp"
              \/ Asked(l) /\ UNCHANGED <<rung, slq, slId, left, alerted>>
<1>1. \/ /\ RequestStop(CStop(qty), TRUE) /\ slq' = CStop(qty) /\ slId' = issued'
         /\ left' = DOMAIN TpSize /\ rung' = "cTp" /\ alerted' = alerted
      \/ /\ RequestStop(CStop(qty), FALSE)
         /\ \/ /\ alerted' = TRUE /\ UNCHANGED <<slq, slId>>
               /\ left' = DOMAIN TpSize /\ rung' = "cTp"
            \/ UNCHANGED <<rung, slq, slId, left, alerted>>
  BY DEF CSl, Try, Goto
<1>2. UNCHANGED <<qty, tpq, placed, books>>
  BY DEF CSl
<1>3. Account' /\ Asked(SlOf(CStop(qty)))
  BY <1>1, StopEffect
<1>4. RequestStop(CStop(qty), TRUE) => Taken(SlOf(CStop(qty)))
  BY StopEffect
<1> QED
  BY <1>1, <1>2, <1>3, <1>4

LEMMA NextTierIn ==
    ASSUME LadderOk, rung = "cTp", left # {}
    PROVE  NextTier \in left /\ NextTier \in DOMAIN TpSize
<1>1. DOMAIN TpSize = 1 .. Len(TpPct) /\ Len(TpPct) \in Nat
  BY LadderAssumption DEF LadderAssumption
<1>2. left \in SUBSET Nat
  BY <1>1 DEF LadderOk
<1>3. \E k \in left : \A j \in left : k <= j
  BY <1>2, LeastNat
<1>4. NextTier \in left
  BY <1>3 DEF NextTier
<1> QED
  BY <1>4 DEF LadderOk

LEMMA CTpDoes ==
    ASSUME Account, LadderOk, CTp
    PROVE  /\ Account' /\ UNCHANGED <<qty, slq, slId, alerted, books>>
           /\ rung' = "cTp" /\ left' \subseteq left
           /\ \E k \in DOMAIN TpSize :
                LET l == TakeProfit(ScaledQty(qty, k), TpPx(k)) IN
                \/ /\ Taken(l) /\ placed' = placed \cup {[id |-> issued', tier |-> k]}
                   /\ tpq' = tpq + ScaledQty(qty, k)
                \/ Asked(l) /\ UNCHANGED <<placed, tpq>>
<1> DEFINE k == NextTier
           l == TakeProfit(ScaledQty(qty, k), TpPx(k))
<1>0. rung = "cTp" /\ left # {}
  BY DEF CTp
<1>1. \/ /\ Send(l, TRUE) /\ placed' = placed \cup {[id |-> issued', tier |-> k]}
         /\ tpq' = tpq + ScaledQty(qty, k) /\ left' = left \ {k} /\ rung' = "cTp"
      \/ /\ Send(l, FALSE) /\ UNCHANGED <<placed, tpq>>
         /\ left' \subseteq left /\ rung' = "cTp"
      \/ /\ Nothing /\ UNCHANGED <<placed, tpq>>
         /\ left' \subseteq left /\ rung' = "cTp"
  BY <1>0 DEF CTp, Try, Goto, Nothing
<1>2. UNCHANGED <<qty, slq, slId, alerted, books>>
  BY DEF CTp
<1>3. k \in DOMAIN TpSize
  BY <1>0, NextTierIn
<1> HIDE DEF l, k
<1>4. Nothing => Account'
  BY DEF Nothing, exchange, Account
<1>5. Account' /\ Asked(l)
  BY <1>1, <1>4, SendEffect DEF Asked
<1>6. Send(l, TRUE) => Taken(l)
  BY SendEffect
<1>7. /\ rung' = "cTp" /\ left' \subseteq left
      /\ \/ /\ Taken(l) /\ placed' = placed \cup {[id |-> issued', tier |-> k]}
            /\ tpq' = tpq + ScaledQty(qty, k)
         \/ Asked(l) /\ UNCHANGED <<placed, tpq>>
  BY <1>1, <1>5, <1>6
<1> QED
  BY <1>2, <1>3, <1>5, <1>7 DEF l

LEMMA ExtraDoes ==
    ASSUME Account, Extra
    PROVE  /\ Account' /\ UNCHANGED <<qty, tpq, left, placed, slId, alerted, books>>
           /\ \/ /\ Taken(SlOf(Uncovered)) /\ slq' = slq + FloorStep(Uncovered)
                 /\ rung' = "done"
              \/ Asked(SlOf(Uncovered)) /\ slq' = slq /\ rung' \in {"done", rung}
<1> DEFINE l == SlOf(Uncovered)
<1>1. \/ Send(l, TRUE) /\ slq' = slq + FloorStep(Uncovered) /\ rung' = "done"
      \/ Send(l, FALSE) /\ slq' = slq /\ rung' \in {"done", rung}
  BY DEF Extra, Try, Goto, SlOf
<1>2. UNCHANGED <<qty, tpq, left, placed, slId, alerted, books>>
  BY DEF Extra
<1> HIDE DEF l
<1> QED
  BY <1>1, <1>2, SendEffect DEF l, Asked

-----------------------------------------------------------------------------
(* The ladder keeps the types                                               *)

\* Numbers of orders are handed out, never taken back.
Numbers == issued \in Nat /\ issued' \in Nat /\ issued <= issued'

LEMMA OrdersGrow ==
    ASSUME Numbers
    PROVE  TierOrders \subseteq TierOrders' /\ 0 .. issued \subseteq 0 .. issued'
<1>1. 1 .. issued \subseteq 1 .. issued' /\ 0 .. issued \subseteq 0 .. issued'
  BY DEF Numbers
<1> QED
  BY <1>1 DEF TierOrders

LEMMA RowsGrow ==
    ASSUME RowsOk, Numbers, UNCHANGED books
    PROVE  RowsOk'
BY OrdersGrow DEF RowsOk, books

LEMMA LadderGrow ==
    ASSUME LadderOk, Numbers, UNCHANGED ladder
    PROVE  LadderOk'
BY OrdersGrow DEF LadderOk, ladder

LEMMA AskedNumbers ==
    ASSUME Account, Account', NEW l, Asked(l)
    PROVE  Numbers /\ (Taken(l) => issued' = issued + 1 /\ issued' \in 1 .. issued')
BY DEF Asked, Taken, Nothing, Numbers, Account

LEMMA FirstTier == 1 \in DOMAIN TpPct /\ DOMAIN TpSize = DOMAIN TpPct
<1>1. TpPct \in Seq(Nat \ {0}) /\ TpPct # <<>> /\ TpSize \in [DOMAIN TpPct -> 0 .. 100]
  BY Zenon, LadderAssumption DEF LadderAssumption
<1>2. 1 \in DOMAIN TpPct
  BY <1>1
<1>3. DOMAIN TpSize = DOMAIN TpPct
  BY Zenon, <1>1
<1> QED
  BY <1>2, <1>3

\* A new tracker names the take-profits just placed.
LEMMA TrackerOk ==
    ASSUME RowsOk, LadderOk, Numbers, placed' = placed, NEW total, NEW sl \in 0 .. issued',
           tracker' = Tracker(total, placed, sl), UNCHANGED <<row, banked, life>>
    PROVE  RowsOk'
<1>1. /\ DOMAIN tracker' = TrackerFields /\ tracker'.tps = placed
      /\ tracker'.done = {} /\ tracker'.sl = sl
  BY DEF Tracker, TrackerFields
<1>2. placed \subseteq TierOrders'
  BY OrdersGrow DEF LadderOk
<1> QED
  BY <1>1, <1>2 DEF RowsOk

\* The sells of an exit order, a fill or a request leave the ladder typed.
LadderKeeps == Account' /\ Numbers /\ RowsOk' /\ LadderOk'

LEMMA SmallSlTyped ==
    ASSUME Account, RowsOk, LadderOk, SmallSl
    PROVE  LadderKeeps
<1>1. /\ Account' /\ UNCHANGED <<qty, tpq, left, placed, slId, books>>
      /\ Asked(SlOf(qty)) /\ slq' \in {qty, slq} /\ rung' \in {"cover", rung}
  BY SmallSlDoes DEF Asked
<1>2. Numbers
  BY <1>1, AskedNumbers
<1> QED
  BY <1>1, <1>2, RowsGrow, OrdersGrow DEF LadderKeeps, LadderOk, Rungs

LEMMA Tp1Typed ==
    ASSUME Account, RowsOk, LadderOk, Tp1
    PROVE  LadderKeeps
<1> DEFINE l == TakeProfit(Tranche(qty), TpPx(1))
<1>1. /\ Account' /\ UNCHANGED <<qty, slq, tpq, left, slId, alerted, books>>
      /\ Asked(l) /\ rung' \in {"tierSl", "residue", rung}
      /\ placed' = placed \/ (Taken(l) /\ placed' = {[id |-> issued', tier |-> 1]})
  BY Tp1Does DEF Asked
<1> HIDE DEF l
<1>2. Numbers
  BY <1>1, AskedNumbers
<1>3. placed' \subseteq TierOrders'
  <2>1. CASE placed' = placed
    BY <1>2, <2>1, OrdersGrow DEF LadderOk
  <2>2. CASE Taken(l) /\ placed' = {[id |-> issued', tier |-> 1]}
    <3>1. issued' \in 1 .. issued' /\ 1 \in DOMAIN TpPct
      BY <1>1, <2>2, AskedNumbers, FirstTier
    <3> QED
      BY <2>2, <3>1 DEF TierOrders
  <2> QED
    BY <1>1, <2>1, <2>2
<1>4. rung' = "cTp" => rung = "cTp"
  BY <1>1
<1> QED
  BY <1>1, <1>2, <1>3, <1>4, RowsGrow, OrdersGrow DEF LadderKeeps, LadderOk, Rungs

LEMMA BehindNat == ASSUME qty \in Nat PROVE BehindTp \in Nat
<1>1. qty \div 2 \in Nat
  OBVIOUS
<1> QED
  BY <1>1, FloorStepNat DEF BehindTp, Tranche

LEMMA TierSlTyped ==
    ASSUME Account, RowsOk, LadderOk, TierSl
    PROVE  LadderKeeps
<1> DEFINE rest == FloorStep(qty - BehindTp)
<1>0. rest \in Int /\ BehindTp \in Int
  BY BehindNat, FloorStepInt DEF LadderOk
<1>1. /\ Account' /\ UNCHANGED <<qty, left, placed, alerted, row, banked, life>>
      /\ Asked(SlOf(rest)) /\ rung' \in {"cover", "residue", rung}
      /\ \/ /\ Taken(SlOf(rest)) /\ slq' = rest /\ tpq' = BehindTp
            /\ slId' = issued' /\ tracker' = Tracker(qty, placed, issued')
         \/ UNCHANGED <<slq, tpq, slId, tracker>>
  BY TierSlDoes DEF Asked
<1> HIDE DEF rest
<1>2. Numbers /\ (Taken(SlOf(rest)) => issued' \in 1 .. issued')
  BY <1>1, AskedNumbers
<1>3. CASE UNCHANGED <<slq, tpq, slId, tracker>>
  <2>1. RowsOk'
    BY <1>1, <1>2, <1>3, RowsGrow DEF books
  <2> QED
    BY <1>1, <1>2, <1>3, <2>1, OrdersGrow DEF LadderKeeps, LadderOk, Rungs
<1>4. CASE /\ Taken(SlOf(rest)) /\ slq' = rest /\ tpq' = BehindTp
           /\ slId' = issued' /\ tracker' = Tracker(qty, placed, issued')
  <2>1. issued' \in 0 .. issued'
    BY <1>2, <1>4
  <2>2. RowsOk'
    BY <1>1, <1>2, <1>4, <2>1, TrackerOk
  <2>3. placed' \subseteq TierOrders'
    BY <1>1, <1>2, OrdersGrow DEF LadderOk
  <2> QED
    BY <1>0, <1>1, <1>2, <1>4, <2>1, <2>2, <2>3 DEF LadderKeeps, LadderOk, Rungs
<1> QED
  BY <1>1, <1>3, <1>4

LEMMA PlaceOcoTyped ==
    ASSUME Account, RowsOk, LadderOk, PlaceOco
    PROVE  LadderKeeps
<1> DEFINE l == Oco(FloorStep(qty), TpPx(1), StopPx)
<1>1. /\ Account' /\ UNCHANGED <<qty, tpq, left, placed, slId, alerted, books>>
      /\ Asked(l) /\ slq' \in {qty, slq} /\ rung' \in {"done", "cSl", rung}
  BY PlaceOcoDoes DEF Asked
<1> HIDE DEF l
<1>2. Numbers
  BY <1>1, AskedNumbers
<1> QED
  BY <1>1, <1>2, RowsGrow, OrdersGrow DEF LadderKeeps, LadderOk, Rungs

LEMMA CSlTyped ==
    ASSUME Account, RowsOk, LadderOk, CSl
    PROVE  LadderKeeps
<1>0. CStop(qty) \in Int
  BY TiersNat DEF LadderOk
<1> DEFINE l == SlOf(CStop(qty))
<1>1. /\ Account' /\ UNCHANGED <<qty, tpq, placed, books>>
      /\ Asked(l) /\ slq' \in {CStop(qty), slq}
      /\ slId' = slId \/ (Taken(l) /\ slId' = issued')
      /\ rung' \in {"cTp", rung} /\ left' \in {left, DOMAIN TpSize}
      /\ rung' = "cTp" => rung = "cTp" \/ left' = DOMAIN TpSize
      /\ rung = "cSl"
  BY CSlDoes DEF Asked, CSl
<1> HIDE DEF l
<1>2. Numbers /\ (Taken(l) => issued' \in 1 .. issued')
  BY <1>1, AskedNumbers
<1>3. slId' \in 0 .. issued'
  BY <1>1, <1>2, OrdersGrow DEF LadderOk
<1>4. placed' \subseteq TierOrders'
  BY <1>1, <1>2, OrdersGrow DEF LadderOk
<1>5. RowsOk'
  BY <1>1, <1>2, RowsGrow
<1>6. rung' = "cTp" => left' \subseteq DOMAIN TpSize
  BY <1>1
<1> QED
  BY <1>0, <1>1, <1>2, <1>3, <1>4, <1>5, <1>6 DEF LadderKeeps, LadderOk, Rungs

LEMMA CTpTyped ==
    ASSUME Account, RowsOk, LadderOk, CTp
    PROVE  LadderKeeps
<1>1. /\ Account' /\ UNCHANGED <<qty, slq, slId, alerted, books>>
      /\ rung' = "cTp" /\ rung = "cTp" /\ left' \subseteq left
  BY CTpDoes DEF CTp
<1>2. PICK k \in DOMAIN TpSize :
         LET l == TakeProfit(ScaledQty(qty, k), TpPx(k)) IN
         \/ /\ Taken(l) /\ placed' = placed \cup {[id |-> issued', tier |-> k]}
            /\ tpq' = tpq + ScaledQty(qty, k)
         \/ Asked(l) /\ UNCHANGED <<placed, tpq>>
  BY CTpDoes
<1> DEFINE l == TakeProfit(ScaledQty(qty, k), TpPx(k))
<1>3. /\ Asked(l)
      /\ \/ Taken(l) /\ placed' = placed \cup {[id |-> issued', tier |-> k]}
         \/ placed' = placed
      /\ tpq' = tpq + ScaledQty(qty, k) \/ tpq' = tpq
  BY <1>2 DEF Asked
<1> HIDE DEF l
<1>4. Numbers /\ (Taken(l) => issued' \in 1 .. issued')
  BY <1>1, <1>3, AskedNumbers
<1>5. placed' \subseteq TierOrders'
  <2>1. placed \subseteq TierOrders'
    BY <1>4, OrdersGrow DEF LadderOk
  <2>2. CASE Taken(l) /\ placed' = placed \cup {[id |-> issued', tier |-> k]}
    <3>1. issued' \in 1 .. issued' /\ k \in DOMAIN TpPct
      BY <1>4, <2>2, FirstTier
    <3>2. [id |-> issued', tier |-> k] \in TierOrders'
      BY <3>1 DEF TierOrders
    <3> QED
      BY <2>1, <2>2, <3>2
  <2> QED
    BY <1>3, <2>1, <2>2
<1>6. tpq' \in Int
  BY <1>3, TiersNat DEF LadderOk
<1>7. RowsOk'
  BY <1>1, <1>4, RowsGrow
<1>8. slId' \in 0 .. issued' /\ left' \subseteq DOMAIN TpSize
  BY <1>1, <1>4, OrdersGrow DEF LadderOk
<1> QED
  BY <1>1, <1>4, <1>5, <1>6, <1>7, <1>8 DEF LadderKeeps, LadderOk

LEMMA ExtraTyped ==
    ASSUME Account, RowsOk, LadderOk, Extra
    PROVE  LadderKeeps
<1>0. FloorStep(Uncovered) \in Int
  BY FloorStepInt DEF LadderOk, Uncovered
<1>1. /\ Account' /\ UNCHANGED <<qty, tpq, left, placed, slId, alerted, books>>
      /\ Asked(SlOf(Uncovered)) /\ slq' \in {slq + FloorStep(Uncovered), slq}
      /\ rung' \in {"done", rung}
  BY ExtraDoes DEF Asked
<1>2. Numbers
  BY <1>1, AskedNumbers
<1>3. slq' \in Int
  BY <1>0, <1>1 DEF LadderOk
<1> QED
  BY <1>1, <1>2, <1>3, RowsGrow, OrdersGrow DEF LadderKeeps, LadderOk, Rungs

LEMMA DumpDoes ==
    ASSUME Account, LadderOk, Dump
    PROVE  /\ Account' /\ (Sold(FloorStep(Uncovered)) \/ Nothing)
           /\ rung' = "done"
           /\ UNCHANGED <<qty, slq, tpq, left, placed, slId, alerted, books>>
<1>0. FloorStep(Uncovered) \in Int
  BY FloorStepInt DEF LadderOk, Uncovered
<1>1. PICK ok \in BOOLEAN : SellNow(FloorStep(Uncovered), ok)
  BY DEF Dump
<1>2. Account' /\ (Sold(FloorStep(Uncovered)) \/ Nothing)
  BY <1>0, <1>1, SellEffect
<1> QED
  BY <1>2 DEF Dump, Goto

LEMMA SoldNumbers ==
    ASSUME Account, Account', NEW q, Sold(q) \/ Nothing
    PROVE  Numbers
BY DEF Sold, Nothing, Numbers, Account

LEMMA NothingNumbers ==
    ASSUME Account, Nothing
    PROVE  Account' /\ Numbers
BY DEF Nothing, Numbers, Account, exchange

\* The steps of the ladder that ask for nothing
LEMMA QuietTyped ==
    ASSUME Account, RowsOk, LadderOk, Begin \/ CSave \/ Cover \/ Record \/ Residue
    PROVE  LadderKeeps
<1>1. Nothing
  BY DEF Begin, CSave, Cover, Record, Residue, market, exchange, calls, Nothing
<1>2. Account' /\ Numbers
  BY <1>1, NothingNumbers
<1>3. 0 \in 0 .. issued'
  BY <1>2 DEF Numbers
<1>4. CASE Begin
  <2>1. /\ qty' \in {free, qty} /\ slq' = 0 /\ tpq' = 0 /\ placed' = {} /\ slId' = 0
        /\ rung' = FirstRung(qty') /\ UNCHANGED books
    BY <1>4 DEF Begin, Goto
  <2>2. rung' \in Rungs /\ rung' # "cTp"
    BY <2>1 DEF FirstRung, Rungs
  <2> QED
    BY <1>2, <1>3, <2>1, <2>2, RowsGrow DEF LadderKeeps, LadderOk, Account
<1>5. CASE CSave
  <2>1. /\ UNCHANGED <<qty, slq, tpq, left, placed, slId, row, banked, life>>
        /\ rung' = "cover"
        /\ tracker' = tracker \/ tracker' = Tracker(qty, placed, slId)
    BY <1>5 DEF CSave, Goto
  <2>2. slId \in 0 .. issued'
    BY <1>2, OrdersGrow DEF LadderOk
  <2>3. RowsOk'
    BY <1>2, <2>1, <2>2, RowsGrow, TrackerOk DEF books
  <2> QED
    BY <1>2, <2>1, <2>2, <2>3, OrdersGrow DEF LadderKeeps, LadderOk, Rungs
<1>6. CASE Cover
  <2>1. /\ UNCHANGED <<qty, slq, tpq, left, placed, slId, books>>
        /\ rung' \in {"done", "extra", "dump"}
    BY <1>6 DEF Cover, Goto
  <2> QED
    BY <1>2, <2>1, RowsGrow, OrdersGrow DEF LadderKeeps, LadderOk, Rungs
<1>7. CASE Record
  <2>1. /\ row' = [qty |-> qty, sl |-> StopPx] /\ rung' = "idle"
        /\ qty' = 0 /\ slq' = 0 /\ tpq' = 0 /\ placed' = {} /\ slId' = 0
        /\ UNCHANGED <<tracker, banked, life>>
    BY <1>7 DEF Record, Goto
  <2>2. StopPx \in Nat
    <3>1. Entry \in Nat /\ 100 - SlPct \in Nat
      BY EntryAssumption, LadderAssumption, ExchangeAssumption
         DEF EntryAssumption, LadderAssumption, ExchangeAssumption
    <3>2. Entry * (100 - SlPct) \in Nat
      BY <3>1
    <3> QED
      BY <3>2 DEF StopPx
  <2>3. row' \in [qty : Nat, sl : Nat]
    BY <2>1, <2>2 DEF LadderOk
  <2>4. RowsOk'
    BY <1>2, <2>1, <2>3, OrdersGrow DEF RowsOk
  <2> QED
    BY <1>2, <1>3, <2>1, <2>4 DEF LadderKeeps, LadderOk, Rungs
<1>8. CASE Residue
  <2>1. /\ UNCHANGED <<qty, slq, tpq, placed, slId, books>> /\ rung' = "cancel"
    BY <1>8 DEF Residue, Goto
  <2> QED
    BY <1>2, <2>1, RowsGrow, OrdersGrow DEF LadderKeeps, LadderOk, Rungs
<1> QED
  BY <1>4, <1>5, <1>6, <1>7, <1>8

LEMMA CancelResidueDoes ==
    ASSUME Account, CancelResidue
    PROVE  /\ Account' /\ UNCHANGED <<qty, slq, tpq, slId, alerted, books, issued, unbooked>>
           /\ placed' = {}
           /\ \/ rung' = rung /\ left' \subseteq left /\ \E i \in left : Left(i) \/ Nothing
              \/ rung' = "oco" /\ left = {} /\ left' = left /\ Nothing
<1>1. /\ UNCHANGED <<qty, slq, tpq, slId, alerted, books>> /\ placed' = {}
  BY DEF CancelResidue
<1>2. CASE left # {}
  <2>1. PICK i \in left, ok \in BOOLEAN : CancelOrder(i, ok) /\ left' = left \ {i} /\ rung' = rung
    BY <1>2 DEF CancelResidue
  <2>2. /\ Account' /\ unbooked' = unbooked /\ (Left(i) \/ Nothing)
    BY <2>1, CancelEffect
  <2>3. issued' = issued
    BY <2>2 DEF Left, Nothing
  <2> QED
    BY <1>1, <2>1, <2>2, <2>3
<1>3. CASE left = {}
  <2>1. rung' = "oco" /\ left' = left /\ Nothing
    BY <1>3 DEF CancelResidue, Goto, Nothing
  <2> QED
    BY <1>1, <1>3, <2>1, NothingNumbers DEF Nothing
<1> QED
  BY <1>2, <1>3

LEMMA LadderTyped ==
    ASSUME Account, RowsOk, LadderOk, LadderStep
    PROVE  LadderKeeps
<1>1. CASE Dump
  <2>1. /\ Account' /\ Numbers /\ rung' = "done"
        /\ UNCHANGED <<qty, slq, tpq, left, placed, slId, alerted, books>>
    BY <1>1, DumpDoes, SoldNumbers
  <2> QED
    BY <2>1, RowsGrow, OrdersGrow DEF LadderKeeps, LadderOk, Rungs
<1>2. CASE CancelResidue
  <2>1. /\ Account' /\ UNCHANGED <<qty, slq, tpq, slId, alerted, books, issued>>
        /\ placed' = {} /\ rung' \in {rung, "oco"} /\ rung = "cancel"
    BY <1>2, CancelResidueDoes DEF CancelResidue
  <2>2. Numbers
    BY <2>1 DEF Numbers, Account
  <2> QED
    BY <2>1, <2>2, RowsGrow DEF LadderKeeps, LadderOk, Rungs
<1> QED
  BY <1>1, <1>2, SmallSlTyped, Tp1Typed, TierSlTyped, PlaceOcoTyped, CSlTyped, CTpTyped,
     ExtraTyped, QuietTyped DEF LadderStep

-----------------------------------------------------------------------------
(* The exit chain keeps the types                                           *)

ExitOk ==
    /\ DOMAIN exit = Procs
    /\ \A p \in Procs :
         /\ DOMAIN exit[p] = ExitFields
         /\ exit[p].kind \in ExitKinds /\ exit[p].pct \in Nat
         /\ exit[p].want \in Nat /\ exit[p].q \in Int

LEMMA GoOk == ASSUME ExitOk, NEW me \in Procs, NEW a, Go(me, a) PROVE ExitOk'
BY DEF ExitOk, Go, ExitFields

LEMMA EndOk == ASSUME ExitOk, NEW me \in Procs, NEW how, End(me, how) PROVE ExitOk'
BY DEF ExitOk, End, ExitFields, Resting, ExitKinds

\* Booking folds the tracker and empties what is not booked yet.
LEMMA BookTyped ==
    ASSUME Account, RowsOk, BookFills \/ NothingToBook, UNCHANGED <<exchange, issued, life>>,
           banked' \in 0 .. life'
    PROVE  Account' /\ Numbers /\ RowsOk'
<1>1. DOMAIN unbooked' \subseteq 1 .. issued'
  BY DEF BookFills, NothingToBook, NoOrders, Account
<1>2. Account' /\ Numbers
  BY <1>1 DEF Account, exchange, Numbers
<1>3. CASE NothingToBook
  BY <1>2, <1>3, OrdersGrow DEF NothingToBook, RowsOk
<1>4. CASE BookFills
  <2>1. row' \in [qty : Nat, sl : Nat]
    BY <1>4, AccountNat DEF BookFills, RowsOk, NoRow
  <2>2. \/ tracker' = NoTracker
        \/ \E left2, hit, moved2 :
              tracker' = [tracker EXCEPT !.total = left2, !.tps = @ \ hit, !.done = {},
                                         !.moved = moved2]
    BY <1>4 DEF BookFills, Collapse
  <2>3. /\ DOMAIN tracker' = TrackerFields /\ tracker'.tps \subseteq tracker.tps
        /\ tracker'.done = {} /\ tracker'.sl \in {0, tracker.sl}
    <3>1. CASE tracker' = NoTracker
      BY <3>1 DEF NoTracker, TrackerFields
    <3>2. CASE tracker' # NoTracker
      <4>1. PICK left2, hit, moved2 :
              tracker' = [tracker EXCEPT !.total = left2, !.tps = @ \ hit, !.done = {},
                                         !.moved = moved2]
        BY <2>2, <3>2
      <4> QED
        BY <4>1 DEF RowsOk, TrackerFields
    <3> QED
      BY <3>1, <3>2
  <2>4. /\ tracker'.tps \subseteq TierOrders' /\ tracker'.sl \in 0 .. issued'
    BY <1>2, <2>3, OrdersGrow DEF RowsOk, Numbers
  <2> QED
    BY <1>2, <2>1, <2>3, <2>4 DEF RowsOk
<1> QED
  BY <1>3, <1>4

\* A step of the exit chain, or the decision it starts from
ExitKeeps == Account' /\ Numbers /\ RowsOk' /\ ExitOk'

LEMMA ChooseTyped ==
    ASSUME Account, RowsOk, ExitOk, NEW me \in Procs, Choose(me)
    PROVE  ExitKeeps
<1>1. Nothing /\ UNCHANGED books
  BY DEF Choose, Nothing
<1>2. PICK kind \in ExitKinds, pct \in {50, 100} :
        exit' = [exit EXCEPT ![me] = [Resting EXCEPT
                   !.at = IF kind = "tp_partial" THEN "sync" ELSE "list",
                   !.kind = kind, !.pct = pct, !.want = row.qty, !.px = price]]
  BY DEF Choose
<1>3. row.qty \in Nat
  BY DEF RowsOk
<1>4. ExitOk'
  BY <1>2, <1>3 DEF ExitOk, Resting, ExitFields
<1> QED
  BY <1>1, <1>4, NothingNumbers, RowsGrow DEF ExitKeeps

\* The first three calls, which decide whether and what to cancel
LEMMA LookTyped ==
    ASSUME Account, RowsOk, ExitOk, NEW me \in Procs, SyncTranche(me) \/ ListLegs(me)
    PROVE  ExitKeeps
<1>1. Nothing
  BY DEF SyncTranche, ListLegs, Nothing
<1>2. Account' /\ Numbers
  BY <1>1, NothingNumbers
<1>3. CASE SyncTranche(me)
  <2>1. UNCHANGED <<row, tracker, life>> /\ (banked' = life \/ banked' = banked)
    BY <1>3 DEF SyncTranche
  <2>2. RowsOk'
    BY <1>2, <2>1, OrdersGrow DEF RowsOk
  <2>3. ExitOk'
    BY <1>3, GoOk, EndOk DEF SyncTranche
  <2> QED
    BY <1>2, <2>2, <2>3 DEF ExitKeeps
<1>4. CASE ListLegs(me)
  <2>1. PICK legs : exit' = [exit EXCEPT ![me].at = "cancel", ![me].todo = DOMAIN legs]
    BY <1>4 DEF ListLegs
  <2>2. ExitOk'
    BY <2>1 DEF ExitOk, ExitFields
  <2> QED
    BY <1>2, <1>4, <2>2, RowsGrow DEF ExitKeeps, ListLegs
<1> QED
  BY <1>3, <1>4

LEMMA CancelLegTyped ==
    ASSUME Account, RowsOk, ExitOk, NEW me \in Procs, CancelLeg(me)
    PROVE  ExitKeeps
<1>1. PICK i \in exit[me].todo, ok \in BOOLEAN :
         /\ CancelOrder(i, ok)
         /\ IF ok THEN exit' = [exit EXCEPT ![me].todo = @ \ {i}] ELSE End(me, "kept")
  BY DEF CancelLeg
<1>2. Account' /\ issued' = issued
  BY <1>1, CancelEffect DEF Left, Nothing
<1>3. Numbers
  BY <1>2 DEF Numbers, Account
<1>4. CASE ok
  <2>1. exit' = [exit EXCEPT ![me].todo = @ \ {i}]
    BY <1>1, <1>4
  <2> QED
    BY <1>2, <1>3, <2>1, RowsGrow DEF ExitKeeps, CancelLeg, ExitOk, ExitFields
<1>5. CASE ~ok
  <2>1. End(me, "kept")
    BY <1>1, <1>5
  <2> QED
    BY <1>2, <1>3, <2>1, RowsGrow, EndOk DEF ExitKeeps, CancelLeg
<1> QED
  BY <1>4, <1>5

LEMMA SizeSaleTyped ==
    ASSUME Account, RowsOk, ExitOk, NEW me \in Procs, SizeSale(me)
    PROVE  ExitKeeps
<1>1. Nothing /\ UNCHANGED books
  BY DEF SizeSale, Nothing
<1>2. PICK seen \in {free, 0}, read \in BOOLEAN :
         LET share == IF read THEN FloorStep((exit[me].want * exit[me].pct) \div 100)
                              ELSE exit[me].want
             q == IF seen < share THEN seen ELSE share
         IN  \/ End(me, "untradable")
             \/ exit' = [exit EXCEPT ![me].at = "sell", ![me].q = q]
  BY DEF SizeSale
<1>3. (exit[me].want * exit[me].pct) \div 100 \in Int
  <2>1. exit[me].want * exit[me].pct \in Nat
    BY DEF ExitOk
  <2> QED
    BY <2>1
<1>4. PICK q \in Int : \/ End(me, "untradable")
                       \/ exit' = [exit EXCEPT ![me].at = "sell", ![me].q = q]
  <2>1. /\ FloorStep((exit[me].want * exit[me].pct) \div 100) \in Int /\ seen \in Int
        /\ exit[me].want \in Int
    BY <1>3, FloorStepInt DEF Account, ExitOk
  <2> QED
    BY <1>2, <2>1
<1>5. ExitOk'
  <2>1. CASE End(me, "untradable")
    BY <2>1, EndOk
  <2>2. CASE exit' = [exit EXCEPT ![me].at = "sell", ![me].q = q]
    BY <2>2 DEF ExitOk, ExitFields
  <2> QED
    BY <1>4, <2>1, <2>2
<1> QED
  BY <1>1, <1>5, NothingNumbers, RowsGrow DEF ExitKeeps

LEMMA SellTyped ==
    ASSUME Account, RowsOk, ExitOk, NEW me \in Procs, Sell(me)
    PROVE  ExitKeeps
<1>1. FloorStep(exit[me].q) \in Int
  BY FloorStepInt DEF ExitOk
<1>2. PICK ok \in BOOLEAN : SellNow(FloorStep(exit[me].q), ok)
  BY DEF Sell
<1>3. Account' /\ (Sold(FloorStep(exit[me].q)) \/ Nothing)
  BY <1>1, <1>2, SellEffect
<1>4. Numbers
  BY <1>3, SoldNumbers
<1>5. \E a : Go(me, a)
  BY DEF Sell
<1> QED
  BY <1>3, <1>4, <1>5, GoOk, RowsGrow DEF ExitKeeps, Sell

LEMMA ProtectTyped ==
    ASSUME Account, RowsOk, ExitOk, NEW me \in Procs, Rescue(me) \/ Relist(me)
    PROVE  ExitKeeps
<1>1. (\E l : \E ok \in BOOLEAN : Send(l, ok)) \/ Nothing
  <2>1. CASE Rescue(me)
    BY <2>1 DEF Rescue
  <2>2. CASE Relist(me)
    BY <2>2 DEF Relist, Nothing
  <2> QED
    BY <2>1, <2>2
<1>2. Account' /\ Numbers
  <2>1. CASE Nothing
    BY <2>1, NothingNumbers
  <2>2. CASE \E l : \E ok \in BOOLEAN : Send(l, ok)
    <3>1. PICK l : \E ok \in BOOLEAN : Send(l, ok)
      BY <2>2
    <3>2. Account' /\ Asked(l)
      BY <3>1, SendEffect DEF Asked
    <3> QED
      BY <3>2, AskedNumbers
  <2> QED
    BY <1>1, <2>1, <2>2
<1>3. ExitOk'
  <2>1. CASE Rescue(me)
    BY <2>1, EndOk DEF Rescue
  <2>2. CASE Relist(me)
    BY <2>2, GoOk DEF Relist
  <2> QED
    BY <2>1, <2>2
<1> QED
  BY <1>2, <1>3, RowsGrow DEF ExitKeeps, Rescue, Relist

LEMMA FinishTyped ==
    ASSUME Account, RowsOk, ExitOk, NEW me \in Procs, Finish(me)
    PROVE  ExitKeeps
<1>1. banked' \in {0, life, banked} /\ life' = life /\ UNCHANGED <<exchange, issued>>
  BY DEF Finish
<1>2. banked' \in 0 .. life'
  BY <1>1 DEF RowsOk
<1>3. Account' /\ Numbers /\ RowsOk'
  BY <1>1, <1>2, BookTyped DEF Finish
<1>4. ExitOk'
  BY EndOk DEF Finish
<1> QED
  BY <1>3, <1>4 DEF ExitKeeps

LEMMA ExitTyped ==
    ASSUME Account, RowsOk, ExitOk, NEW me \in Procs, Choose(me) \/ ExecuteExit(me)
    PROVE  ExitKeeps
BY ChooseTyped, LookTyped, CancelLegTyped, SizeSaleTyped, SellTyped, ProtectTyped, FinishTyped
   DEF ExecuteExit

-----------------------------------------------------------------------------
(* The trailing check keeps the types                                       *)

CheckFields == {"at", "free", "total", "px", "old", "tp", "q", "todo", "tries"}
Tracks == [high : {0} \cup Prices, sl : Nat, on : BOOLEAN]

TrailOk ==
    /\ DOMAIN check = CheckFields /\ check.free \in Int
    /\ ts \in Tracks

\* A step within the check that keeps its snapshot.
SameSnapshot == DOMAIN check' = CheckFields /\ check'.free = check.free

LEMMA ToStepSame ==
    ASSUME TrailOk, NEW a, ToStep(a)
    PROVE  SameSnapshot
BY DEF TrailOk, ToStep, SameSnapshot, CheckFields

LEMMA AttemptDoes ==
    ASSUME Account, TrailOk, NEW l, NEW n, NEW a, NEW b, Attempt(l, n, a, b)
    PROVE  Account' /\ Numbers /\ SameSnapshot
<1>1. PICK ok \in BOOLEAN :
        /\ Send(l, ok)
        /\ \/ ToStep(a) \/ ToStep(b)
           \/ check' = [check EXCEPT !.tries = @ + 1]
  BY DEF Attempt
<1>2. Account' /\ Asked(l)
  BY <1>1, SendEffect DEF Asked
<1>3. SameSnapshot
  <2>1. CASE ToStep(a) \/ ToStep(b)
    BY <2>1, ToStepSame
  <2>2. CASE check' = [check EXCEPT !.tries = @ + 1]
    BY <2>2 DEF TrailOk, SameSnapshot, CheckFields
  <2> QED
    BY <1>1, <2>1, <2>2
<1> QED
  BY <1>2, <1>3, AskedNumbers

\* The larger and the smaller of two numbers
LEMMA MaxTwo ==
    ASSUME NEW a \in Int, NEW b \in Int
    PROVE  Max({a, b}) \in {a, b} /\ a <= Max({a, b}) /\ b <= Max({a, b})
<1>1. \E x \in {a, b} : \A y \in {a, b} : x >= y
  OBVIOUS
<1>2. Max({a, b}) \in {a, b} /\ \A y \in {a, b} : Max({a, b}) >= y
  BY <1>1, Zenon DEF Max
<1> QED
  BY <1>2

LEMMA MinTwo ==
    ASSUME NEW a \in Int, NEW b \in Int
    PROVE  Min({a, b}) \in {a, b} /\ Min({a, b}) <= a /\ Min({a, b}) <= b
<1>1. \E x \in {a, b} : \A y \in {a, b} : x <= y
  OBVIOUS
<1>2. Min({a, b}) \in {a, b} /\ \A y \in {a, b} : Min({a, b}) <= y
  BY <1>1, Zenon DEF Min
<1> QED
  BY <1>2

\* The wide band lies between two and twelve percent.
LEMMA WidthBand ==
    ASSUME price \in Prices
    PROVE  Width \in 2 .. 12
<1>1. price \in Nat \ {0} /\ Atr \in Nat
  BY ExchangeAssumption, EntryAssumption DEF ExchangeAssumption, EntryAssumption
<1> DEFINE w == (250 * Atr) \div price
<1>2. w \in Int
  BY <1>1
<1> DEFINE two == 2
           twelve == 12
           m == Min({twelve, w})
<1>3. two \in Int /\ twelve \in Int
  OBVIOUS
<1> HIDE DEF w, two, twelve
<1>4. m \in {twelve, w} /\ m <= twelve
  BY <1>2, <1>3, MinTwo
<1>5. m \in Int
  BY <1>2, <1>3, <1>4
<1> HIDE DEF m
<1>6. Max({two, m}) \in {two, m} /\ two <= Max({two, m})
  BY <1>3, <1>5, MaxTwo
<1>7. Max({two, m}) \in 2 .. 12
  BY <1>4, <1>5, <1>6 DEF two, twelve
<1> QED
  BY <1>7 DEF Width, w, m, two, twelve

LEMMA AdaptiveNat ==
    ASSUME price \in Prices, NEW t, t.high \in Nat, t.sl \in Nat, NEW p \in Nat
    PROVE  Adaptive(t, p) \in Nat
<1>0. Entry \in Nat
  BY ExchangeAssumption, EntryAssumption DEF ExchangeAssumption, EntryAssumption
<1> DEFINE gain == 1000 * (p - Entry)
           keep == IF gain >= 75 * Entry THEN 1000 - 10 * Width
                   ELSE IF gain >= 30 * Entry THEN 980 ELSE 975
           low == (1005 * Entry) \div 1000
           trail == (keep * t.high) \div 1000
<1>1. keep \in Nat
  BY WidthBand
<1>2. low \in Nat
  BY <1>0
<1>3. trail \in Nat
  <2> HIDE DEF keep
  <2>1. keep * t.high \in Nat
    BY <1>1
  <2> QED
    BY <2>1
<1>4. Adaptive(t, p) = IF gain < 10 * Entry THEN t.sl ELSE Max({low, trail})
  BY DEF Adaptive
<1> HIDE DEF keep, gain, low, trail
<1>5. Max({low, trail}) \in Nat
  BY <1>2, <1>3, MaxTwo
<1> QED
  BY <1>4, <1>5

LEMMA TrailedOk ==
    ASSUME price \in Prices, ts \in Tracks
    PROVE  Trailed(ts, price) \in Tracks
<1>0. /\ price \in Nat /\ ts.high \in Nat /\ ts.sl \in Nat
      /\ Entry \in Nat /\ Atr \in Nat /\ ts.high \in {0} \cup Prices
  <2>1. Prices \subseteq Nat /\ Entry \in Nat /\ Atr \in Nat
    BY ExchangeAssumption, EntryAssumption DEF ExchangeAssumption, EntryAssumption
  <2>2. ts.high \in {0} \cup Prices /\ ts.sl \in Nat
    BY DEF Tracks
  <2>3. price \in Nat
    BY <2>1
  <2>4. ts.high \in Nat
    <3>1. ts.high \in Prices => ts.high \in Nat
      BY <2>1
    <3>2. ts.high = 0 \/ ts.high \in Prices
      BY <2>2
    <3>3. 0 \in Nat
      OBVIOUS
    <3> QED
      BY <3>1, <3>2, <3>3, Zenon
  <2> QED
    BY <2>1, <2>2, <2>3, <2>4
<1> DEFINE high == ts.high
           p == price
           top == Max({high, p})
           s == [ts EXCEPT !.high = top]
<1>1. top \in {0} \cup Prices /\ price <= top /\ top \in Nat
  <2>1. high \in Int /\ p \in Int /\ high \in {0} \cup Prices /\ p \in Prices
    BY <1>0
  <2> HIDE DEF high, p
  <2>2. top \in {high, p} /\ p <= top
    BY <2>1, MaxTwo
  <2> HIDE DEF top
  <2>3. top \in {0} \cup Prices /\ p <= top /\ top \in Nat
    <3>1. Prices \subseteq Nat
      BY ExchangeAssumption DEF ExchangeAssumption
    <3> QED
      BY <2>1, <2>2, <3>1
  <2> QED
    BY <2>3 DEF p
<1>2. s \in Tracks /\ s.high = top /\ s.sl = ts.sl
  <2> HIDE DEF top
  <2> QED
    BY <1>1 DEF Tracks
<1>3. Trailed(ts, price) =
        IF ts.on
          THEN [s EXCEPT !.sl = IF 1000 * (price - Entry) >= 75 * Entry
                                  THEN Adaptive(s, price) ELSE Max({@, Adaptive(s, price)})]
        ELSE IF price - Entry >= Atr THEN [s EXCEPT !.sl = s.high - Atr, !.on = TRUE]
        ELSE s
  BY DEF Trailed
<1> HIDE DEF s
<1>4. Adaptive(s, price) \in Nat
  BY <1>0, <1>1, <1>2, AdaptiveNat
<1>5. Max({s.sl, Adaptive(s, price)}) \in Nat
  <2> DEFINE a == s.sl
             b == Adaptive(s, price)
  <2>1. a \in Nat /\ b \in Nat
    BY <1>0, <1>2, <1>4
  <2> HIDE DEF a, b
  <2>2. Max({a, b}) \in {a, b}
    BY <2>1, MaxTwo
  <2>3. Max({a, b}) \in Nat
    BY <2>1, <2>2
  <2> QED
    BY <2>3 DEF a, b
<1>6. price - Entry >= Atr => s.high - Atr \in Nat
  BY <1>0, <1>1, <1>2
<1>7. ASSUME NEW x \in Nat PROVE [s EXCEPT !.sl = x] \in Tracks /\ [s EXCEPT !.sl = x, !.on = TRUE] \in Tracks
  BY <1>2 DEF Tracks
<1> QED
  BY <1>2, <1>3, <1>4, <1>5, <1>6, <1>7

CheckKeeps == Account' /\ Numbers /\ RowsOk' /\ TrailOk'

\* A step that asks the exchange for nothing and touches no record
LEMMA CheckQuietly ==
    ASSUME Account, RowsOk, Nothing, UNCHANGED books, TrailOk'
    PROVE  CheckKeeps
BY NothingNumbers, RowsGrow DEF CheckKeeps

\* A step that keeps the snapshot and the track
LEMMA SameTrail ==
    ASSUME TrailOk, SameSnapshot, ts' = ts
    PROVE  TrailOk'
BY DEF TrailOk, SameSnapshot

LEMMA SnapshotTyped ==
    ASSUME Account, RowsOk, TrailOk, Snapshot
    PROVE  CheckKeeps
<1>1. Nothing /\ UNCHANGED <<row, banked, life>>
  BY DEF Snapshot, market, exchange, calls, Nothing
<1>2. Account' /\ Numbers
  BY <1>1, NothingNumbers
<1>3. CASE UNCHANGED <<ts, tracker>> /\ check' = [NoCheck EXCEPT !.at = "fills", !.free = free,
                                                               !.total = Held]
  <2>1. TrailOk'
    BY <1>3 DEF TrailOk, NoCheck, CheckFields, Account
  <2> QED
    BY <1>1, <1>3, <2>1, CheckQuietly DEF books
<1>4. CASE ts' = NoTrack /\ tracker' = NoTracker /\ UNCHANGED check
  <2>1. TrailOk'
    BY <1>4 DEF TrailOk, NoTrack, Tracks
  <2>2. RowsOk'
    BY <1>1, <1>2, <1>4, OrdersGrow DEF RowsOk, NoTracker, TrackerFields, Numbers
  <2> QED
    BY <1>2, <2>1, <2>2 DEF CheckKeeps
<1> QED
  BY <1>3, <1>4 DEF Snapshot

LEMMA SeeFillsTyped ==
    ASSUME Account, RowsOk, TrailOk, NEW found, SeeFills(found)
    PROVE  CheckKeeps
<1>1. Nothing /\ UNCHANGED <<row, life, ts>>
  BY DEF SeeFills, Nothing
<1>2. Account' /\ Numbers
  BY <1>1, NothingNumbers
<1>3. PICK legs \in {book, NoOrders}, unread \in SUBSET found, priced \in BOOLEAN :
         LET gone == {o.id : o \in tracker.tps} \cap (found \ (DOMAIN legs \cup tracker.done))
             new == gone \ unread
             tr == [tracker EXCEPT !.done = @ \cup new]
         IN  /\ tracker' = tr
             /\ banked' = life \/ banked' = banked
             /\ check' = [check EXCEPT !.at = "lift", !.px = LiftTo(tr)] \/ ToStep("trail")
  BY DEF SeeFills
<1>4. \E new : /\ new \subseteq {o.id : o \in tracker.tps}
               /\ tracker' = [tracker EXCEPT !.done = @ \cup new]
  BY <1>3
<1>5. PICK new : /\ new \subseteq {o.id : o \in tracker.tps}
                 /\ tracker' = [tracker EXCEPT !.done = @ \cup new]
  BY <1>4
<1>6. /\ DOMAIN tracker' = TrackerFields /\ tracker'.tps = tracker.tps
      /\ tracker'.sl = tracker.sl /\ tracker'.done = tracker.done \cup new
  BY <1>5 DEF RowsOk, TrackerFields
<1>7. RowsOk'
  <2>1. tracker'.done \subseteq {o.id : o \in tracker'.tps}
    BY <1>5, <1>6 DEF RowsOk
  <2>2. banked' \in 0 .. life'
    BY <1>1, <1>3 DEF RowsOk
  <2> QED
    BY <1>1, <1>2, <1>6, <2>1, <2>2, OrdersGrow DEF RowsOk
<1>8. SameSnapshot
  <2>1. (\E p : check' = [check EXCEPT !.at = "lift", !.px = p]) \/ ToStep("trail")
    BY <1>3
  <2> QED
    BY <2>1, ToStepSame DEF SameSnapshot, CheckFields, TrailOk
<1> QED
  BY <1>1, <1>2, <1>7, <1>8, SameTrail DEF CheckKeeps

LEMMA LiftPlaceTyped ==
    ASSUME Account, RowsOk, TrailOk, LiftPlace
    PROVE  CheckKeeps
<1>1. Account' /\ Numbers /\ SameSnapshot
  BY AttemptDoes DEF LiftPlace
<1>2. UNCHANGED <<row, banked, life, ts>>
  BY DEF LiftPlace
<1>3. \/ tracker' = tracker
      \/ \E m : tracker' = [tracker EXCEPT !.sl = issued', !.moved = m]
  BY DEF LiftPlace
<1>4. /\ DOMAIN tracker' = TrackerFields /\ tracker'.tps = tracker.tps
      /\ tracker'.done = tracker.done /\ tracker'.sl \in {tracker.sl, issued'}
  BY <1>3 DEF RowsOk, TrackerFields
<1>5. tracker'.sl \in 0 .. issued'
  BY <1>1, <1>4, OrdersGrow DEF RowsOk, Numbers
<1>6. RowsOk'
  BY <1>1, <1>2, <1>4, <1>5, OrdersGrow DEF RowsOk
<1> QED
  BY <1>1, <1>2, <1>6, SameTrail DEF CheckKeeps

\* The steps that only look
LEMMA LooksTyped ==
    ASSUME Account, RowsOk, TrailOk,
           LiftSize \/ FindStops \/ Recheck \/ FindBare \/ CoverSize
    PROVE  CheckKeeps
<1>1. Nothing /\ UNCHANGED books /\ ts' = ts
  BY DEF LiftSize, FindStops, Recheck, FindBare, CoverSize, market, exchange, calls, Nothing
<1>2. SameSnapshot
  <2>1. CASE LiftSize
    <3>1. (\E q : check' = [check EXCEPT !.at = "liftPlace", !.q = q]) \/ ToStep("trail")
      BY <2>1 DEF LiftSize
    <3> QED
      BY <3>1, ToStepSame DEF SameSnapshot, CheckFields, TrailOk
  <2>2. CASE FindStops
    <3>1. PICK legs \in {book, NoOrders} :
            LET sl == SlLegs(legs)
                size == SumFunction([i \in sl |-> legs[i].qty])
                oco == {i \in sl : legs[i].kind = "oco"}
            IN  /\ Listed(legs)
                /\ check' =
                  IF sl # {} /\ 1000 * check.px > 1001 * Highest(legs)
                  THEN [check EXCEPT !.at = "moveCancel", !.todo = sl,
                                     !.q = Min({size, check.total}),
                                     !.old = Highest(legs),
                                     !.tp = IF oco = {} THEN 0 ELSE Max({legs[i].tp : i \in oco})]
                  ELSE IF sl = {} /\ check.free >= 1
                  THEN [check EXCEPT !.at = "create"]
                  ELSE [check EXCEPT !.at = "cover"]
      BY <2>2, Zenon DEF FindStops
    <3>2. DOMAIN check' = CheckFields
      BY <3>1 DEF TrailOk
    <3>3. check'.free = check.free
      BY <3>1 DEF TrailOk, CheckFields
    <3> QED
      BY <3>2, <3>3 DEF SameSnapshot
  <2>3. CASE Recheck
    BY <2>3, ToStepSame DEF Recheck
  <2>4. CASE FindBare
    <3>1. \/ \E q, todo : check' = [check EXCEPT !.at = "makeRoom", !.q = q, !.todo = todo]
          \/ \E q : check' = [check EXCEPT !.at = "coverSize", !.q = q]
          \/ check' = [check EXCEPT !.at = "end"]
      BY <2>4 DEF FindBare
    <3> QED
      BY <3>1 DEF SameSnapshot, CheckFields, TrailOk
  <2>5. CASE CoverSize
    <3>1. \/ \E q, p : check' = [check EXCEPT !.at = "coverPlace", !.q = q, !.px = p]
          \/ check' = [check EXCEPT !.at = "end"]
      BY <2>5 DEF CoverSize
    <3> QED
      BY <3>1 DEF SameSnapshot, CheckFields, TrailOk
  <2> QED
    BY <2>1, <2>2, <2>3, <2>4, <2>5
<1> QED
  BY <1>1, <1>2, SameTrail, CheckQuietly

\* The steps that ask for a stop
LEMMA PlacesTyped ==
    ASSUME Account, RowsOk, TrailOk,
           MovePlace \/ Safety \/ SafetySl \/ Create \/ CoverPlace
    PROVE  CheckKeeps
<1>1. UNCHANGED books /\ ts' = ts
  BY DEF MovePlace, Safety, SafetySl, Create, CoverPlace
<1>2. \E l, n, a, b : Attempt(l, n, a, b)
  BY DEF MovePlace, Safety, SafetySl, Create, CoverPlace
<1>3. Account' /\ Numbers /\ SameSnapshot
  BY <1>2, AttemptDoes
<1> QED
  BY <1>1, <1>3, SameTrail, RowsGrow DEF CheckKeeps

\* The steps that cancel
LEMMA CancelsNumbers ==
    ASSUME Account, NEW i, NEW ok \in BOOLEAN, CancelOrder(i, ok)
    PROVE  Account' /\ Numbers
<1>1. Account' /\ issued' = issued
  BY CancelEffect DEF Left, Nothing
<1> QED
  BY <1>1 DEF Numbers, Account

LEMMA CancelsTyped ==
    ASSUME Account, RowsOk, TrailOk, LiftCancel \/ MoveCancel \/ MakeRoom
    PROVE  CheckKeeps
<1>1. UNCHANGED books /\ ts' = ts
  BY DEF LiftCancel, MoveCancel, MakeRoom
<1>2. (\E i : \E ok \in BOOLEAN : CancelOrder(i, ok)) \/ Nothing
  BY DEF LiftCancel, MoveCancel, MakeRoom, Nothing
<1>3. Account' /\ Numbers
  BY <1>2, CancelsNumbers, NothingNumbers
<1>4. TrailOk'
  <2>1. CASE LiftCancel
    BY <1>1, <2>1, ToStepSame, SameTrail DEF LiftCancel
  <2>2. CASE MoveCancel
    <3>1. \/ \E i : check' = [check EXCEPT !.todo = @ \ {i}]
          \/ check' = [check EXCEPT !.at = "recheck"]
          \/ ToStep("movePlace")
      BY <2>2 DEF MoveCancel
    <3>2. SameSnapshot
      BY <3>1, ToStepSame DEF SameSnapshot, CheckFields, TrailOk
    <3> QED
      BY <1>1, <3>2, SameTrail
  <2>3. CASE MakeRoom
    <3>1. CASE ToStep("coverSize")
      BY <1>1, <3>1, ToStepSame, SameTrail
    <3>2. CASE \E ok \in BOOLEAN :
                 /\ CancelOrder(Lowest, ok)
                 /\ check' = [check EXCEPT
                                !.at = "coverSize",
                                !.free = IF ok THEN @ + book[Lowest].qty ELSE @]
      <4>1. PICK ok \in BOOLEAN :
                 /\ CancelOrder(Lowest, ok)
                 /\ check' = [check EXCEPT
                                !.at = "coverSize",
                                !.free = IF ok THEN @ + book[Lowest].qty ELSE @]
        BY <3>2
      <4>2. ok => Lowest \in DOMAIN book
        BY <4>1 DEF CancelOrder, Answer
      <4>3. ok => book[Lowest].qty \in Nat
        BY <4>2 DEF Account, BookOk, Leg
      <4> DEFINE n == IF ok THEN check.free + book[Lowest].qty ELSE check.free
      <4>4. n \in Int
        BY <4>3 DEF TrailOk
      <4>5. check' = [check EXCEPT !.at = "coverSize", !.free = n]
        BY <4>1
      <4> HIDE DEF n
      <4> QED
        BY <1>1, <4>4, <4>5 DEF TrailOk, CheckFields
    <3> QED
      BY <2>3, <3>1, <3>2 DEF MakeRoom
  <2> QED
    BY <2>1, <2>2, <2>3
<1> QED
  BY <1>1, <1>3, <1>4, RowsGrow DEF CheckKeeps

LEMMA TrailTyped ==
    ASSUME Account, RowsOk, TrailOk, Trail
    PROVE  CheckKeeps
<1>1. Nothing /\ UNCHANGED books
  BY DEF Trail, Nothing
<1>2. ts' \in Tracks
  <2>1. ts' = ts \/ ts' = Trailed(ts, price)
    BY DEF Trail
  <2> QED
    BY <2>1, TrailedOk DEF TrailOk, Account
<1>3. SameSnapshot
  <2>1. ToStep("cover") \/ ToStep("close") \/ \E p : check' = [check EXCEPT !.at = "move", !.px = p]
    BY DEF Trail
  <2> QED
    BY <2>1, ToStepSame DEF SameSnapshot, CheckFields, TrailOk
<1>4. TrailOk'
  BY <1>2, <1>3 DEF TrailOk, SameSnapshot
<1> QED
  BY <1>1, <1>4, CheckQuietly

\* Every order is taken off the book at once.
LEMMA CloseTyped ==
    ASSUME Account, RowsOk, TrailOk, Close
    PROVE  CheckKeeps
<1>1. ts' = ts /\ UNCHANGED books /\ ToStep("sell")
  BY DEF Close
<1>2. CASE Nothing
  BY <1>1, <1>2, ToStepSame, SameTrail, CheckQuietly
<1>3. CASE /\ book' = NoOrders
           /\ free' = free + SumFunction(locked)
           /\ locked' = [k \in Kinds |-> 0]
           /\ UNCHANGED <<price, issued, unbooked>>
  <2>1. SumFunction(locked) \in Nat
    <3>1. locked \in [Kinds -> Nat] /\ DOMAIN locked = Kinds /\ IsFiniteSet(Kinds)
      <4>1. Kinds = {"tp"} \cup {"sl"} \cup {"oco"}
        BY KindNames
      <4>2. IsFiniteSet(Kinds)
        BY <4>1, FS_Singleton, FS_Union
      <4> QED
        BY <4>2, AccountNat
    <3> QED
      BY <3>1, SumNat DEF SumFunction
  <2>2. \A k \in Kinds : QtyOf(book', k) = 0
    BY <1>3, QtyEmpty DEF NoOrders
  <2>3. BookOk(book', issued')
    BY <1>3 DEF BookOk, NoOrders
  <2>4. locked' \in [Kinds -> Nat] /\ \A k \in Kinds : locked'[k] = 0
    BY <1>3
  <2>5. Account'
    BY <1>3, <2>1, <2>2, <2>3, <2>4 DEF Account
  <2>6. Numbers
    BY <1>3 DEF Numbers, Account
  <2> QED
    BY <1>1, <2>5, <2>6, ToStepSame, SameTrail, RowsGrow DEF CheckKeeps
<1> QED
  BY <1>2, <1>3 DEF Close, Answer, Nothing

LEMMA SellSnapshotTyped ==
    ASSUME Account, RowsOk, TrailOk, SellSnapshot
    PROVE  CheckKeeps
<1>0. FloorStep(check.free) \in Int
  BY FloorStepInt DEF TrailOk
<1>1. ts' = NoTrack /\ UNCHANGED books /\ ToStep("cover")
  BY DEF SellSnapshot
<1>2. (\E ok \in BOOLEAN : SellNow(FloorStep(check.free), ok)) \/ Nothing
  BY DEF SellSnapshot, Nothing
<1>3. Account' /\ Numbers
  <2>1. CASE \E ok \in BOOLEAN : SellNow(FloorStep(check.free), ok)
    <3>1. Account' /\ (Sold(FloorStep(check.free)) \/ Nothing)
      BY <1>0, <2>1, SellEffect
    <3> QED
      BY <3>1, SoldNumbers
  <2> QED
    BY <1>2, <2>1, NothingNumbers
<1>4. TrailOk'
  BY <1>1, ToStepSame DEF TrailOk, SameSnapshot, NoTrack, Tracks
<1> QED
  BY <1>1, <1>3, <1>4, RowsGrow DEF CheckKeeps

LEMMA CheckTyped ==
    ASSUME Account, RowsOk, TrailOk, NEW found, Snapshot \/ CheckStep(found)
    PROVE  CheckKeeps
<1>1. CASE CleanUp
  <2>1. Nothing /\ UNCHANGED books /\ check' = NoCheck /\ ts' = NoTrack
    BY <1>1 DEF CleanUp, market, exchange, calls, Nothing
  <2>2. TrailOk'
    BY <2>1 DEF TrailOk, NoCheck, NoTrack, CheckFields, Tracks
  <2> QED
    BY <2>1, <2>2, CheckQuietly
<1>2. CASE PassOver
  <2>1. Nothing /\ UNCHANGED books /\ ToStep("end") /\ ts' = ts
    BY <1>2 DEF PassOver, market, exchange, calls, Nothing
  <2> QED
    BY <2>1, ToStepSame, SameTrail, CheckQuietly
<1> QED
  BY <1>1, <1>2, SnapshotTyped, SeeFillsTyped, LiftPlaceTyped, LooksTyped, PlacesTyped,
     CancelsTyped, TrailTyped, CloseTyped, SellSnapshotTyped DEF CheckStep

-----------------------------------------------------------------------------
(* The types of a position's life                                           *)

\* Orders are reported filled after they were accepted; what no books show
\* yet was reported filled.
Counted == filled \subseteq 1 .. issued /\ DOMAIN unbooked \subseteq filled

TypesInv ==
    /\ Account /\ RowsOk /\ LadderOk /\ ExitOk /\ TrailOk /\ Counted
    /\ phase \in Phases

LEMMA CountedGrows ==
    ASSUME Account', Numbers, Counted, filled' = filled \cup DOMAIN unbooked'
    PROVE  Counted'
<1>1. 1 .. issued \subseteq 1 .. issued'
  BY DEF Numbers
<1> QED
  BY <1>1 DEF Counted, Account

LEMMA InitTypes == Init => TypesInv
<1> SUFFICES ASSUME Init PROVE TypesInv
  OBVIOUS
<1>1. Entry \in Prices
  BY EntryAssumption DEF EntryAssumption
<1>2. Account
  <2>1. DOMAIN book = {} /\ DOMAIN unbooked = {} /\ free = 0 /\ issued = 0 /\ price = Entry
    BY DEF Init, NoOrders
  <2>2. \A k \in Kinds : QtyOf(book, k) = 0
    BY <2>1, QtyEmpty
  <2>3. locked \in [Kinds -> Nat] /\ \A k \in Kinds : locked[k] = 0
    BY DEF Init
  <2>4. BookOk(book, issued)
    BY <2>1 DEF BookOk
  <2> QED
    BY <1>1, <2>1, <2>2, <2>3, <2>4 DEF Account
<1>3. RowsOk
  BY DEF Init, RowsOk, NoRow, NoTracker, TrackerFields
<1>4. LadderOk
  BY DEF Init, NoLadder, LadderOk, Rungs
<1>5. ExitOk
  BY DEF Init, ExitOk, Resting, ExitFields, ExitKinds
<1>6. TrailOk
  BY DEF Init, TrailOk, NoCheck, NoTrack, CheckFields, Tracks
<1>7. Counted /\ phase \in Phases
  BY DEF Init, Counted, Phases, NoOrders
<1> QED
  BY <1>2, <1>3, <1>4, <1>5, <1>6, <1>7 DEF TypesInv

\* What the parts owe each other in a step
Keeps == Account' /\ Numbers /\ RowsOk' /\ LadderOk' /\ ExitOk' /\ TrailOk' /\ phase' \in Phases

LEMMA StartScanTyped ==
    ASSUME TypesInv, StartScan
    PROVE  Keeps
<1>1. /\ Nothing /\ UNCHANGED <<tracker, banked, life>> /\ UNCHANGED ladder
      /\ UNCHANGED exits /\ UNCHANGED trailing /\ phase' \in Phases
  BY DEF StartScan, Nothing, Phases
<1>2. Account' /\ Numbers
  BY <1>1, NothingNumbers DEF TypesInv
<1>3. DefaultSl \in Nat
  <2>1. Entry * (100 - SlExit) \in Nat
    <3>1. Entry \in Nat /\ 100 - SlExit \in Nat
      BY EntryAssumption, ExitAssumption, ExchangeAssumption
         DEF EntryAssumption, ExitAssumption, ExchangeAssumption
    <3> QED
      BY <3>1
  <2> QED
    BY <2>1 DEF DefaultSl
<1>4. row' \in [qty : Nat, sl : Nat]
  <2>1. \/ row' = NoRow \/ row' = row
        \/ row' = [qty |-> Held, sl |-> IF row.qty > 0 THEN row.sl ELSE DefaultSl]
    BY DEF StartScan, Sync
  <2> QED
    BY <1>3, <2>1, AccountNat DEF TypesInv, RowsOk, NoRow
<1>5. RowsOk'
  BY <1>1, <1>2, <1>4, OrdersGrow DEF TypesInv, RowsOk
<1> QED
  BY <1>1, <1>2, <1>5, LadderGrow DEF TypesInv, Keeps, ExitOk, exits, TrailOk, trailing

\* A number and one that is added to it
LEMMA MoreNat ==
    ASSUME NEW a \in Nat, NEW b \in Nat
    PROVE  a + b \in Nat /\ a <= a + b
OBVIOUS

LEMMA BuyTyped ==
    ASSUME TypesInv, Buy
    PROVE  Keeps
<1>1. /\ free' \in Nat /\ life' = life + 1 /\ rung' = "bought"
      /\ UNCHANGED <<price, locked, book, issued, unbooked, row, tracker, banked, slq,
                     tpq, left, placed, slId, exit, check, ts, phase>>
  BY LifeAssumption DEF LifeAssumption, Buy, calls, exits, trailing
<1>2. qty' \in Nat
  <2>1. qty' = free' + Fee
    BY DEF Buy
  <2>2. Fee \in Nat
    BY LifeAssumption DEF LifeAssumption
  <2> QED
    BY <1>1, <2>1, <2>2, MoreNat
<1>3. Account' /\ Numbers
  BY <1>1 DEF TypesInv, Account, Numbers
<1>4. RowsOk'
  BY <1>1, <1>3, OrdersGrow DEF TypesInv, RowsOk
<1>5. LadderOk'
  BY <1>1, <1>2, <1>3, OrdersGrow DEF TypesInv, LadderOk, Rungs
<1> QED
  BY <1>1, <1>3, <1>4, <1>5 DEF TypesInv, Keeps, ExitOk, TrailOk

LEMMA ScanRestTyped ==
    ASSUME TypesInv, Entering \/ Reconcile \/ ExitStep \/ Trailing
    PROVE  Keeps
<1> USE DEF TypesInv
<1>1. CASE Entering
  <2>1. phase' \in Phases /\ UNCHANGED exit /\ UNCHANGED <<check, ts>>
    BY <1>1 DEF Entering, To, Phases, exits, trailing
  <2>2. CASE LadderStep
    BY <2>1, <2>2, LadderTyped DEF LadderKeeps, Keeps, ExitOk, TrailOk
  <2>3. CASE UNCHANGED <<market, books, ladder>>
    <3>1. Nothing /\ UNCHANGED books /\ UNCHANGED ladder
      BY <2>3 DEF market, calls, Nothing
    <3> QED
      BY <2>1, <3>1, NothingNumbers, RowsGrow, LadderGrow DEF Keeps, ExitOk, TrailOk
  <2> QED
    BY <1>1, <2>2, <2>3 DEF Entering
<1>2. CASE Reconcile
  <2>1. /\ UNCHANGED <<exchange, issued, banked, life>> /\ UNCHANGED ladder
        /\ UNCHANGED <<exit, check, ts>> /\ phase' \in Phases
        /\ BookFills \/ NothingToBook
    BY <1>2 DEF Reconcile, To, Phases, exits, trailing
  <2>2. banked' \in 0 .. life'
    BY <2>1 DEF RowsOk
  <2>3. Account' /\ Numbers /\ RowsOk'
    BY <2>1, <2>2, BookTyped
  <2> QED
    BY <2>1, <2>3, LadderGrow DEF Keeps, ExitOk, TrailOk
<1>3. CASE ExitStep
  <2>1. UNCHANGED ladder /\ UNCHANGED <<check, ts>>
    BY <1>3 DEF ExitStep, trailing
  <2>2. phase' \in Phases
    BY <1>3 DEF ExitStep, To, AfterExit, Phases
  <2>3. CASE Choose("scan") \/ ExecuteExit("scan")
    <3>1. ExitKeeps
      BY <2>3, ExitTyped DEF Procs
    <3> QED
      BY <2>1, <2>2, <3>1, LadderGrow DEF ExitKeeps, Keeps, TrailOk
  <2>4. CASE UNCHANGED <<market, books, exits>>
    <3>1. Nothing /\ UNCHANGED books /\ exit' = exit
      BY <2>4 DEF market, calls, Nothing, exits
    <3> QED
      BY <2>1, <2>2, <3>1, NothingNumbers, RowsGrow, LadderGrow DEF Keeps, ExitOk, TrailOk
  <2> QED
    BY <1>3, <2>3, <2>4 DEF ExitStep
<1>4. CASE Trailing
  <2>1. UNCHANGED ladder /\ exit' = exit /\ phase' \in Phases
    BY <1>4 DEF Trailing, exits, To, Phases
  <2>2. CheckKeeps
    BY <1>4, CheckTyped DEF Trailing
  <2> QED
    BY <2>1, <2>2, LadderGrow DEF CheckKeeps, Keeps, ExitOk
<1> QED
  BY <1>1, <1>2, <1>3, <1>4

LEMMA KilledTyped ==
    ASSUME TypesInv, Killed
    PROVE  Keeps
<1>1. /\ Nothing /\ UNCHANGED books /\ phase' = "idle" /\ ts' = ts
      /\ rung' = "idle" /\ qty' = 0 /\ slq' = 0 /\ tpq' = 0 /\ placed' = {} /\ slId' = 0
      /\ exit' = [exit EXCEPT !["scan"] = Resting] /\ check' = NoCheck
  BY DEF Killed, Nothing
<1>2. Account' /\ Numbers /\ RowsOk'
  BY <1>1, NothingNumbers, RowsGrow DEF TypesInv
<1>3. LadderOk'
  BY <1>1, <1>2 DEF LadderOk, Rungs, Numbers
<1>4. ExitOk'
  BY <1>1 DEF TypesInv, ExitOk, Resting, ExitFields, ExitKinds
<1>5. TrailOk'
  BY <1>1 DEF TypesInv, TrailOk, NoCheck, CheckFields
<1> QED
  BY <1>1, <1>2, <1>3, <1>4, <1>5 DEF Keeps, Phases

LEMMA OthersTyped ==
    ASSUME TypesInv, Panel \/ Market \/ Cool
    PROVE  Keeps
<1> USE DEF TypesInv
<1>0. UNCHANGED ladder /\ UNCHANGED <<check, ts>> /\ phase' = phase
  BY DEF Panel, Market, Cool, trailing
<1>1. CASE Panel
  <2>1. ExitKeeps
    BY <1>1, ExitTyped DEF Panel, Procs
  <2> QED
    BY <1>0, <2>1, LadderGrow DEF ExitKeeps, Keeps, TrailOk
<1>2. CASE Market
  <2>1. exit' = exit /\ UNCHANGED books
    BY <1>2 DEF Market, exits
  <2>2. Account' /\ issued' = issued
    BY <1>2, FillEffect, MoveEffect DEF Market, Left
  <2>3. Numbers
    BY <2>2 DEF Numbers, Account
  <2> QED
    BY <1>0, <2>1, <2>2, <2>3, RowsGrow, LadderGrow DEF Keeps, ExitOk, TrailOk
<1>3. CASE Cool
  <2>1. Nothing /\ UNCHANGED books /\ exit' = exit
    BY <1>3 DEF Cool, CoolOff, market, calls, Nothing
  <2> QED
    BY <1>0, <2>1, NothingNumbers, RowsGrow, LadderGrow DEF Keeps, ExitOk, TrailOk
<1> QED
  BY <1>1, <1>2, <1>3

LEMMA TypesStep == TypesInv /\ [Next]_vars => TypesInv'
<1> SUFFICES ASSUME TypesInv, [Next]_vars PROVE TypesInv'
  OBVIOUS
<1>1. CASE Next
  <2>1. Keeps
    BY <1>1, StartScanTyped, BuyTyped, ScanRestTyped, KilledTyped, OthersTyped DEF Next
  <2>2. Counted'
    BY <1>1, <2>1, CountedGrows DEF Keeps, Next, TypesInv
  <2> QED
    BY <2>1, <2>2 DEF Keeps, TypesInv
<1>2. CASE UNCHANGED vars
  <2>1. /\ Nothing /\ UNCHANGED books /\ UNCHANGED ladder /\ UNCHANGED filled
        /\ UNCHANGED <<exit, check, ts, phase>>
    BY <1>2 DEF vars, market, calls, Nothing, exits, trailing
  <2>2. Account' /\ Numbers /\ RowsOk' /\ LadderOk'
    BY <2>1, NothingNumbers, RowsGrow, LadderGrow DEF TypesInv
  <2> QED
    BY <2>1, <2>2 DEF TypesInv, ExitOk, TrailOk, Counted, Nothing
<1> QED
  BY <1>1, <1>2

\* The types of all components hold in every state: what is locked is the
\* quantity behind the resting orders, the tracker names orders the exchange
\* has numbered, and the track's stop is a price.
THEOREM LifeTyped == Spec => []TypeOK
<1>1. Spec => []TypesInv
  BY InitTypes, TypesStep, PTL DEF Spec
<1>2. TypesInv => TypeOK
  <2> SUFFICES ASSUME TypesInv PROVE TypeOK
    OBVIOUS
  <2>1. \A i \in DOMAIN book : i \in 1 .. issued /\ book[i] \in Leg
    BY DEF TypesInv, Account, BookOk
  <2>2. tracker.done \subseteq Ids
    BY DEF TypesInv, RowsOk, Ids
  <2>3. tracker.tps \subseteq [id : 1 .. issued, tier : DOMAIN TpPct]
    BY DEF TypesInv, RowsOk, TierOrders
  <2>4. \A p \in Procs : exit[p].kind \in ExitKinds
    BY DEF TypesInv, ExitOk
  <2>5. ts \in [high : {0} \cup Prices, sl : Nat, on : BOOLEAN]
    BY DEF TypesInv, TrailOk, Tracks
  <2> QED
    BY <2>1, <2>2, <2>3, <2>4, <2>5 DEF TypeOK, TypesInv, Account, Counted, RowsOk, LadderOk
<1> QED
  BY <1>1, <1>2, PTL

-----------------------------------------------------------------------------
(* What the ladder knows                                                    *)

\* Before a stop is asked for with an answer that counts, after it, and once
\* the orders are recorded.
Unarmed == {"smallSl", "tp1", "tierSl", "residue", "cancel", "oco", "cSl"}
Armed == {"cTp", "cover", "extra", "dump", "done"}
Judged == {"cover", "extra", "dump", "done"}

\* The orders at the exchange are this ladder's: the BUY found none.
OwnBook ==
    /\ phase = "enter"
    /\ mark.first \in Nat /\ mark.first <= issued
    /\ \A i \in DOMAIN book : i > mark.first

\* No more is at the exchange than was bought.  While no stop was heard of,
\* what is free, behind an unheard-of stop or behind the take-profits counted
\* is no more than that.
Counts ==
    /\ rung = "bought" => DOMAIN book = {}
    /\ Held <= qty
    /\ rung \in Unarmed => slq = 0 /\ tpq = 0
    /\ rung = "dump" => slq = 0
    /\ rung \in {"cTp", "cover", "dump"} /\ slq = 0 => free + StopCover + tpq <= qty

\* While nothing was sold, a stop that was heard of stands, and without one
\* somebody was told.
Stops ==
    /\ rung # "bought" /\ NothingSold => slq < StopCover + Step
    /\ rung \in Armed /\ NothingSold /\ StopCover = 0 => alerted

\* An order rests or was filled.
Live(o) == o.id \in DOMAIN book \cup filled

\* The take-profits placed are live.  Until they are recorded the tracker
\* names orders of the last position only.
Names ==
    /\ rung # "bought" => \A o \in placed : Live(o)
    /\ rung \in Judged => \A o \in tracker.tps : o.id > mark.first => Live(o)
    /\ rung \notin Judged => \A o \in tracker.tps : o.id <= mark.first

LadderInv == rung # "idle" => OwnBook /\ Counts /\ Stops /\ Names

-----------------------------------------------------------------------------
(* Steps while a ladder runs                                                *)

\* New orders have new numbers, fills stay fills, nothing is bought.
Onward ==
    /\ phase' = phase /\ mark'.first = mark.first
    /\ issued' \in Nat /\ issued <= issued' /\ Held' <= Held
    /\ filled \subseteq filled' /\ DOMAIN unbooked' \subseteq filled'
    /\ \A i \in DOMAIN book' \ DOMAIN book : i = issued' /\ issued < issued'

\* An order leaves the book by being filled.
Keeping == DOMAIN book \subseteq DOMAIN book' \cup filled'

Running == phase' = phase /\ mark'.first = mark.first /\ filled' = filled \cup DOMAIN unbooked'

LEMMA NothingOnward ==
    ASSUME Account, Running, Nothing
    PROVE  Onward /\ Keeping
<1>1. Held' = Held
  BY DEF Nothing, exchange, Held
<1>2. Held' <= Held
  BY <1>1, AccountNat
<1> QED
  BY <1>2 DEF Running, Nothing, exchange, Onward, Keeping, Account

LEMMA TakenOnward ==
    ASSUME Account, Running, NEW l, Taken(l)
    PROVE  Onward /\ Keeping
BY DEF Running, Taken, Onward, Keeping, Account

LEMMA AskedOnward ==
    ASSUME Account, Running, NEW l, Asked(l)
    PROVE  Onward /\ Keeping
BY NothingOnward, TakenOnward DEF Asked

LEMMA SoldOnward ==
    ASSUME Account, Running, NEW q \in Int, Sold(q) \/ Nothing
    PROVE  Onward /\ Keeping
<1>1. CASE Sold(q)
  <2>1. Held' <= Held
    BY <1>1, AccountNat, ExchangeAssumption DEF Sold, Held, Account, ExchangeAssumption
  <2> QED
    BY <1>1, <2>1 DEF Running, Sold, Onward, Keeping, Account
<1> QED
  BY <1>1, NothingOnward

LEMMA LeftOnward ==
    ASSUME Account, Running, NEW i, Left(i)
    PROVE  Onward /\ (i \in DOMAIN unbooked' => Keeping)
BY DEF Running, Left, Onward, Keeping, Account

LEMMA OwnBookStep ==
    ASSUME OwnBook, TypesInv, Onward
    PROVE  OwnBook'
BY DEF OwnBook, Onward, TypesInv, Account, BookOk

\* What is sold stays sold.
LEMMA SoldStays ==
    ASSUME Onward, NothingSold'
    PROVE  NothingSold
BY DEF Onward, NothingSold

LEMMA LiveStays ==
    ASSUME Onward, Keeping, NEW o, Live(o)
    PROVE  Live(o)'
BY DEF Onward, Keeping, Live

LEMMA AccountNext ==
    ASSUME Account'
    PROVE  StopCover' \in Nat /\ Held' \in Nat /\ free' \in Nat /\ free' + StopCover' <= Held'
BY KindNames DEF StopCover, Held, Account

\* Nothing is said of the stops before one is heard of.
LEMMA UnarmedStops ==
    ASSUME TypesInv', rung' \in Unarmed, slq' = 0
    PROVE  Stops'
<1>1. StopCover' \in Nat
  BY AccountNext DEF TypesInv
<1>2. Step \in Nat /\ Step > 0
  BY ExchangeAssumption DEF ExchangeAssumption
<1>3. 0 < StopCover' + Step
  BY <1>1, <1>2 DEF StopCover
<1> QED
  <2>1. rung' \notin Armed
    BY DEF Unarmed, Armed
  <2>2. slq' < StopCover' + Step
    BY <1>3
  <2> QED
    BY <2>1, <2>2 DEF Stops

-----------------------------------------------------------------------------
(* The ladder keeps what it knows                                           *)

LadderKnown == OwnBook /\ Counts /\ Stops /\ Names

Climbing == TypesInv /\ TypesInv' /\ rung # "idle" /\ LadderKnown /\ Running

LEMMA StepPos == Step \in Nat /\ Step > 0
BY ExchangeAssumption DEF ExchangeAssumption

LEMMA NamesStay ==
    ASSUME Climbing, Onward, Keeping, placed' = placed, tracker' = tracker,
           rung # "bought", rung' # "bought", rung \in Judged => rung' \in Judged
    PROVE  Names'
<1>1. \A o \in placed' : Live(o)'
  BY LiveStays DEF Climbing, LadderKnown, Names
<1>2. \A o \in tracker.tps : o.id \in Nat
  BY DEF Climbing, TypesInv, RowsOk, TierOrders
<1>3. mark.first \in Nat /\ mark'.first = mark.first
  BY DEF Climbing, LadderKnown, OwnBook, Onward
<1>4. CASE rung \in Judged
  <2>1. \A o \in tracker'.tps : o.id > mark'.first => Live(o)'
    BY <1>3, <1>4, LiveStays DEF Climbing, LadderKnown, Names
  <2> QED
    BY <1>1, <1>4, <2>1 DEF Names
<1>5. CASE rung \notin Judged
  <2>1. \A o \in tracker'.tps : o.id <= mark'.first
    BY <1>3, <1>5 DEF Climbing, LadderKnown, Names
  <2>2. \A o \in tracker'.tps : ~(o.id > mark'.first)
    BY <1>2, <1>3, <2>1
  <2> QED
    BY <1>1, <2>1, <2>2 DEF Names
<1> QED
  BY <1>4, <1>5

\* The quantity bought bounds what is held, and what is free or protected.
LEMMA HeldStays ==
    ASSUME Climbing, Onward, rung # "bought", qty' = qty
    PROVE  /\ Held' <= qty' /\ Held' \in Nat /\ qty' \in Nat
           /\ tpq' = 0 => free' + StopCover' + tpq' <= qty'
<1>1. Held <= qty /\ Held \in Nat /\ qty \in Nat
  BY AccountNat DEF Climbing, LadderKnown, Counts, TypesInv, LadderOk
<1>2. Held' <= Held /\ Held' \in Nat
  BY AccountNext DEF Onward, Climbing, TypesInv
<1>3. Held' <= qty'
  BY <1>1, <1>2
<1>4. /\ free' \in Nat /\ StopCover' \in Nat /\ free' + StopCover' <= Held'
  BY AccountNext DEF Climbing, TypesInv
<1>5. tpq' = 0 => free' + StopCover' + tpq' <= qty'
  BY <1>1, <1>2, <1>3, <1>4 DEF StopCover
<1> QED
  BY <1>1, <1>2, <1>3, <1>5

\* An accepted stop for q units covers them up to a lot.
LEMMA StopTaken ==
    ASSUME Account, Account', NEW q \in Int, NEW l, Taken(l), l.kind # "tp",
           l.qty = FloorStep(q)
    PROVE  q < StopCover' + Step /\ StopCover' # 0 /\ q > 0
<1>1. FloorStep(q) \in Int /\ FloorStep(q) <= q /\ q < FloorStep(q) + Step
  BY FloorStepInt
<1>2. Step <= l.qty /\ StopCover' = StopCover + l.qty
  BY DEF Taken
<1>3. StopCover \in Nat
  BY AccountNat
<1> QED
  BY <1>1, <1>2, <1>3, StepPos

LEMMA SlOfLeg ==
    ASSUME NEW q PROVE SlOf(q).kind = "sl" /\ SlOf(q).qty = FloorStep(q)
BY DEF SlOf, StopLoss

LEMMA BeginKnows ==
    ASSUME Climbing, Begin
    PROVE  LadderKnown'
<1>1. /\ rung = "bought" /\ Nothing /\ UNCHANGED books
      /\ qty' \in {free, qty} /\ slq' = 0 /\ tpq' = 0 /\ placed' = {}
      /\ rung' = FirstRung(qty')
  BY DEF Begin, Goto, Nothing
<1>2. Onward /\ Keeping
  BY <1>1, NothingOnward DEF Climbing, TypesInv
<1>3. rung' \in Unarmed
  BY <1>1 DEF FirstRung, Unarmed
<1>4. rung' \notin Judged /\ rung' \notin Armed /\ rung' # "bought"
  BY <1>3 DEF Unarmed, Judged, Armed
<1>5. Held' <= qty'
  <2>1. DOMAIN book = {}
    BY <1>1 DEF Climbing, LadderKnown, Counts
  <2>2. \A k \in Kinds : locked[k] = 0
    BY <2>1, QtyEmpty DEF Climbing, TypesInv, Account
  <2>3. Held = free
    BY <2>2, KindNames DEF Held, Climbing, TypesInv, Account
  <2>4. Held <= qty /\ Held' = Held
    BY <1>1 DEF Nothing, exchange, Held, Climbing, LadderKnown, Counts
  <2> QED
    BY <1>1, <2>3, <2>4 DEF Climbing, TypesInv, Account
<1>6. Counts'
  BY <1>1, <1>3, <1>4, <1>5 DEF Counts, Armed
<1>7. OwnBook'
  BY <1>2, OwnBookStep DEF Climbing, LadderKnown
<1>8. Stops'
  BY <1>1, <1>3, UnarmedStops DEF Climbing
<1>9. Names'
  <2>1. \A o \in tracker'.tps : o.id <= mark'.first
    BY <1>1, <1>2 DEF Climbing, LadderKnown, Names, Judged, books, Onward
  <2> QED
    BY <1>1, <1>4, <2>1 DEF Names
<1> QED
  BY <1>6, <1>7, <1>8, <1>9 DEF LadderKnown

\* What is left to show of a step besides the stops and the names.
LEMMA KnownStays ==
    ASSUME Climbing, Onward, rung # "bought", rung' # "bought", qty' = qty, Stops', Names',
           rung' \in Unarmed => slq' = 0 /\ tpq' = 0,
           rung' = "dump" => slq' = 0,
           rung' \in {"cTp", "cover", "dump"} /\ slq' = 0 =>
                tpq' = 0 \/ free' + StopCover' + tpq' <= qty'
    PROVE  LadderKnown'
<1>1. OwnBook'
  BY OwnBookStep DEF Climbing, LadderKnown
<1>2. Held' <= qty' /\ (tpq' = 0 => free' + StopCover' + tpq' <= qty')
  BY HeldStays
<1>3. Counts'
  BY <1>2 DEF Counts
<1> QED
  BY <1>1, <1>3 DEF LadderKnown

\* Somebody was told, or a stop was heard of.
LEMMA ToldStops ==
    ASSUME Account', slq' = 0, alerted' = TRUE
    PROVE  Stops'
<1>1. StopCover' \in Nat
  BY AccountNext
<1>2. slq' < StopCover' + Step
  BY <1>1, StepPos DEF StopCover
<1> QED
  BY <1>2 DEF Stops

LEMMA SmallSlKnows ==
    ASSUME Climbing, SmallSl
    PROVE  LadderKnown'
<1>1. /\ Account' /\ UNCHANGED <<qty, tpq, left, placed, slId, books>>
      /\ \/ Taken(SlOf(qty)) /\ slq' = qty /\ rung' = "cover" /\ alerted' = alerted
         \/ Asked(SlOf(qty)) /\ slq' = slq /\ rung' = "cover" /\ alerted' = TRUE
         \/ Asked(SlOf(qty)) /\ UNCHANGED <<rung, slq, alerted>>
  BY SmallSlDoes DEF Climbing, TypesInv
<1>2. rung = "smallSl" /\ slq = 0 /\ tpq = 0 /\ qty \in Nat /\ UNCHANGED <<placed, tracker>>
  BY <1>1 DEF SmallSl, Climbing, LadderKnown, Counts, Unarmed, TypesInv, LadderOk, books
<1>3. Onward /\ Keeping
  BY <1>1, AskedOnward DEF Climbing, TypesInv, Asked
<1>4. rung' \in {"cover", "smallSl"}
  BY <1>1, <1>2
<1>5. Names'
  BY <1>1, <1>2, <1>3, <1>4, NamesStay DEF Judged
<1>6. Stops'
  <2>1. CASE rung' = "smallSl" /\ slq' = slq
    BY <1>2, <2>1, UnarmedStops DEF Climbing, Unarmed
  <2>2. CASE Taken(SlOf(qty)) /\ slq' = qty
    <3>1. slq' < StopCover' + Step /\ StopCover' # 0
      BY <1>1, <1>2, <2>2, StopTaken, SlOfLeg DEF Climbing, TypesInv
    <3> QED
      BY <3>1 DEF Stops
  <2>3. CASE slq' = slq /\ alerted' = TRUE
    BY <1>1, <1>2, <2>3, ToldStops
  <2> QED
    BY <1>1, <1>2, <2>1, <2>2, <2>3
<1>7. rung' \in Unarmed => slq' = 0 /\ tpq' = 0
  BY <1>1, <1>2 DEF Unarmed
<1> QED
  BY <1>1, <1>2, <1>3, <1>4, <1>5, <1>6, <1>7, KnownStays

LEMMA Tp1Knows ==
    ASSUME Climbing, Tp1
    PROVE  LadderKnown'
<1> DEFINE l == TakeProfit(Tranche(qty), TpPx(1))
<1>1. /\ UNCHANGED <<qty, slq, tpq, left, slId, alerted, books>> /\ Asked(l)
      /\ rung' \in {"tierSl", "residue", rung} /\ rung = "tp1"
      /\ placed' = placed \/ (Taken(l) /\ placed' = {[id |-> issued', tier |-> 1]})
  BY Tp1Does DEF Climbing, TypesInv, Asked, Tp1
<1> HIDE DEF l
<1>2. Onward /\ Keeping
  BY <1>1, AskedOnward DEF Climbing, TypesInv
<1>3. slq' = 0 /\ tpq' = 0 /\ rung' \in Unarmed /\ tracker' = tracker
  BY <1>1 DEF Climbing, LadderKnown, Counts, Unarmed, books
<1>4. Stops'
  BY <1>3, UnarmedStops DEF Climbing
<1>5. Names'
  <2>1. CASE placed' = placed
    BY <1>1, <1>2, <1>3, <2>1, NamesStay DEF Judged
  <2>2. CASE Taken(l) /\ placed' = {[id |-> issued', tier |-> 1]}
    <3>1. \A o \in placed' : Live(o)'
      BY <1>2, <2>2 DEF Taken, Live, Onward
    <3>2. rung \notin Judged /\ rung' \notin Judged
      BY <1>1 DEF Judged
    <3> QED
      BY <1>2, <1>3, <3>1, <3>2 DEF Names, Climbing, LadderKnown, Onward
  <2> QED
    BY <1>1, <2>1, <2>2
<1> QED
  BY <1>1, <1>2, <1>3, <1>4, <1>5, KnownStays

LEMMA TierSlKnows ==
    ASSUME Climbing, TierSl
    PROVE  LadderKnown'
<1> DEFINE rest == FloorStep(qty - BehindTp)
<1>0. rest \in Int
  BY BehindNat, FloorStepInt DEF LadderOk, Climbing, TypesInv
<1>1. /\ Account' /\ UNCHANGED <<qty, left, placed, alerted, row, banked, life>>
      /\ Asked(SlOf(rest)) /\ rung = "tierSl"
      /\ \/ /\ Taken(SlOf(rest)) /\ slq' = rest /\ tpq' = BehindTp
            /\ tracker' = Tracker(qty, placed, issued') /\ rung' = "cover"
         \/ UNCHANGED <<slq, tpq, slId, tracker>> /\ rung' \in {"residue", "tierSl"}
  BY TierSlDoes DEF Climbing, TypesInv, Asked, TierSl
<1> HIDE DEF rest
<1>2. Onward /\ Keeping
  BY <1>1, AskedOnward DEF Climbing, TypesInv
<1>3. slq = 0 /\ tpq = 0
  BY <1>1 DEF Climbing, LadderKnown, Counts, Unarmed
<1>4. CASE UNCHANGED <<slq, tpq, slId, tracker>> /\ rung' \in {"residue", "tierSl"}
  <2>1. slq' = 0 /\ tpq' = 0 /\ rung' \in Unarmed
    BY <1>3, <1>4 DEF Unarmed
  <2>2. Stops'
    BY <2>1, UnarmedStops DEF Climbing
  <2>3. Names'
    BY <1>1, <1>2, <1>4, NamesStay DEF Judged
  <2> QED
    BY <1>1, <1>2, <1>4, <2>1, <2>2, <2>3, KnownStays
<1>5. CASE /\ Taken(SlOf(rest)) /\ slq' = rest
           /\ tracker' = Tracker(qty, placed, issued') /\ rung' = "cover"
  <2>1. slq' < StopCover' + Step /\ StopCover' # 0 /\ slq' > 0
    BY <1>0, <1>1, <1>5, StopTaken, SlOfLeg DEF Climbing, TypesInv
  <2>2. Stops'
    BY <2>1 DEF Stops
  <2>3. \A o \in placed : Live(o)'
    BY <1>1, <1>2, LiveStays DEF Climbing, LadderKnown, Names
  <2>4. tracker'.tps = placed /\ placed' = placed
    BY <1>1, <1>5 DEF Tracker
  <2>5. Names'
    BY <1>5, <2>3, <2>4 DEF Names, Judged
  <2>6. slq' # 0
    BY <2>1, <1>0, <1>5
  <2> QED
    BY <1>1, <1>2, <1>5, <2>2, <2>5, <2>6, KnownStays DEF Unarmed
<1> QED
  BY <1>1, <1>4, <1>5

LEMMA ResidueKnows ==
    ASSUME Climbing, Residue \/ CancelResidue
    PROVE  LadderKnown'
<1>1. CASE Residue
  <2>1. /\ Nothing /\ UNCHANGED <<qty, slq, tpq, placed, slId, books>>
        /\ rung' = "cancel" /\ rung = "residue"
    BY <1>1 DEF Residue, Goto, Nothing
  <2>2. Onward /\ Keeping
    BY <2>1, NothingOnward DEF Climbing, TypesInv
  <2>3. slq' = 0 /\ tpq' = 0 /\ rung' \in Unarmed /\ tracker' = tracker
    BY <2>1 DEF Climbing, LadderKnown, Counts, Unarmed, books
  <2>4. Stops'
    BY <2>3, UnarmedStops DEF Climbing
  <2>5. Names'
    BY <2>1, <2>2, <2>3, NamesStay DEF Judged
  <2> QED
    BY <2>1, <2>2, <2>3, <2>4, <2>5, KnownStays
<1>2. CASE CancelResidue
  <2>1. /\ UNCHANGED <<qty, slq, tpq, slId, alerted, books>> /\ placed' = {}
        /\ rung' \in {"cancel", "oco"} /\ rung = "cancel"
        /\ Nothing \/ \E i \in left : Left(i)
    BY <1>2, CancelResidueDoes DEF Climbing, TypesInv, CancelResidue
  <2>2. Onward
    BY <2>1, NothingOnward, LeftOnward DEF Climbing, TypesInv
  <2>3. slq' = 0 /\ tpq' = 0 /\ rung' \in Unarmed /\ tracker' = tracker
    BY <2>1 DEF Climbing, LadderKnown, Counts, Unarmed, books
  <2>4. Stops'
    BY <2>3, UnarmedStops DEF Climbing
  <2>5. Names'
    <3>1. rung \notin Judged /\ rung' \notin Judged
      BY <2>1 DEF Judged
    <3> QED
      BY <2>1, <2>2, <2>3, <3>1 DEF Climbing, LadderKnown, Names, Onward
  <2> QED
    BY <2>1, <2>2, <2>3, <2>4, <2>5, KnownStays
<1> QED
  BY <1>1, <1>2

LEMMA PlaceOcoKnows ==
    ASSUME Climbing, PlaceOco
    PROVE  LadderKnown'
<1> DEFINE l == Oco(FloorStep(qty), TpPx(1), StopPx)
<1>1. /\ Account' /\ UNCHANGED <<qty, tpq, left, placed, slId, alerted, books>>
      /\ Asked(l) /\ rung = "oco"
      /\ \/ Taken(l) /\ slq' = qty /\ rung' = "done"
         \/ slq' = slq /\ rung' \in {"cSl", "oco"}
  BY PlaceOcoDoes DEF Climbing, TypesInv, Asked, PlaceOco
<1>2. l.kind = "oco" /\ l.qty = FloorStep(qty)
  BY DEF Oco
<1> HIDE DEF l
<1>3. Onward /\ Keeping
  BY <1>1, AskedOnward DEF Climbing, TypesInv
<1>4. slq = 0 /\ tpq = 0 /\ qty \in Nat
  BY <1>1 DEF Climbing, LadderKnown, Counts, Unarmed, TypesInv, LadderOk
<1>5. rung' \in {"cSl", "oco", "done"} /\ tracker' = tracker
  BY <1>1 DEF books
<1>6. Names'
  BY <1>1, <1>3, <1>5, NamesStay DEF Judged
<1>7. CASE Taken(l) /\ slq' = qty /\ rung' = "done"
  <2>1. slq' < StopCover' + Step /\ StopCover' # 0
    BY <1>1, <1>2, <1>4, <1>7, StopTaken DEF Climbing, TypesInv
  <2>2. Stops'
    BY <2>1 DEF Stops
  <2> QED
    BY <1>1, <1>3, <1>6, <1>7, <2>2, KnownStays DEF Unarmed
<1>8. CASE slq' = slq /\ rung' \in {"cSl", "oco"}
  <2>1. slq' = 0 /\ tpq' = 0 /\ rung' \in Unarmed
    BY <1>1, <1>4, <1>8 DEF Unarmed
  <2>2. Stops'
    BY <2>1, UnarmedStops DEF Climbing
  <2> QED
    BY <1>1, <1>3, <1>6, <1>8, <2>1, <2>2, KnownStays
<1> QED
  BY <1>1, <1>7, <1>8

LEMMA CSlKnows ==
    ASSUME Climbing, CSl
    PROVE  LadderKnown'
<1>0. CStop(qty) \in Int
  BY TiersNat DEF LadderOk, Climbing, TypesInv
<1> DEFINE l == SlOf(CStop(qty))
<1>1. /\ Account' /\ UNCHANGED <<qty, tpq, placed, books>>
      /\ Asked(l) /\ rung = "cSl"
      /\ \/ Taken(l) /\ slq' = CStop(qty) /\ rung' = "cTp"
         \/ slq' = slq /\ alerted' = TRUE /\ rung' = "cTp"
         \/ slq' = slq /\ rung' = "cSl"
  BY CSlDoes DEF Climbing, TypesInv, Asked, CSl
<1> HIDE DEF l
<1>2. Onward /\ Keeping
  BY <1>1, AskedOnward DEF Climbing, TypesInv
<1>3. slq = 0 /\ tpq = 0 /\ tpq' = 0
  BY <1>1 DEF Climbing, LadderKnown, Counts, Unarmed
<1>4. rung' \in {"cTp", "cSl"} /\ tracker' = tracker
  BY <1>1 DEF books
<1>5. Names'
  BY <1>1, <1>2, <1>4, NamesStay DEF Judged
<1>6. Stops'
  <2>1. CASE Taken(l) /\ slq' = CStop(qty)
    <3>1. slq' < StopCover' + Step /\ StopCover' # 0
      BY <1>0, <1>1, <2>1, StopTaken, SlOfLeg DEF Climbing, TypesInv, l
    <3> QED
      BY <3>1 DEF Stops
  <2>2. CASE slq' = slq /\ alerted' = TRUE
    BY <1>1, <1>3, <2>2, ToldStops
  <2>3. CASE slq' = slq /\ rung' = "cSl"
    BY <1>3, <2>3, UnarmedStops DEF Climbing, Unarmed
  <2> QED
    BY <1>1, <2>1, <2>2, <2>3
<1>7. rung' \in Unarmed => slq' = 0 /\ tpq' = 0
  BY <1>1, <1>3 DEF Unarmed
<1> QED
  BY <1>1, <1>2, <1>3, <1>4, <1>5, <1>6, <1>7, KnownStays

LEMMA CTpKnows ==
    ASSUME Climbing, CTp
    PROVE  LadderKnown'
<1>1. /\ Account' /\ UNCHANGED <<qty, slq, slId, alerted, books>>
      /\ rung' = "cTp" /\ rung = "cTp"
  BY CTpDoes DEF CTp, Climbing, TypesInv
<1>2. PICK k \in DOMAIN TpSize :
         LET l == TakeProfit(ScaledQty(qty, k), TpPx(k)) IN
         \/ /\ Taken(l) /\ placed' = placed \cup {[id |-> issued', tier |-> k]}
            /\ tpq' = tpq + ScaledQty(qty, k)
         \/ Asked(l) /\ UNCHANGED <<placed, tpq>>
  BY CTpDoes DEF Climbing, TypesInv
<1> DEFINE l == TakeProfit(ScaledQty(qty, k), TpPx(k))
<1>3. l.kind = "tp" /\ l.qty = ScaledQty(qty, k)
  BY DEF TakeProfit
<1>4. /\ Asked(l)
      /\ \/ /\ Taken(l) /\ placed' = placed \cup {[id |-> issued', tier |-> k]}
            /\ tpq' = tpq + l.qty
         \/ placed' = placed /\ tpq' = tpq
  BY <1>2 DEF Asked, TakeProfit
<1> HIDE DEF l
<1>5. Onward /\ Keeping
  BY <1>1, <1>4, AskedOnward DEF Climbing, TypesInv
<1>6. /\ StopCover' = StopCover /\ free' \in Nat /\ free \in Nat
      /\ Taken(l) => free' = free - l.qty /\ l.qty \in Nat
      /\ free' <= free /\ tpq \in Int /\ StopCover \in Nat /\ qty \in Nat
  <2>1. StopCover \in Nat /\ free \in Nat /\ free' \in Nat /\ tpq \in Int /\ qty \in Nat
    BY <1>1, AccountNat DEF Account, Climbing, TypesInv, LadderOk
  <2>2. Taken(l) => free' = free - l.qty /\ l.qty \in Nat /\ StopCover' = StopCover + 0
    BY <1>3 DEF Taken, Leg
  <2>3. Nothing => free' = free /\ StopCover' = StopCover
    BY DEF Nothing, exchange, StopCover
  <2> QED
    BY <1>4, <2>1, <2>2, <2>3 DEF Asked
<1>7. Stops'
  <2>1. NothingSold' => NothingSold
    BY <1>5, SoldStays
  <2> QED
    BY <1>1, <1>6, <2>1 DEF Climbing, LadderKnown, Stops
<1>8. \A o \in placed' : Live(o)'
  <2>1. \A o \in placed : Live(o)'
    BY <1>1, <1>5, LiveStays DEF Climbing, LadderKnown, Names
  <2>2. Taken(l) => issued' \in DOMAIN book' \cup filled'
    BY <1>5 DEF Taken, Onward
  <2> QED
    BY <1>4, <2>1, <2>2 DEF Live
<1>9. Names'
  <2>1. tracker' = tracker /\ mark'.first = mark.first
    BY <1>1, <1>5 DEF books, Onward
  <2> QED
    BY <1>1, <1>8, <2>1 DEF Names, Judged, Climbing, LadderKnown
<1>10. slq' = 0 => free' + StopCover' + tpq' <= qty'
  <2>1. slq' = 0 => free + StopCover + tpq <= qty
    BY <1>1 DEF Climbing, LadderKnown, Counts
  <2> QED
    BY <1>1, <1>4, <1>6, <2>1
<1> QED
  BY <1>1, <1>5, <1>7, <1>9, <1>10, KnownStays DEF Unarmed

\* The judgement of what no order covers, and the record before it
LEMMA CoverKnows ==
    ASSUME Climbing, CSave \/ Cover
    PROVE  LadderKnown'
<1>1. /\ Nothing /\ UNCHANGED <<qty, slq, tpq, placed>>
      /\ rung \in {"cTp", "cover"} /\ rung' \in {"cover", "extra", "dump", "done"}
      /\ alerted' = alerted \/ alerted' = TRUE
      /\ rung' = "dump" => slq = 0
      /\ \/ tracker' = tracker
         \/ rung' = "cover" /\ tracker' = Tracker(qty, placed, slId)
  <2>1. CASE CSave
    BY <2>1 DEF CSave, Goto, market, exchange, calls, Nothing
  <2>2. CASE Cover
    BY <2>2 DEF Cover, Goto, market, exchange, calls, Nothing, books
  <2> QED
    BY <2>1, <2>2
<1>2. Onward /\ Keeping
  BY <1>1, NothingOnward DEF Climbing, TypesInv
<1>3. free' = free /\ StopCover' = StopCover
  BY <1>1 DEF Nothing, exchange, StopCover
<1>4. Stops'
  <2>1. NothingSold' => NothingSold
    BY <1>2, SoldStays
  <2>2. rung \in Armed /\ rung # "bought"
    BY <1>1 DEF Armed
  <2> QED
    BY <1>1, <1>3, <2>1, <2>2 DEF Climbing, LadderKnown, Stops
<1>5. Names'
  <2>1. CASE tracker' = tracker
    BY <1>1, <1>2, <2>1, NamesStay DEF Judged
  <2>2. CASE rung' = "cover" /\ tracker' = Tracker(qty, placed, slId)
    <3>1. tracker'.tps = placed
      BY <2>2 DEF Tracker
    <3>2. \A o \in placed : Live(o)'
      BY <1>1, <1>2, LiveStays DEF Climbing, LadderKnown, Names
    <3> QED
      BY <1>1, <2>2, <3>1, <3>2 DEF Names, Judged
  <2> QED
    BY <1>1, <2>1, <2>2
<1>6. slq' = 0 /\ rung' \in {"cTp", "cover", "dump"} => free' + StopCover' + tpq' <= qty'
  BY <1>1, <1>3 DEF Climbing, LadderKnown, Counts
<1> QED
  BY <1>1, <1>2, <1>4, <1>5, <1>6, KnownStays DEF Unarmed

LEMMA ExtraKnows ==
    ASSUME Climbing, Extra
    PROVE  LadderKnown'
<1>0. FloorStep(Uncovered) \in Int /\ slq \in Int
  BY FloorStepInt DEF LadderOk, Uncovered, Climbing, TypesInv
<1>1. /\ UNCHANGED <<qty, tpq, left, placed, slId, alerted, books>> /\ rung = "extra"
      /\ Asked(SlOf(Uncovered)) /\ rung' \in {"done", "extra"}
      /\ \/ Taken(SlOf(Uncovered)) /\ slq' = slq + FloorStep(Uncovered)
         \/ slq' = slq
  BY ExtraDoes DEF Asked, Extra, Climbing, TypesInv
<1>2. Onward /\ Keeping
  BY <1>1, AskedOnward DEF Climbing, TypesInv
<1>3. Names'
  BY <1>1, <1>2, NamesStay DEF Judged, books
<1>4. /\ StopCover \in Nat /\ StopCover' \in Nat
      /\ \/ /\ Taken(SlOf(Uncovered)) /\ StopCover' = StopCover + FloorStep(Uncovered)
            /\ FloorStep(Uncovered) > 0
         \/ StopCover' = StopCover
  <2>1. StopCover \in Nat /\ StopCover' \in Nat
    BY AccountNat, AccountNext DEF Climbing, TypesInv
  <2>2. Taken(SlOf(Uncovered)) => /\ StopCover' = StopCover + FloorStep(Uncovered)
                                  /\ FloorStep(Uncovered) > 0
    BY <1>0, SlOfLeg, StepPos DEF Taken
  <2>3. Nothing => StopCover' = StopCover
    BY DEF Nothing, exchange, StopCover
  <2> QED
    BY <1>1, <2>1, <2>2, <2>3 DEF Asked
<1>5. Stops'
  <2>1. NothingSold' => NothingSold
    BY <1>2, SoldStays
  <2>2. NothingSold' => slq < StopCover + Step /\ (StopCover = 0 => alerted)
    BY <1>1, <2>1 DEF Climbing, LadderKnown, Stops, Armed
  <2>3. NothingSold' => slq' < StopCover' + Step
    <3>1. CASE Taken(SlOf(Uncovered))
      <4>1. StopCover' = StopCover + FloorStep(Uncovered) /\ FloorStep(Uncovered) > 0
        BY <1>0, <3>1, SlOfLeg, StepPos DEF Taken
      <4>2. slq' = slq \/ slq' = slq + FloorStep(Uncovered)
        BY <1>1
      <4> QED
        BY <1>0, <1>4, <2>2, <4>1, <4>2, StepPos
    <3>2. CASE ~Taken(SlOf(Uncovered))
      BY <1>1, <1>4, <2>2, <3>2
    <3> QED
      BY <3>1, <3>2
  <2>4. NothingSold' /\ StopCover' = 0 => alerted'
    BY <1>0, <1>1, <1>4, <2>2
  <2> QED
    BY <2>3, <2>4 DEF Stops
<1> QED
  BY <1>1, <1>2, <1>3, <1>5, KnownStays DEF Unarmed

LEMMA DumpKnows ==
    ASSUME Climbing, Dump
    PROVE  LadderKnown'
<1>0. FloorStep(Uncovered) \in Int
  BY FloorStepInt DEF LadderOk, Uncovered, Climbing, TypesInv
<1>1. /\ Sold(FloorStep(Uncovered)) \/ Nothing
      /\ rung' = "done" /\ rung = "dump"
      /\ UNCHANGED <<qty, slq, tpq, left, placed, slId, alerted, books>>
  BY DumpDoes DEF Dump, Climbing, TypesInv
<1>2. Onward /\ Keeping
  BY <1>0, <1>1, SoldOnward DEF Climbing, TypesInv
<1>3. StopCover' = StopCover
  BY <1>1 DEF Sold, Nothing, exchange, StopCover
<1>4. Names'
  BY <1>1, <1>2, NamesStay DEF Judged, books
<1>5. Stops'
  <2>1. NothingSold' => NothingSold
    BY <1>2, SoldStays
  <2> QED
    BY <1>1, <1>3, <2>1 DEF Climbing, LadderKnown, Stops, Armed
<1> QED
  BY <1>1, <1>2, <1>4, <1>5, KnownStays DEF Unarmed

LEMMA ClimbKnows ==
    ASSUME Climbing, LadderStep
    PROVE  LadderInv'
<1>1. CASE Record
  BY <1>1 DEF Record, Goto, LadderInv
<1> QED
  BY <1>1, BeginKnows, SmallSlKnows, Tp1Knows, TierSlKnows, ResidueKnows, PlaceOcoKnows,
     CSlKnows, CTpKnows, CoverKnows, ExtraKnows, DumpKnows
     DEF LadderStep, LadderInv, LadderKnown

-----------------------------------------------------------------------------
(* The ladder among the other steps                                         *)

\* What nobody touches is known on.
LEMMA UntouchedKnows ==
    ASSUME LadderInv, UNCHANGED <<free, locked, book, issued, filled, tracker, phase>>,
           UNCHANGED ladder, mark'.first = mark.first
    PROVE  LadderInv'
<1>1. StopCover' = StopCover /\ Held' = Held /\ NothingSold' = NothingSold
  BY DEF StopCover, Held, NothingSold
<1>2. \A o : Live(o)' = Live(o)
  BY DEF Live
<1>3. UNCHANGED <<rung, qty, slq, tpq, placed, alerted>>
  BY DEF ladder
<1>4. OwnBook => OwnBook'
  BY DEF OwnBook
<1>5. Counts => Counts'
  BY <1>1, <1>3 DEF Counts
<1>6. Stops => Stops'
  BY <1>1, <1>3 DEF Stops
<1>7. Names => Names'
  BY <1>2, <1>3 DEF Names
<1> QED
  BY <1>3, <1>4, <1>5, <1>6, <1>7 DEF LadderInv

\* A fill sells: the claims that nothing was sold are void.
LEMMA FillKnows ==
    ASSUME Climbing, NEW i \in DOMAIN book, TradeOrder(i), UNCHANGED books, UNCHANGED ladder
    PROVE  LadderKnown'
<1>1. /\ Account' /\ Left(i) /\ free' = free
      /\ DOMAIN unbooked' = DOMAIN unbooked \cup {i}
  BY FillEffect DEF Climbing, TypesInv
<1>2. Onward /\ Keeping
  BY <1>1, LeftOnward DEF Climbing, TypesInv
<1>3. rung # "bought"
  BY DEF Climbing, LadderKnown, Counts
<1>4. UNCHANGED <<rung, qty, slq, tpq, placed, alerted, tracker>>
  BY DEF ladder, books
<1>5. ~NothingSold'
  <2>1. i \in filled' /\ i > mark'.first /\ i \in Nat /\ mark'.first \in Nat
    BY <1>1, <1>2 DEF Climbing, LadderKnown, OwnBook, Onward, TypesInv, Account, BookOk
  <2> QED
    BY <2>1 DEF NothingSold
<1>6. Stops'
  BY <1>5 DEF Stops
<1>7. Names'
  BY <1>2, <1>3, <1>4, NamesStay
<1>8. StopCover' <= StopCover /\ StopCover \in Nat /\ StopCover' \in Nat
  <2>1. book[i].qty \in Nat
    BY DEF Climbing, TypesInv, Account, BookOk, Leg
  <2> QED
    BY <1>1, <2>1, AccountNat, AccountNext DEF Left, Climbing, TypesInv
<1>9. slq' = 0 /\ rung' \in {"cTp", "cover", "dump"} => free' + StopCover' + tpq' <= qty'
  <2>1. slq = 0 /\ rung \in {"cTp", "cover", "dump"} => free + StopCover + tpq <= qty
    BY DEF Climbing, LadderKnown, Counts
  <2>2. free \in Nat /\ tpq \in Int /\ qty \in Nat
    BY DEF Climbing, TypesInv, Account, LadderOk
  <2> QED
    BY <1>1, <1>4, <1>8, <2>1, <2>2
<1>10. /\ rung' \in Unarmed => slq' = 0 /\ tpq' = 0
       /\ rung' = "dump" => slq' = 0
  BY <1>4 DEF Climbing, LadderKnown, Counts
<1> QED
  BY <1>2, <1>3, <1>4, <1>6, <1>7, <1>9, <1>10, KnownStays

\* A BUY finds no order of its own and a tracker of the last position.
LEMMA BuyKnows ==
    ASSUME TypesInv, Buy
    PROVE  LadderInv'
<1>1. /\ rung' = "bought" /\ phase' = phase /\ phase = "enter" /\ Held = 0
      /\ UNCHANGED <<price, locked, book, issued, tracker>> /\ mark'.first = issued
      /\ free' \in Nat /\ qty' = free' + Fee /\ Fee \in Nat
  BY LifeAssumption DEF LifeAssumption, Buy, calls, Start, Marked
<1>2. locked["tp"] = 0 /\ locked["sl"] = 0 /\ locked["oco"] = 0
  <2>1. /\ locked["tp"] \in Nat /\ locked["sl"] \in Nat /\ locked["oco"] \in Nat
        /\ free \in Nat
    BY AccountNat DEF TypesInv, Account
  <2>2. free + locked["tp"] + locked["sl"] + locked["oco"] = 0
    BY <1>1 DEF Held
  <2>3. \A a, b, c, d \in Nat : a + b + c + d = 0 => b = 0 /\ c = 0 /\ d = 0
    OBVIOUS
  <2> QED
    BY <2>1, <2>2, <2>3
<1>3. DOMAIN book = {}
  <2> SUFFICES ASSUME NEW i \in DOMAIN book PROVE FALSE
    OBVIOUS
  <2>1. book[i].kind \in Kinds /\ Step <= book[i].qty /\ book[i].qty \in Nat
    BY DEF TypesInv, Account, BookOk, Leg, Kinds
  <2>2. book[i].qty <= locked[book[i].kind]
    BY <2>1, QtyMember DEF TypesInv, Account
  <2>3. locked[book[i].kind] = 0
    BY <2>1, <1>2, KindNames
  <2> QED
    BY <2>1, <2>2, <2>3, StepPos
<1>4. OwnBook'
  BY <1>1, <1>3 DEF OwnBook, TypesInv, Account
<1>5. Held' <= qty'
  <2>1. Held' = free' + 0 + 0 + 0
    BY <1>1, <1>2 DEF Held
  <2>2. \A a \in Nat : a + 0 + 0 + 0 = a
    OBVIOUS
  <2>3. Held' = free'
    BY <1>1, <2>1, <2>2
  <2>4. free' <= free' + Fee
    BY <1>1, MoreNat
  <2> QED
    BY <1>1, <2>3, <2>4
<1>6. Counts' /\ Stops'
  BY <1>1, <1>3, <1>5 DEF Counts, Stops, Unarmed, Armed
<1>7. \A o \in tracker'.tps : o.id <= mark'.first
  BY <1>1 DEF TypesInv, RowsOk, TierOrders, Account
<1>8. Names'
  BY <1>1, <1>7 DEF Names, Judged
<1> QED
  BY <1>4, <1>6, <1>8 DEF LadderInv

LEMMA MarkFirst ==
    ASSUME Fields, Alone \/ Disturb
    PROVE  mark'.first = mark.first
BY DEF Fields, MarkFields, Alone, Disturb

\* A forceexit that does not overlap the ladder's scan step leaves it alone.
LEMMA LadderKept ==
    ASSUME "enter" \notin Overlaps, TypesInv, TypesInv', Fields, LadderInv, [Next]_vars
    PROVE  LadderInv'
<1>1. CASE StartScan \/ Reconcile \/ ExitStep \/ Trailing \/ Panel \/ Cool
  <2>1. rung' = rung
    BY <1>1 DEF StartScan, Reconcile, ExitStep, Trailing, Panel, Cool, ladder
  <2>2. rung = "idle"
    <3>1. phase # "enter"
      BY <1>1 DEF StartScan, Reconcile, ExitStep, Trailing, Panel, Cool
    <3> QED
      BY <3>1 DEF LadderInv, OwnBook
  <2> QED
    BY <2>1, <2>2 DEF LadderInv
<1>2. CASE Next /\ Buy
  BY <1>2, BuyKnows
<1>3. CASE Killed
  BY <1>3 DEF Killed, LadderInv
<1>4. CASE Next /\ Entering
  <2>1. Alone /\ filled' = filled \cup DOMAIN unbooked'
    BY <1>4 DEF Entering, Next
  <2>2. CASE rung = "idle" /\ UNCHANGED ladder
    BY <2>2 DEF ladder, LadderInv
  <2>3. CASE LadderStep /\ UNCHANGED <<phase, scans>>
    <3>1. rung # "idle"
      BY <2>3 DEF LadderStep, Begin, SmallSl, Tp1, TierSl, Residue, CancelResidue, PlaceOco,
                  CSl, CTp, CSave, Cover, Extra, Dump, Record
    <3>2. Climbing
      BY <2>1, <2>3, <3>1, MarkFirst DEF Climbing, LadderInv, LadderKnown, Running
    <3> QED
      BY <2>3, <3>2, ClimbKnows
  <2> QED
    BY <1>4, <2>2, <2>3 DEF Entering
<1>5. CASE Next /\ Market
  <2>1. /\ Disturb /\ filled' = filled \cup DOMAIN unbooked'
        /\ UNCHANGED books /\ UNCHANGED ladder /\ phase' = phase
    BY <1>5 DEF Market, Next
  <2>2. CASE rung = "idle"
    BY <2>1, <2>2 DEF ladder, LadderInv
  <2>3. CASE rung # "idle" /\ \E i \in DOMAIN book : TradeOrder(i)
    <3>1. Climbing
      BY <2>1, <2>3, MarkFirst DEF Climbing, LadderInv, LadderKnown, Running
    <3>2. LadderKnown'
      BY <2>1, <2>3, <3>1, FillKnows
    <3> QED
      BY <3>2 DEF LadderKnown, LadderInv
  <2>4. CASE MovePrice
    <3>1. UNCHANGED <<free, locked, book, issued, unbooked>>
      BY <2>4, MoveEffect DEF TypesInv
    <3>2. filled' = filled
      BY <2>1, <3>1 DEF TypesInv, Counted
    <3> QED
      BY <2>1, <3>1, <3>2, MarkFirst, UntouchedKnows DEF books
  <2> QED
    BY <1>5, <2>2, <2>3, <2>4 DEF Market
<1>6. CASE UNCHANGED vars
  <2>1. /\ UNCHANGED <<free, locked, book, issued, filled, tracker, phase, mark>>
        /\ UNCHANGED ladder
    BY <1>6 DEF vars, market, exchange, calls, books
  <2> QED
    BY <2>1, UntouchedKnows
<1> QED
  BY <1>1, <1>2, <1>3, <1>4, <1>5, <1>6 DEF Next

LEMMA LadderAlways ==
    ASSUME "enter" \notin Overlaps
    PROVE  Spec => [](TypesInv /\ LadderInv)
<1>1. Spec => []TypesInv
  BY InitTypes, TypesStep, PTL DEF Spec
<1>2. Spec => []TrancheInv
  BY InitTranche, TrancheStep, PTL DEF Spec
<1>3. TrancheInv => Fields
  BY DEF TrancheInv
<1>4. Init => LadderInv
  BY DEF Init, NoLadder, LadderInv
<1>5. TypesInv /\ TypesInv' /\ Fields /\ LadderInv /\ [Next]_vars => LadderInv'
  BY LadderKept
<1> QED
  BY <1>1, <1>2, <1>3, <1>4, <1>5, PTL DEF Spec

\* What _place_sl_tp_orders reports as behind a stop is behind one at the
\* exchange, up to a lot, whatever was refused or accepted unheard.
THEOREM StopsReported ==
    ASSUME "enter" \notin Overlaps
    PROVE  Spec => []ReportedStops
<1>1. LadderInv => ReportedStops
  BY DEF LadderInv, Stops, ReportedStops
<1> QED
  BY <1>1, LadderAlways, PTL

\* A position that leaves the ladder without a stop, nothing of it sold, was
\* alarmed about.
THEOREM NakedTold ==
    ASSUME "enter" \notin Overlaps
    PROVE  Spec => []NakedIsLoud
<1>1. LadderInv => NakedIsLoud
  BY DEF LadderInv, Stops, Armed, NakedIsLoud
<1> QED
  BY <1>1, LadderAlways, PTL

\* The tracker a ladder leaves names orders that rest or were filled, never a
\* cancelled one.
THEOREM TrackerLives ==
    ASSUME "enter" \notin Overlaps
    PROVE  Spec => []TrackerNamesLive
<1>1. TypesInv /\ LadderInv => TrackerNamesLive
  <2> SUFFICES ASSUME TypesInv, LadderInv, rung # "idle", NEW o \in tracker.tps,
                      o.id > mark.first
               PROVE  o.id \in DOMAIN book \cup filled
    BY DEF TrackerNamesLive
  <2>1. o.id \in Nat /\ mark.first \in Nat
    BY DEF TypesInv, RowsOk, TierOrders, LadderInv, OwnBook
  <2>2. ~(o.id <= mark.first)
    BY <2>1
  <2> QED
    BY <2>2 DEF LadderInv, Names, Live
<1> QED
  BY <1>1, LadderAlways, PTL

\* The emergency sale at the end of the ladder sells only what no stop stands
\* behind, also if an accepted stop was never heard of: it would lock the base
\* the sale asks for.
THEOREM DumpNaked ==
    ASSUME "enter" \notin Overlaps
    PROVE  Spec => DumpOnlyNaked
<1>1. TypesInv /\ LadderInv /\ [Next]_vars
        => [rung = "dump" /\ free' < free => StopCover = 0]_vars
  <2> SUFFICES ASSUME TypesInv, LadderInv, Next, rung = "dump", free' < free
               PROVE  StopCover = 0
    OBVIOUS
  <2>1. OwnBook /\ Counts /\ phase = "enter" /\ free \in Nat
    BY DEF LadderInv, OwnBook, TypesInv, Account
  <2>2. ~(free' = free)
    BY <2>1
  <2>3. Dump
    <3>1. CASE Entering
      <4>1. LadderStep
        BY <3>1 DEF Entering
      <4> QED
        BY <4>1 DEF LadderStep, Begin, SmallSl, Tp1, TierSl, Residue, CancelResidue,
                    PlaceOco, CSl, CTp, CSave, Cover, Extra, Record
    <3>2. CASE StartScan \/ Reconcile \/ ExitStep \/ Trailing \/ Panel \/ Cool \/ Buy
      BY <2>1, <3>2 DEF StartScan, Reconcile, ExitStep, Trailing, Panel, Cool, Buy
    <3>3. CASE Killed
      BY <2>2, <3>3 DEF Killed, exchange
    <3>4. CASE Market
      BY <2>2, <3>4, FillEffect, MoveEffect DEF Market, TypesInv
    <3> QED
      BY <3>1, <3>2, <3>3, <3>4 DEF Next
  <2>4. Sold(FloorStep(Uncovered))
    <3>1. Nothing => free' = free
      BY DEF Nothing, exchange
    <3> QED
      BY <2>2, <2>3, <3>1, DumpDoes DEF TypesInv
  <2>5. /\ slq = 0 /\ free + StopCover + tpq <= qty
        /\ Uncovered = qty - slq - tpq /\ Uncovered \in Int
        /\ qty \in Nat /\ tpq \in Int /\ slq \in Int
    BY <2>1 DEF Counts, Uncovered, TypesInv, LadderOk
  <2>6. FloorStep(Uncovered) <= free /\ Uncovered < FloorStep(Uncovered) + Step
        /\ FloorStep(Uncovered) \in Int
    BY <2>4, <2>5, FloorStepInt DEF Sold
  <2>7. StopCover # 0 => Step <= StopCover
    <3>1. /\ locked["sl"] = QtyOf(book, "sl") /\ locked["oco"] = QtyOf(book, "oco")
          /\ locked["sl"] \in Nat /\ locked["oco"] \in Nat
      BY AccountNat, KindNames DEF TypesInv, Account
    <3>2. /\ QtyOf(book, "sl") # 0 => Step <= QtyOf(book, "sl")
          /\ QtyOf(book, "oco") # 0 => Step <= QtyOf(book, "oco")
      BY QtyLot DEF TypesInv, Account
    <3> QED
      BY <3>1, <3>2, StepPos DEF StopCover
  <2>8. StopCover \in Nat
    BY AccountNat DEF TypesInv
  <2> QED
    BY <2>1, <2>5, <2>6, <2>7, <2>8, StepPos
<1> QED
  BY <1>1, LadderAlways, PTL DEF Spec, DumpOnlyNaked

-----------------------------------------------------------------------------
(* Failures and turns                                                       *)

\* A step fails once at most.
Paced == NoFault \/ Fault

LEMMA AnswerPaced ==
    ASSUME NEW good, NEW Effect, NEW ok, Answer(good, Effect, ok)
    PROVE  Paced
BY DEF Answer, Paced

LEMMA SendPaced ==
    ASSUME NEW l, NEW ok, Send(l, ok) \/ SendMarketStop(l, ok)
    PROVE  Paced
BY DEF Send, SendMarketStop, Answer, Paced

LEMMA CallPaced ==
    ASSUME NEW x, NEW ok, CancelOrder(x, ok) \/ SellNow(x, ok)
    PROVE  Paced
BY DEF CancelOrder, SellNow, Answer, Paced

LEMMA SeenPaced ==
    ASSUME NEW x, Listed(x) \/ SeenFree(x)
    PROVE  Paced
BY DEF Listed, SeenFree, Paced

LEMMA StopPaced ==
    ASSUME NEW q, NEW ok, RequestStop(q, ok)
    PROVE  Paced
BY SendPaced DEF RequestStop

LEMMA LadderPaced ==
    ASSUME LadderStep
    PROVE  Paced
<1>1. CASE Begin \/ CSave \/ Cover \/ Record
  BY <1>1 DEF Begin, CSave, Cover, Record, market, calls, Paced, NoFault, Fault
<1>2. CASE SmallSl \/ TierSl \/ CSl
  BY <1>2, StopPaced DEF SmallSl, TierSl, CSl, Try
<1>3. CASE Tp1 \/ PlaceOco \/ Extra
  BY <1>3, SendPaced DEF Tp1, PlaceOco, Extra, Try
<1>4. CASE CTp
  BY <1>4, SendPaced DEF CTp, Try, Paced, NoFault
<1>5. CASE Residue
  BY <1>5, SeenPaced DEF Residue
<1>6. CASE CancelResidue
  BY <1>6, CallPaced DEF CancelResidue, Paced, NoFault
<1>7. CASE Dump
  BY <1>7, CallPaced DEF Dump
<1> QED
  BY <1>1, <1>2, <1>3, <1>4, <1>5, <1>6, <1>7 DEF LadderStep

LEMMA ExitPaced ==
    ASSUME NEW me, Choose(me) \/ ExecuteExit(me)
    PROVE  Paced
<1>1. CASE Choose(me)
  BY <1>1 DEF Choose, Paced
<1>2. CASE SyncTranche(me)
  BY <1>2 DEF SyncTranche, Paced
<1>3. CASE ListLegs(me)
  BY <1>3, SeenPaced DEF ListLegs
<1>4. CASE SizeSale(me)
  BY <1>4, SeenPaced DEF SizeSale, Paced
<1>5. CASE CancelLeg(me) \/ Sell(me)
  BY <1>5, CallPaced DEF CancelLeg, Sell
<1>6. CASE Rescue(me) \/ Relist(me)
  BY <1>6, SendPaced DEF Rescue, Relist, Paced, NoFault
<1>7. CASE Finish(me)
  BY <1>7 DEF Finish, Paced, NoFault
<1> QED
  BY <1>1, <1>2, <1>3, <1>4, <1>5, <1>6, <1>7 DEF ExecuteExit

LEMMA AttemptPaced ==
    ASSUME NEW l, NEW n, NEW a, NEW b, Attempt(l, n, a, b)
    PROVE  Paced
BY SendPaced DEF Attempt

LEMMA CheckPaced ==
    ASSUME NEW found, Snapshot \/ CheckStep(found)
    PROVE  Paced
<1>1. CASE Snapshot \/ PassOver \/ CleanUp
  BY <1>1 DEF Snapshot, PassOver, CleanUp, market, calls, Paced, NoFault
<1>2. CASE SeeFills(found)
  BY <1>2 DEF SeeFills, Paced
<1>3. CASE LiftCancel \/ MoveCancel \/ MakeRoom \/ SellSnapshot
  BY <1>3, CallPaced DEF LiftCancel, MoveCancel, MakeRoom, SellSnapshot, Paced, NoFault
<1>4. CASE LiftSize \/ FindStops \/ Recheck
  BY <1>4, SeenPaced DEF LiftSize, FindStops, Recheck
<1>5. CASE FindBare \/ CoverSize
  BY <1>5 DEF FindBare, CoverSize, Paced
<1>6. CASE LiftPlace \/ MovePlace \/ Safety \/ SafetySl \/ Create \/ CoverPlace
  BY <1>6, AttemptPaced DEF LiftPlace, MovePlace, Safety, SafetySl, Create, CoverPlace
<1>7. CASE Trail
  BY <1>7 DEF Trail, Paced
<1>8. CASE Close
  BY <1>8 DEF Close, Answer, Paced
<1> QED
  BY <1>1, <1>2, <1>3, <1>4, <1>5, <1>6, <1>7, <1>8 DEF CheckStep

LEMMA NextPaced == [Next]_vars => Paced
<1> SUFFICES ASSUME [Next]_vars PROVE Paced
  OBVIOUS
<1>1. CASE StartScan
  BY <1>1 DEF StartScan, Sync, Paced
<1>2. CASE Buy \/ Cool \/ Market
  BY <1>2 DEF Buy, Cool, CoolOff, Market, TradeOrder, MovePrice, market, calls, Paced, NoFault
<1>3. CASE Entering
  BY <1>3, LadderPaced DEF Entering, market, calls, Paced, NoFault
<1>4. CASE Reconcile \/ Killed
  BY <1>4 DEF Reconcile, Killed, Paced
<1>5. CASE ExitStep
  BY <1>5, ExitPaced DEF ExitStep, market, calls, Paced, NoFault
<1>6. CASE Trailing
  BY <1>6, CheckPaced DEF Trailing
<1>7. CASE Panel
  BY <1>7, ExitPaced DEF Panel
<1>8. CASE UNCHANGED vars
  BY <1>8 DEF vars, market, calls, Paced, NoFault
<1> QED
  BY <1>1, <1>2, <1>3, <1>4, <1>5, <1>6, <1>7, <1>8 DEF Next

\* The trailing check and the scan's exit run in their turn of the scan only,
\* and the mark was set when no more had failed than has failed now.
TurnInv ==
    /\ check.at # "rest" => phase = "trail"
    /\ exit["scan"].at # "rest" => phase \in {"exiting", "soleExiting"}
    /\ faults \in Nat /\ mark.faults \in Nat /\ mark.faults <= faults

LEMMA TurnInit == Init => TurnInv
BY DEF Init, TurnInv, NoCheck, Resting, Procs

LEMMA MarkMoves ==
    ASSUME Fields,
           \/ Start \/ Alone \/ Disturb
           \/ (\E x : mark' = [mark EXCEPT !.tranche = x])
           \/ (\E x : mark' = [mark EXCEPT !.calm = FALSE, !.tranche = x])
    PROVE  mark'.faults \in {faults, mark.faults}
<1>1. CASE Start
  BY <1>1 DEF Start, Marked
<1>4. CASE Alone \/ Disturb
  BY <1>4 DEF Fields, MarkFields, Alone, Disturb
<1>2. CASE \E x : mark' = [mark EXCEPT !.tranche = x]
  BY <1>2 DEF Fields, MarkFields
<1>3. CASE \E x : mark' = [mark EXCEPT !.calm = FALSE, !.tranche = x]
  BY <1>3 DEF Fields, MarkFields
<1> QED
  BY <1>1, <1>2, <1>3, <1>4

LEMMA ScanExitAlone ==
    ASSUME Fields, Panel
    PROVE  exit'["scan"] = exit["scan"]
<1>1. CASE Choose("panel")
  BY <1>1 DEF Choose, Fields, Procs
<1>2. CASE ExecuteExit("panel")
  BY <1>2, ChainKeeps DEF KeepsDecision, Procs
<1> QED
  BY <1>1, <1>2 DEF Panel

LEMMA NextMarks ==
    ASSUME Fields, [Next]_vars
    PROVE  mark'.faults \in {faults, mark.faults}
<1>1. CASE StartScan \/ Buy \/ Entering \/ Reconcile \/ Trailing \/ Killed \/ Market
  <2>1. Start \/ Alone \/ Disturb
    BY <1>1 DEF StartScan, Buy, Entering, Reconcile, Trailing, Killed, Market
  <2> QED
    BY <2>1, MarkMoves
<1>2. CASE ExitStep
  <2>1. Start \/ Alone \/ \E x : mark' = [mark EXCEPT !.tranche = x]
    BY <1>2 DEF ExitStep
  <2> QED
    BY <2>1, MarkMoves
<1>3. CASE Panel
  <2>1. \E x : mark' = [mark EXCEPT !.calm = FALSE, !.tranche = x]
    BY <1>3 DEF Panel
  <2> QED
    BY <2>1, MarkMoves
<1>4. CASE Cool \/ UNCHANGED vars
  BY <1>4 DEF Cool, vars
<1> QED
  BY <1>1, <1>2, <1>3, <1>4 DEF Next

LEMMA TurnStep ==
    ASSUME Fields, TurnInv, [Next]_vars
    PROVE  TurnInv'
<1>1. faults' \in Nat /\ mark'.faults \in Nat /\ mark'.faults <= faults'
  <2>1. faults' = faults \/ faults' = faults + 1
    BY NextPaced DEF Paced, NoFault, Fault
  <2> QED
    BY <2>1, NextMarks DEF TurnInv
<1>2. /\ check'.at # "rest" => phase' = "trail"
      /\ exit'["scan"].at # "rest" => phase' \in {"exiting", "soleExiting"}
  <2>1. CASE StartScan \/ Entering \/ Reconcile
    <3>1. check' = check /\ exit' = exit /\ phase \notin {"trail", "exiting", "soleExiting"}
      BY <2>1 DEF StartScan, Entering, Reconcile, exits, trailing
    <3> QED
      BY <3>1 DEF TurnInv
  <2>2. CASE Buy \/ Market \/ Cool \/ UNCHANGED vars
    <3>1. check' = check /\ exit' = exit /\ phase' = phase
      BY <2>2 DEF Buy, Market, Cool, CoolOff, exits, trailing, vars
    <3> QED
      BY <3>1 DEF TurnInv
  <2>3. CASE ExitStep
    <3>1. check' = check /\ phase # "trail"
      BY <2>3 DEF ExitStep, trailing
    <3>2. CASE phase' \in {"exiting", "soleExiting"}
      BY <3>1, <3>2 DEF TurnInv
    <3>3. CASE phase \in {"exit", "soleExit"} /\ exit' = exit
      BY <3>1, <3>3 DEF TurnInv
    <3>4. CASE exit'["scan"].at = "rest"
      BY <3>1, <3>4 DEF TurnInv
    <3> QED
      BY <2>3, <3>2, <3>3, <3>4 DEF ExitStep, To, exits
  <2>4. CASE Trailing
    <3>1. exit' = exit /\ phase = "trail"
      BY <2>4 DEF Trailing, exits
    <3>2. check'.at # "rest" => phase' = phase
      BY <2>4 DEF Trailing
    <3> QED
      BY <3>1, <3>2 DEF TurnInv
  <2>5. CASE Killed
    BY <2>5 DEF Killed, NoCheck, Resting, Fields, Procs
  <2>6. CASE Panel
    <3>1. check' = check /\ phase' = phase
      BY <2>6 DEF Panel, trailing
    <3> QED
      BY <2>6, <3>1, ScanExitAlone DEF TurnInv
  <2> QED
    BY <2>1, <2>2, <2>3, <2>4, <2>5, <2>6 DEF Next
<1> QED
  BY <1>1, <1>2 DEF TurnInv

-----------------------------------------------------------------------------
(* What the scan's exit knows                                               *)

Sale == exit["scan"]

\* A sale of q the exchange refuses whatever is free
Refused(q, px) == FloorStep(q) < MinQty \/ FloorStep(q) * px < MinNotional

\* As long as nobody else has acted, the decision's price is the market's.  When
\* no call failed, the orders still to be cancelled are all there are, and none
\* is left when the sale is made.  A failed sale was refused, or what it
\* did not sell is free, or it was made and nothing is locked.
SaleKnows ==
    /\ Sale.px = price
    /\ Sale.at = "cancel" /\ faults = mark.faults => DOMAIN book \subseteq Sale.todo
    /\ Sale.at \in {"sell", "relist"} /\ faults = mark.faults => DOMAIN book = {}
    /\ Sale.at = "sell" => Sale.q <= free
    /\ Sale.at = "rescue" =>
         /\ faults = mark.faults => Refused(Sale.q, price)
         /\ faults = mark.faults + 1 => FloorStep(Sale.q) <= free \/ DOMAIN book = {}

SaleInv == Sale.at # "rest" /\ mark.calm => SaleKnows

\* A call of the scan's exit with what it may rely on
Selling ==
    /\ Account /\ Account' /\ ExitOk /\ ExitOk' /\ TurnInv
    /\ SaleInv /\ Sale.at # "rest" /\ mark.calm
    /\ mark'.faults = mark.faults /\ Paced

LEMMA GoSale ==
    ASSUME ExitOk, NEW a, Go("scan", a)
    PROVE  Sale' = [Sale EXCEPT !.at = a] /\ Sale'.at = a
           /\ Sale'.px = Sale.px /\ Sale'.q = Sale.q /\ Sale'.want = Sale.want
BY DEF ExitOk, ExitFields, Procs, Go, Sale

LEMMA EndSale ==
    ASSUME ExitOk, NEW how, End("scan", how)
    PROVE  Sale'.at = "rest"
BY DEF ExitOk, Procs, End, Sale, Resting

LEMMA SyncKnows ==
    ASSUME Selling, SyncTranche("scan")
    PROVE  SaleInv'
<1>1. CASE End("scan", "synced")
  BY <1>1, EndSale DEF Selling, SaleInv
<1>2. CASE Go("scan", "list")
  <2>1. price' = price /\ Sale'.at = "list" /\ Sale'.px = Sale.px
    BY <1>2, GoSale DEF Selling, SyncTranche, exchange
  <2> QED
    BY <2>1 DEF Selling, SaleInv, SaleKnows
<1> QED
  BY <1>1, <1>2 DEF SyncTranche

LEMMA ListKnows ==
    ASSUME Selling, ListLegs("scan")
    PROVE  SaleInv'
<1>1. PICK legs : /\ Listed(legs)
                  /\ exit' = [exit EXCEPT !["scan"].at = "cancel", !["scan"].todo = DOMAIN legs]
  BY DEF ListLegs
<1>2. UNCHANGED <<price, book>>
  BY DEF ListLegs, exchange
<1>3. Sale'.at = "cancel" /\ Sale'.px = Sale.px /\ Sale'.todo = DOMAIN legs
  BY <1>1 DEF Selling, ExitOk, ExitFields, Procs, Sale
<1>4. faults' = mark'.faults => legs = book
  BY <1>1 DEF Listed, Fault, Selling, TurnInv
<1> QED
  BY <1>2, <1>3, <1>4 DEF Selling, SaleInv, SaleKnows

LEMMA CancelKnows ==
    ASSUME Selling, CancelLeg("scan")
    PROVE  SaleInv'
<1>1. PICK i \in Sale.todo, ok \in BOOLEAN :
         /\ CancelOrder(i, ok)
         /\ IF ok THEN exit' = [exit EXCEPT !["scan"].todo = @ \ {i}] ELSE End("scan", "kept")
  BY DEF CancelLeg, Sale
<1>2. CASE ~ok
  BY <1>1, <1>2, EndSale DEF Selling, SaleInv
<1>3. CASE ok
  <2>1. Left(i) /\ NoFault
    <3>1. Left(i)
      BY <1>1, <1>3, CancelEffect DEF Selling
    <3>2. NoFault
      BY <1>1, <1>3 DEF CancelOrder, Answer
    <3> QED
      BY <3>1, <3>2
  <2>2. Sale'.at = Sale.at /\ Sale'.px = Sale.px /\ Sale'.todo = Sale.todo \ {i}
    BY <1>1, <1>3 DEF Selling, ExitOk, ExitFields, Procs, Sale
  <2>3. Sale.at = "cancel"
    BY DEF CancelLeg, At, Sale
  <2>4. price' = price /\ DOMAIN book' = DOMAIN book \ {i} /\ faults' = faults
    BY <2>1 DEF Left, NoFault
  <2> QED
    BY <2>2, <2>3, <2>4 DEF Selling, SaleInv, SaleKnows
<1> QED
  BY <1>2, <1>3

LEMMA SizeKnows ==
    ASSUME Selling, SizeSale("scan")
    PROVE  SaleInv'
<1> DEFINE Share(read) == IF read THEN FloorStep((Sale.want * Sale.pct) \div 100) ELSE Sale.want
           q(seen, read) == IF seen < Share(read) THEN seen ELSE Share(read)
<1>1. PICK seen \in {free, 0}, read \in BOOLEAN :
         /\ IF read THEN SeenFree(seen) ELSE seen = free /\ Fault
         /\ IF q(seen, read) <= 0 \/ (read /\ q(seen, read) * Sale.px < MinNotional)
              THEN End("scan", "untradable")
              ELSE exit' = [exit EXCEPT !["scan"].at = "sell", !["scan"].q = q(seen, read)]
  BY DEF SizeSale, Sale
<1>2. CASE End("scan", "untradable")
  BY <1>2, EndSale DEF Selling, SaleInv
<1>3. CASE /\ ~(q(seen, read) <= 0)
           /\ exit' = [exit EXCEPT !["scan"].at = "sell", !["scan"].q = q(seen, read)]
  <2>1. Share(read) \in Int /\ free \in Nat
    <3>1. Sale.want \in Nat /\ Sale.want * Sale.pct \in Nat
      BY DEF Selling, ExitOk, Sale, Procs
    <3>2. (Sale.want * Sale.pct) \div 100 \in Int
      BY <3>1
    <3> QED
      BY <3>1, <3>2, FloorStepInt DEF Selling, Account
  <2>2. seen = free /\ q(seen, read) <= free
    <3> HIDE DEF Share
    <3>1. seen # 0
      BY <1>3, <2>1
    <3>2. seen = free
      BY <1>1, <3>1
    <3> QED
      BY <2>1, <3>2
  <2>3. /\ Sale'.at = "sell" /\ Sale'.px = Sale.px /\ Sale'.q = q(seen, read)
    <3> HIDE DEF q
    <3> QED
      BY <1>3 DEF Selling, ExitOk, ExitFields, Procs, Sale
  <2>4. UNCHANGED <<price, book, free>>
    BY DEF SizeSale, exchange
  <2>5. Sale.at = "cancel" /\ Sale.todo = {}
    BY DEF SizeSale, At, Sale
  <2>6. faults' = mark'.faults => faults = mark.faults
    <3>1. faults' = faults \/ faults' = faults + 1
      BY DEF Selling, Paced, NoFault, Fault
    <3> QED
      BY <3>1 DEF Selling, TurnInv
  <2> HIDE DEF q
  <2> QED
    BY <2>2, <2>3, <2>4, <2>5, <2>6 DEF Selling, SaleInv, SaleKnows
<1> QED
  BY <1>1, <1>2, <1>3

LEMMA SellKnows ==
    ASSUME Selling, Sell("scan")
    PROVE  SaleInv'
<1> DEFINE q == FloorStep(Sale.q)
<1>1. PICK ok \in BOOLEAN :
         /\ SellNow(q, ok)
         /\ Go("scan", IF ~ok THEN "rescue" ELSE IF Sale.pct < 100 THEN "relist" ELSE "book")
  BY DEF Sell, Sale
<1>2. Sale.q \in Int /\ q \in Int /\ q <= Sale.q /\ Sale.q <= free /\ Sale.at = "sell"
      /\ free \in Nat
  <2>1. Sale.q \in Int /\ Sale.at = "sell"
    BY DEF Selling, ExitOk, Sale, Procs, Sell, At
  <2>2. q \in Int /\ q <= Sale.q
    BY <2>1, FloorStepInt
  <2> QED
    BY <2>1, <2>2 DEF Selling, SaleInv, SaleKnows, Account
<1>3. /\ Sale'.at = IF ~ok THEN "rescue" ELSE IF Sale.pct < 100 THEN "relist" ELSE "book"
      /\ Sale'.px = Sale.px /\ Sale'.q = Sale.q
  BY <1>1, GoSale DEF Selling
<1> HIDE DEF q
<1>4. Sold(q) \/ (~ok /\ Nothing)
  BY <1>1, <1>2, SellEffect DEF Selling
<1>5. price' = price /\ book' = book
  BY <1>4 DEF Sold, Nothing, exchange
<1>6. CASE ok
  <2>1. faults' = faults
    BY <1>1, <1>6 DEF SellNow, Answer, NoFault
  <2> QED
    BY <1>2, <1>3, <1>5, <1>6, <2>1 DEF Selling, SaleInv, SaleKnows
<1>7. CASE ~ok
  <2>1. \/ Fault
        \/ faults' = faults /\ Nothing /\ ~(q >= MinQty /\ q <= free /\ q * price >= MinNotional)
    BY <1>1, <1>7 DEF SellNow, Answer, Nothing, NoFault
  <2>2. faults' = mark'.faults => Refused(Sale.q, price)
    <3>1. faults' = mark'.faults => faults' = faults
      BY DEF Selling, TurnInv, Paced, NoFault, Fault
    <3>2. MinQty \in Nat /\ MinNotional \in Nat /\ price \in Nat
      BY ExchangeAssumption DEF ExchangeAssumption, Selling, Account
    <3>3. q * price \in Int /\ q <= free
      BY <1>2, <3>2
    <3>4. Fault => faults' # faults
      BY DEF Fault, Selling, TurnInv
    <3> QED
      BY <1>2, <2>1, <3>1, <3>2, <3>3, <3>4 DEF Refused, q
  <2>3. faults' = mark'.faults + 1 => q <= free' \/ DOMAIN book' = {}
    <3>1. CASE Nothing
      BY <1>2, <3>1 DEF Nothing, exchange
    <3>2. CASE ~Nothing
      <4>1. faults' = faults + 1
        BY <2>1, <3>2 DEF Fault
      <4>2. faults' = mark'.faults + 1 => faults = mark.faults
        BY <4>1 DEF Selling, TurnInv
      <4> QED
        BY <1>2, <1>5, <4>2 DEF Selling, SaleInv, SaleKnows
    <3> QED
      BY <3>1, <3>2
  <2>4. FloorStep(Sale'.q) = q /\ Refused(Sale'.q, price') = Refused(Sale.q, price)
    BY <1>3, <1>5 DEF q
  <2> QED
    BY <1>2, <1>3, <1>5, <1>7, <2>2, <2>3, <2>4 DEF Selling, SaleInv, SaleKnows, Refused, q
<1> QED
  BY <1>6, <1>7

LEMMA RelistKnows ==
    ASSUME Selling, Rescue("scan") \/ Relist("scan") \/ Finish("scan")
    PROVE  SaleInv'
<1>1. CASE Rescue("scan") \/ Finish("scan")
  BY <1>1, EndSale DEF Rescue, Finish, Selling, SaleInv
<1>2. CASE Relist("scan")
  <2>1. Sale'.at = "book" /\ Sale'.px = Sale.px
    BY <1>2, GoSale DEF Relist, Selling
  <2>2. price' = price
    <3>1. (\E l : \E ok \in BOOLEAN : Send(l, ok)) \/ Nothing
      BY <1>2 DEF Relist, Nothing
    <3> QED
      BY <3>1, SendEffect DEF Selling, Taken, Nothing, exchange
  <2> QED
    BY <2>1, <2>2 DEF Selling, SaleInv, SaleKnows
<1> QED
  BY <1>1, <1>2

LEMMA SaleInit == Init => SaleInv
BY DEF Init, Sale, SaleInv, Resting, Procs

LEMMA SaleCalls ==
    ASSUME Selling, ExecuteExit("scan")
    PROVE  SaleInv'
BY SyncKnows, ListKnows, CancelKnows, SizeKnows, SellKnows, RelistKnows DEF ExecuteExit

\* Only its own call takes the scan's exit on while nobody else acts.
LEMMA SaleTurn ==
    ASSUME Fields, TurnInv, Next, Sale.at # "rest", mark'.calm
    PROVE  /\ ExecuteExit("scan") /\ Paced
           /\ mark'.calm = mark.calm /\ mark'.faults = mark.faults
<1>1. phase \in {"exiting", "soleExiting"}
  BY DEF TurnInv, Sale
<1>2. ~(Killed \/ Panel \/ Market)
  <2>1. Killed \/ Panel \/ Market => \E x : \/ mark' = [mark EXCEPT !.calm = FALSE]
                                            \/ mark' = [mark EXCEPT !.calm = FALSE, !.tranche = x]
    BY DEF Killed, Panel, Market, Disturb
  <2> QED
    BY <2>1 DEF Fields, MarkFields
<1>3. ~(StartScan \/ Buy \/ Entering \/ Reconcile \/ Trailing \/ Cool)
  BY <1>1 DEF StartScan, Buy, Entering, Reconcile, Trailing, Cool
<1>4. ExitStep
  BY <1>2, <1>3 DEF Next
<1>5. ExecuteExit("scan") /\ \E x : mark' = [mark EXCEPT !.tranche = x]
  BY <1>1, <1>4 DEF ExitStep
<1> QED
  BY <1>5, ExitPaced DEF Fields, MarkFields

LEMMA SaleStep ==
    ASSUME TypesInv, TypesInv', Fields, TurnInv, SaleInv, [Next]_vars
    PROVE  SaleInv'
<1>1. CASE Next /\ Sale.at # "rest" /\ mark'.calm
  <2>1. Selling
    BY <1>1, SaleTurn DEF Selling, TypesInv
  <2> QED
    BY <1>1, <2>1, SaleTurn, SaleCalls
<1>2. CASE Next /\ Sale.at = "rest"
  <2>1. CASE Choose("scan") /\ Start
    <3>1. PICK kind \in ExitKinds, pct \in {50, 100} :
            exit' = [exit EXCEPT !["scan"] = [Resting EXCEPT
                        !.at = IF kind = "tp_partial" THEN "sync" ELSE "list",
                        !.kind = kind, !.pct = pct, !.want = row.qty, !.px = price]]
      BY <2>1 DEF Choose
    <3>2. Sale'.at \in {"sync", "list"} /\ Sale'.px = price
      BY <3>1 DEF Fields, Procs, Resting, Sale
    <3>3. price' = price
      BY <2>1 DEF Choose, exchange
    <3> QED
      BY <3>2, <3>3 DEF SaleInv, SaleKnows
  <2>2. CASE Sale' = Sale
    BY <1>2, <2>2 DEF SaleInv
  <2>3. CASE Killed
    BY <2>3 DEF Killed, Fields, Procs, Resting, Sale, SaleInv
  <2>4. ~ExecuteExit("scan")
    BY <1>2 DEF ExecuteExit, SyncTranche, ListLegs, CancelLeg, SizeSale, Sell, Rescue, Relist,
                Finish, At, Sale
  <2>5. Panel => Sale' = Sale
    BY ScanExitAlone DEF Sale
  <2>6. StartScan \/ Buy \/ Entering \/ Reconcile \/ Trailing \/ Market \/ Cool => Sale' = Sale
    BY DEF StartScan, Buy, Entering, Reconcile, Trailing, Market, Cool, CoolOff, exits, Sale
  <2>7. ExitStep => (Choose("scan") /\ Start) \/ Sale' = Sale
    BY <2>4 DEF ExitStep, exits, Sale
  <2> QED
    BY <1>2, <2>1, <2>2, <2>3, <2>5, <2>6, <2>7 DEF Next
<1>3. CASE ~mark'.calm
  BY <1>3 DEF SaleInv
<1>4. CASE UNCHANGED vars
  <2>1. UNCHANGED <<exit, mark, price, faults, book, free>>
    BY <1>4 DEF vars, market, exchange, calls, exits
  <2> QED
    BY <2>1 DEF SaleInv, SaleKnows, Sale, Refused
<1> QED
  BY <1>1, <1>2, <1>3, <1>4

\* What the steps of a scan know of each other holds in every state.
TurnsInv == TypesInv /\ Fields /\ TurnInv

LEMMA TurnsAlways == Spec => []TurnsInv
<1>1. Spec => []TypesInv
  BY InitTypes, TypesStep, PTL DEF Spec
<1>2. Spec => []TrancheInv
  BY InitTranche, TrancheStep, PTL DEF Spec
<1>3. TrancheInv => Fields
  BY DEF TrancheInv
<1>4. Fields /\ TurnInv /\ [Next]_vars => TurnInv'
  BY TurnStep
<1>5. TypesInv /\ Fields /\ TurnInv => TurnsInv
  BY DEF TurnsInv
<1> QED
  BY <1>1, <1>2, <1>3, <1>4, <1>5, TurnInit, PTL DEF Spec

LEMMA SaleAlways == Spec => []SaleInv
<1>1. TurnsInv /\ TurnsInv' /\ SaleInv /\ [Next]_vars => SaleInv'
  BY SaleStep DEF TurnsInv
<1> QED
  BY <1>1, TurnsAlways, SaleInit, PTL DEF Spec

-----------------------------------------------------------------------------
(* The exit's stop                                                          *)

LEMMA TimesUp ==
    ASSUME NEW n \in Nat, NEW a \in Int, NEW b \in Int, a <= b
    PROVE  n * a <= n * b /\ n * a \in Int /\ n * b \in Int
<1>1. n * (b - a) >= 0 /\ n * (b - a) = n * b - n * a
  OBVIOUS
<1> QED
  BY <1>1

\* A stop on q at sl below the market that the exchange takes, as soon as that
\* much is free, stands after a request that did not fail.
LEMMA StopStands ==
    ASSUME Account, NEW q \in Int, NEW sl \in Nat, sl < price, Takes(q, sl),
           FloorStep(q) <= free, NEW ok \in BOOLEAN, faults \in Nat, faults' = faults,
           Send(StopLoss(FloorStep(q), sl), ok)
    PROVE  StopCover' >= FloorStep(q)
<1> DEFINE F == FloorStep(q)
           l == StopLoss(F, sl)
<1>1. F \in Nat \ {0}
  BY FloorStepInt, ExchangeAssumption DEF Takes, ExchangeAssumption
<1>2. l \in Leg /\ l.kind = "sl" /\ l.qty = F /\ l.sl = sl
  BY <1>1 DEF StopLoss, Leg, Kinds
<1> HIDE DEF F, l
<1>3. F >= MinQty /\ F * sl >= MinNotional /\ 100 * sl >= BandPct * price /\ F <= free
  BY DEF Takes, F
<1>4. Placeable(l)
  BY <1>2, <1>3 DEF Placeable, HasSl, Notional
<1>5. Accept(l)
  BY <1>4 DEF Send, Answer, Fault, l, F
<1>6. Taken(l)
  BY <1>2, <1>3, <1>5, AcceptEffect
<1>7. StopCover \in Nat /\ StopCover' = StopCover + F
  BY <1>2, <1>6, AccountNat DEF Taken
<1> QED
  BY <1>1, <1>7 DEF F

\* When there are no orders everything held is free.
LEMMA AllFree ==
    ASSUME Account, DOMAIN book = {}
    PROVE  Held = free
BY QtyEmpty, KindNames DEF Account, Held

LEMMA HeldNext == Account' => Held' \in Nat
BY KindNames DEF Account, Held

LEMMA SendHolds ==
    ASSUME Account, NEW l, NEW ok \in BOOLEAN, Send(l, ok)
    PROVE  Held' <= Held
BY SendEffect, AccountNat DEF Taken, Nothing, exchange, Held

LEMMA RestLow ==
    ASSUME price \in Prices, Sale.px = price
    PROVE  RestSl("scan") \in Nat /\ RestSl("scan") < price
<1>1. price \in Nat \ {0} /\ Entry \in Nat
  BY ExchangeAssumption, EntryAssumption DEF ExchangeAssumption, EntryAssumption
<1> DEFINE a == (10025 * Entry) \div 10000
           b == ((100 - Width) * price) \div 100
           c == (995 * Entry) \div 1000
           five == (95 * price) \div 100
           want == IF Sale.kind = "tp_partial" THEN Max({a, b}) ELSE c
<1>2. a \in Nat /\ c \in Nat /\ five \in Nat /\ five < price
  BY <1>1
<1>3. b \in Nat
  <2>1. (100 - Width) * price \in Nat
    <3>1. 100 - Width \in Nat
      BY WidthBand
    <3> QED
      BY <1>1, <3>1
  <2> QED
    BY <2>1
<1>4. RestSl("scan") = IF 100 * want >= 98 * price THEN five ELSE want
  BY DEF RestSl, Sale
<1> HIDE DEF a, b, c, five
<1>5. want \in Nat
  <2>1. Max({a, b}) \in Nat
    BY <1>2, <1>3, MaxTwo
  <2> QED
    BY <1>2, <2>1
<1> HIDE DEF want
<1> QED
  BY <1>1, <1>2, <1>4, <1>5

LEMMA RescueKeeps ==
    ASSUME Account, ExitOk, TurnInv, SaleKnows, Sale.at = "rescue", Rescue("scan"), Paced,
           faults' <= mark.faults + 1,
           Takes(Sale.q, (97 * Sale.px) \div 100), Sale.q <= Held'
    PROVE  StopCover' >= FloorStep(Sale.q)
<1> DEFINE sl == (97 * Sale.px) \div 100
           F == FloorStep(Sale.q)
<1>1. PICK ok \in BOOLEAN : Send(StopLoss(F, sl), ok)
  BY DEF Rescue, Sale
<1>2. price \in Nat \ {0} /\ Sale.px = price /\ sl \in Nat /\ sl < price
  <2>1. price \in Nat \ {0} /\ Sale.px = price
    BY ExchangeAssumption DEF ExchangeAssumption, Account, SaleKnows
  <2> QED
    BY <2>1
<1>3. Sale.q \in Int /\ F \in Int /\ F <= Sale.q
  <2>1. Sale.q \in Int
    BY DEF ExitOk, Procs, Sale
  <2> QED
    BY <2>1, FloorStepInt
<1> HIDE DEF sl, F
<1>4. F >= MinQty /\ F * sl >= MinNotional /\ F \in Nat
  BY <1>3, ExchangeAssumption DEF Takes, sl, F, ExchangeAssumption
<1>5. ~Refused(Sale.q, price)
  <2>1. F * sl <= F * price /\ F * sl \in Int /\ F * price \in Int
    BY <1>2, <1>4, TimesUp
  <2>2. MinNotional \in Nat /\ MinQty \in Nat
    BY ExchangeAssumption DEF ExchangeAssumption
  <2> QED
    BY <1>4, <2>1, <2>2 DEF Refused, F
<1>6. faults = mark.faults + 1 /\ faults' = faults /\ faults \in Nat
  BY <1>5 DEF SaleKnows, TurnInv, Paced, NoFault, Fault
<1>7. F <= free \/ DOMAIN book = {}
  BY <1>6 DEF SaleKnows, F
<1>8. F <= free
  <2>1. Held' <= Held /\ Held \in Nat /\ Held' \in Nat
    <3>1. Account'
      BY <1>1, SendEffect
    <3> QED
      BY <1>1, <3>1, HeldNext, SendHolds, AccountNat
  <2> QED
    BY <1>3, <1>7, <2>1, AllFree
<1> QED
  BY <1>1, <1>2, <1>3, <1>6, <1>8, StopStands DEF sl, F

LEMMA RelistKeeps ==
    ASSUME Account, ExitOk, TurnInv, SaleKnows, Sale.at = "relist", Relist("scan"), Paced,
           faults' = mark.faults,
           Takes(Sale.want - Sale.q, RestSl("scan")), Sale.want - Sale.q <= Held'
    PROVE  StopCover' >= FloorStep(Sale.want - Sale.q)
<1> DEFINE kept == Sale.want - Sale.q
           sl == RestSl("scan")
           F == FloorStep(kept)
<1>1. \/ F * Sale.px >= MinNotional /\ \E ok \in BOOLEAN : Send(StopLoss(F, sl), ok)
      \/ F * Sale.px < MinNotional
  BY DEF Relist, Sale
<1>2. price \in Nat \ {0} /\ Sale.px = price /\ sl \in Nat /\ sl < price
  <2>1. price \in Nat \ {0} /\ Sale.px = price /\ price \in Prices
    BY ExchangeAssumption DEF ExchangeAssumption, Account, SaleKnows
  <2> QED
    BY <2>1, RestLow
<1>3. kept \in Int /\ F \in Int /\ F <= kept
  <2>1. Sale.q \in Int /\ Sale.want \in Nat
    BY DEF ExitOk, Procs, Sale
  <2> QED
    BY <2>1, FloorStepInt
<1> HIDE DEF sl, kept
<1>4. F >= MinQty /\ F * sl >= MinNotional /\ F \in Nat
  BY <1>3, ExchangeAssumption DEF Takes, sl, kept, ExchangeAssumption
<1> HIDE DEF F
<1>5. ~(F * Sale.px < MinNotional)
  <2>1. F * sl <= F * price /\ F * sl \in Int /\ F * price \in Int
    BY <1>2, <1>4, TimesUp
  <2>2. MinNotional \in Nat
    BY ExchangeAssumption DEF ExchangeAssumption
  <2> QED
    BY <1>2, <1>4, <2>1, <2>2
<1>6. PICK ok \in BOOLEAN : Send(StopLoss(F, sl), ok)
  BY <1>1, <1>5
<1>7. faults = mark.faults /\ faults' = faults /\ faults \in Nat /\ DOMAIN book = {}
  BY DEF SaleKnows, TurnInv, Paced, NoFault, Fault
<1>8. F <= free
  <2>1. Held' <= Held /\ Held \in Nat /\ Held' \in Nat
    <3>1. Account'
      BY <1>6, SendEffect
    <3> QED
      BY <1>6, <3>1, HeldNext, SendHolds, AccountNat
  <2>2. kept <= Held'
    BY DEF kept
  <2> QED
    BY <1>3, <1>7, <2>1, <2>2, AllFree
<1> QED
  BY <1>2, <1>3, <1>6, <1>7, <1>8, StopStands DEF sl, F, kept

\* The stop an exit owes: execute_exit cancels every order of the symbol before
\* it sells, and puts a stop behind what a failed sale did not sell and behind
\* what a partial one kept, unless the exchange would not take one.
THEOREM ExitStopKept == Spec => ExitKeepsFloor
<1> DEFINE behind(q, sl) == q > Held' \/ ~Takes(q, sl) \/ StopCover' >= FloorStep(q)
           Kept == /\ Sale.at = "rescue" /\ mark.calm' /\ faults' <= mark.faults + 1
                        => behind(Sale.q, (97 * Sale.px) \div 100)
                   /\ Sale.at = "relist" /\ mark.calm' /\ faults' = mark.faults
                        => behind(Sale.want - Sale.q, RestSl("scan"))
<1>1. TurnsInv /\ TurnsInv' /\ SaleInv /\ [Next]_vars => [Kept]_vars
  <2> SUFFICES ASSUME TurnsInv, TurnsInv', SaleInv, Next PROVE Kept
    OBVIOUS
  <2>0. /\ Account /\ ExitOk /\ TurnInv /\ Fields
        /\ Sale.q \in Int /\ Sale.want \in Nat
    BY DEF TurnsInv, TypesInv, ExitOk, Procs, Sale
  <2>1. Held' \in Int
    BY HeldNext DEF TurnsInv, TypesInv
  <2>2. ASSUME Sale.at \in {"rescue", "relist"}, mark'.calm
        PROVE  ExecuteExit("scan") /\ Paced /\ SaleKnows
    BY <2>0, <2>2, SaleTurn DEF SaleInv
  <2>3. ASSUME Sale.at = "rescue", mark'.calm, faults' <= mark.faults + 1
        PROVE  behind(Sale.q, (97 * Sale.px) \div 100)
    <3>1. Rescue("scan")
      BY <2>2, <2>3 DEF ExecuteExit, SyncTranche, ListLegs, CancelLeg, SizeSale, Sell, Relist,
                        Finish, At, Sale
    <3> QED
      BY <2>0, <2>1, <2>2, <2>3, <3>1, RescueKeeps
  <2>4. ASSUME Sale.at = "relist", mark'.calm, faults' = mark.faults
        PROVE  behind(Sale.want - Sale.q, RestSl("scan"))
    <3>1. Relist("scan")
      BY <2>2, <2>4 DEF ExecuteExit, SyncTranche, ListLegs, CancelLeg, SizeSale, Sell, Rescue,
                        Finish, At, Sale
    <3> QED
      BY <2>0, <2>1, <2>2, <2>4, <3>1, RelistKeeps
  <2> QED
    BY <2>3, <2>4
<1> QED
  BY <1>1, TurnsAlways, SaleAlways, PTL DEF Spec, ExitKeepsFloor, Sale

-----------------------------------------------------------------------------
(* The highest stop                                                         *)

\* Over a finite set that is not empty a function has its greatest value.
LEMMA MaxOver ==
    ASSUME NEW S, IsFiniteSet(S), S # {}, NEW f, \A x \in S : f[x] \in Nat
    PROVE  \E x \in S : \A y \in S : f[y] <= f[x]
<1> DEFINE Top1(T) == T = {} \/ \E x \in T : \A y \in T : f[y] <= f[x]
           G == {T \in SUBSET S : Top1(T)}
<1>1. {} \in G
  OBVIOUS
<1>2. ASSUME NEW T \in SUBSET S, NEW x \in S \ T, T \in G
      PROVE  T \cup {x} \in G
  <2>1. Top1(T \cup {x})
    <3>1. CASE T = {}
      BY <3>1
    <3>2. CASE T # {}
      <4>1. PICK m \in T : \A y \in T : f[y] <= f[m]
        BY <1>2, <3>2
      <4>2. f[m] \in Nat /\ f[x] \in Nat /\ \A y \in T : f[y] \in Nat
        OBVIOUS
      <4>3. CASE f[x] <= f[m]
        BY <4>1, <4>3
      <4>4. CASE f[m] <= f[x]
        BY <4>1, <4>2, <4>4
      <4> QED
        BY <4>2, <4>3, <4>4
    <3> QED
      BY <3>1, <3>2
  <2> QED
    BY <2>1
<1> HIDE DEF Top1
<1>3. S \in G
  <2> HIDE DEF G
  <2> QED
    BY <1>1, <1>2, FiniteInduction
<1> QED
  BY <1>3 DEF Top1

\* A stop in the book is no higher than the highest.
LEMMA HighestIn ==
    ASSUME NEW b, NEW n \in Nat, BookOk(b, n), SlLegs(b) # {}
    PROVE  Highest(b) \in Nat /\ \A i \in SlLegs(b) : b[i].sl <= Highest(b)
<1> DEFINE D == SlLegs(b)
           S == {b[i].sl : i \in D}
           f == [i \in D |-> b[i].sl]
<1>1. D \subseteq DOMAIN b /\ IsFiniteSet(D) /\ \A i \in D : b[i].sl \in Nat
  <2>1. D \subseteq DOMAIN b /\ IsFiniteSet(DOMAIN b)
    BY PartNat DEF SlLegs
  <2>2. IsFiniteSet(D)
    BY <2>1, FS_Subset
  <2> QED
    BY <2>1, <2>2 DEF BookOk, Leg
<1> HIDE DEF D
<1>2. \E x \in D : \A y \in D : f[y] <= f[x]
  <2>1. \A x \in D : f[x] \in Nat
    BY <1>1
  <2>2. D # {}
    BY DEF D
  <2> HIDE DEF f
  <2> QED
    BY <1>1, <2>1, <2>2, MaxOver
<1>3. \E x \in S : \A y \in S : x >= y
  <2>1. PICK i \in D : \A y \in D : f[y] <= f[i]
    BY <1>2
  <2>2. \A y \in D : b[y].sl <= b[i].sl
    BY <2>1
  <2> QED
    BY <1>1, <2>2
<1> HIDE DEF S, f
<1>4. Max(S) \in S /\ \A y \in S : Max(S) >= y
  BY <1>3, Zenon DEF Max
<1> QED
  BY <1>1, <1>4 DEF Highest, S, D

LEMMA TopReaches ==
    ASSUME NEW b, NEW n \in Nat, BookOk(b, n), NEW i \in SlLegs(b), NEW p \in Int, p <= b[i].sl
    PROVE  p <= Top(b)
<1>1. Highest(b) \in Nat /\ b[i].sl <= Highest(b) /\ SlLegs(b) # {}
  BY HighestIn
<1>2. b[i].sl \in Nat
  BY DEF SlLegs, BookOk, Leg
<1> QED
  BY <1>1, <1>2 DEF Top

\* An accepted order with a stop rests in the book.
LEMMA AcceptRests ==
    ASSUME Account, NEW l \in Leg, HasSl(l), Accept(l), NEW p \in Int, p <= l.sl,
           MinQty <= l.qty, l.qty <= free
    PROVE  p <= Top(book')
<1>1. issued' = issued + 1 /\ ~Marketable(l)
  BY DEF Accept, Marketable, HasSl
<1>2. PICK i \in Fresh(DOMAIN book \cup 1 .. issued) : Rest(l, i)
  BY <1>1 DEF Accept, Join
<1>3. i \in DOMAIN book' /\ book'[i] = l
  BY <1>2 DEF Rest
<1>4. i \in SlLegs(book')
  BY <1>3 DEF SlLegs
<1>5. BookOk(book', issued') /\ issued' \in Nat
  BY AcceptEffect DEF Account
<1> QED
  BY <1>3, <1>4, <1>5, TopReaches

-----------------------------------------------------------------------------
(* What the move of the stops knows                                         *)

Moving == {"moveCancel", "recheck", "movePlace", "safety", "safetySl"}

\* The stop that is put back last
OldStop == StopLoss(FloorStep(check.q), check.old)

\* As long as nobody else has acted: the new stop lies below the market, the
\* take-profit that goes with it above, which the exchange showed when it
\* served the cancel of that order; a second look follows a failed call; and the
\* old stop is put back after a refusal, which the old stop would have met too.
MoveCalm ==
    /\ check.px < price
    /\ check.at = "moveCancel" =>
         /\ check.todo \subseteq DOMAIN book
         /\ check.tp > 0 => \/ price < check.tp
                            \/ \E i \in check.todo : HasTp(book[i]) /\ book[i].tp = check.tp
    /\ check.at = "recheck" => faults > mark.faults
    /\ check.at = "movePlace" /\ faults = mark.faults /\ check.tp > 0 => price < check.tp
    /\ check.at \in {"safety", "safetySl"} /\ faults = mark.faults => ~Placeable(OldStop)

MoveKnows ==
    /\ check.px \in Nat /\ check.old \in Nat /\ check.tp \in Nat /\ check.old <= check.px
    /\ check.at \in {"moveCancel", "recheck"} /\ exit["panel"] = Resting
         => SlLegs(book) \subseteq check.todo
    /\ mark.calm => MoveCalm

\* A track that is off has not seen the price that turns it on.
TrackOff == ts.on \/ ts.high < Entry + Atr

Aimed == check.at = "move" => check.px \in Nat /\ (mark.calm => check.px < price)

MoveInv == TrackOff /\ Aimed /\ (check.at \in Moving => MoveKnows)

LEMMA MoveInit == Init => MoveInv
BY EntryAssumption, ExchangeAssumption
   DEF Init, MoveInv, TrackOff, Aimed, Moving, NoCheck, NoTrack, EntryAssumption, ExchangeAssumption

\* What a step of the check relies on
Steady == TypesInv /\ TypesInv' /\ TurnInv /\ MoveInv /\ Alone /\ Paced /\ exit' = exit

LEMMA SteadyFacts ==
    ASSUME Steady
    PROVE  /\ Account /\ Account' /\ TrailOk /\ mark' = mark
           /\ faults \in Nat /\ mark.faults \in Nat /\ mark.faults <= faults
           /\ faults' = faults \/ faults' = faults + 1
           /\ price \in Nat /\ Entry \in Nat /\ Atr \in Nat /\ Atr > 0
BY ExchangeAssumption, EntryAssumption
   DEF Steady, TypesInv, TurnInv, Alone, Paced, NoFault, Fault, Account, ExchangeAssumption,
       EntryAssumption

\* A stop behind the price the track was on at, or turned on by it, lies below
\* the price.
LEMMA TrailKnows ==
    ASSUME Steady, Trail
    PROVE  MoveInv'
<1>0. SteadyFacts!2
  BY SteadyFacts
<1>1. price' = price /\ ts' \in Tracks /\ ts \in Tracks /\ TrackOff
  BY DEF Trail, exchange, Steady, TypesInv, TrailOk, MoveInv
<1>2. \/ check'.at \in {"cover", "close"} /\ (ts' = ts \/ ts' = Trailed(ts, price))
      \/ /\ ts' = Trailed(ts, price) /\ ~(ts.on /\ price <= ts'.sl) /\ ts'.on
         /\ check'.at = "move" /\ check'.px = ts'.sl
  BY DEF Trail, ToStep, Steady, TypesInv, TrailOk, CheckFields
<1>3. ASSUME ts' = Trailed(ts, price), ~ts.on
      PROVE  \/ ~ts'.on /\ ts'.high < Entry + Atr
             \/ ts'.on /\ ts'.sl < price
  <2>1. ts.high \in Nat
    <3>1. ts.high = 0 \/ ts.high \in Prices
      BY <1>1 DEF Tracks
    <3>2. ts.high \in Prices => ts.high \in Nat
      BY ExchangeAssumption DEF ExchangeAssumption
    <3> QED
      BY <3>1, <3>2
  <2> DEFINE h == ts.high
             p == price
             m == Max({h, p})
             s == [ts EXCEPT !.high = m]
  <2>2. h \in Int /\ p \in Int /\ h < Entry + Atr
    BY <1>0, <1>1, <1>3, <2>1 DEF TrackOff
  <2>3. m \in {h, p}
    <3> HIDE DEF h, p
    <3> QED
      BY <2>2, MaxTwo
  <2> HIDE DEF m
  <2>4. s.high = m /\ s.on = ts.on
    BY <1>1 DEF Tracks
  <2>5. ts' = IF p - Entry >= Atr THEN [s EXCEPT !.sl = s.high - Atr, !.on = TRUE] ELSE s
    BY <1>3 DEF Trailed, m
  <2>6. CASE p - Entry >= Atr
    <3>1. ts'.on /\ ts'.sl = m - Atr
      BY <1>1, <2>4, <2>5, <2>6 DEF Tracks
    <3> QED
      BY <1>0, <2>2, <2>3, <2>6, <3>1
  <2>7. CASE ~(p - Entry >= Atr)
    <3>1. ts' = s
      BY <2>5, <2>7
    <3> HIDE DEF s
    <3> QED
      BY <1>0, <1>3, <2>2, <2>3, <2>4, <2>7, <3>1
  <2> QED
    BY <2>6, <2>7
<1>4. TrackOff'
  <2>1. CASE ts.on /\ ts' = Trailed(ts, price)
    <3>1. ts'.on
      BY <1>1, <2>1 DEF Trailed, Tracks
    <3> QED
      BY <3>1 DEF TrackOff
  <2>2. CASE ts' = ts
    BY <1>1, <2>2 DEF TrackOff
  <2> QED
    BY <1>2, <1>3, <2>1, <2>2 DEF TrackOff
<1>5. Aimed'
  <2>1. ts'.sl \in Nat
    BY <1>1 DEF Tracks
  <2>2. check'.at = "move" => check'.px = ts'.sl /\ ts'.sl < price
    <3>1. CASE ts.on
      BY <1>0, <1>2, <2>1, <3>1
    <3>2. CASE ~ts.on
      BY <1>2, <1>3, <3>2
    <3> QED
      BY <3>1, <3>2
  <2> QED
    BY <1>1, <2>1, <2>2 DEF Aimed
<1>6. check'.at \notin Moving
  BY <1>2 DEF Moving
<1> QED
  BY <1>4, <1>5, <1>6 DEF MoveInv

\* The take-profit that goes with the new stop is that of an order with a stop.
LEMMA OcoTop ==
    ASSUME NEW b, NEW n \in Nat, BookOk(b, n), NEW o, o \subseteq DOMAIN b, o # {}
    PROVE  /\ Max({b[i].tp : i \in o}) \in Nat
           /\ \E i \in o : b[i].tp = Max({b[j].tp : j \in o})
<1> DEFINE S == {b[i].tp : i \in o}
           f == [i \in o |-> b[i].tp]
<1>1. IsFiniteSet(o) /\ \A i \in o : b[i].tp \in Nat
  <2>1. IsFiniteSet(o)
    BY PartNat, FS_Subset
  <2> QED
    BY <2>1 DEF BookOk, Leg
<1>2. \E x \in o : \A y \in o : f[y] <= f[x]
  <2>1. \A x \in o : f[x] \in Nat
    BY <1>1
  <2> HIDE DEF f
  <2> QED
    BY <1>1, <2>1, MaxOver
<1>3. \E x \in S : \A y \in S : x >= y
  <2>1. PICK i \in o : \A y \in o : f[y] <= f[i]
    BY <1>2
  <2>2. \A y \in o : b[y].tp <= b[i].tp
    BY <2>1
  <2> QED
    BY <1>1, <2>2
<1> HIDE DEF S, f
<1>4. Max(S) \in S
  BY <1>3, Zenon DEF Max
<1> QED
  BY <1>1, <1>4 DEF S

LEMMA FindKnows ==
    ASSUME Steady, FindStops
    PROVE  MoveInv'
<1>0. SteadyFacts!2
  BY SteadyFacts
<1>1. /\ UNCHANGED <<price, book, ts>> /\ TrackOff /\ check.px \in Nat
      /\ (mark.calm => check.px < price) /\ DOMAIN check = CheckFields
  BY DEF FindStops, exchange, AtCheck, Steady, TypesInv, TrailOk, MoveInv, Aimed
<1> DEFINE oco == {i \in SlLegs(book) : book[i].kind = "oco"}
           tp == IF oco = {} THEN 0 ELSE Max({book[i].tp : i \in oco})
<1>2. \/ check'.at \in {"create", "cover"}
      \/ /\ SlLegs(book) # {} /\ 1000 * check.px > 1001 * Highest(book)
         /\ \E q : check' = [check EXCEPT !.at = "moveCancel", !.todo = SlLegs(book), !.q = q,
                                          !.old = Highest(book), !.tp = tp]
  <2> DEFINE Ocos(b) == {i \in SlLegs(b) : b[i].kind = "oco"}
             Tp(b) == IF Ocos(b) = {} THEN 0 ELSE Max({b[i].tp : i \in Ocos(b)})
             Qty(b) == Min({SumFunction([i \in SlLegs(b) |-> b[i].qty]), check.total})
             Higher(b) == SlLegs(b) # {} /\ 1000 * check.px > 1001 * Highest(b)
             Bare(b) == SlLegs(b) = {} /\ check.free >= 1
             Moved(b) == [check EXCEPT !.at = "moveCancel", !.todo = SlLegs(b), !.q = Qty(b),
                                       !.old = Highest(b), !.tp = Tp(b)]
  <2>1. PICK legs \in {book, NoOrders} :
          /\ Listed(legs)
          /\ check' = IF Higher(legs) THEN Moved(legs)
                      ELSE IF Bare(legs) THEN [check EXCEPT !.at = "create"]
                      ELSE [check EXCEPT !.at = "cover"]
    BY DEF FindStops
  <2>2. SlLegs(NoOrders) = {}
    BY DEF SlLegs, NoOrders
  <2>3. CASE check' = [check EXCEPT !.at = "create"] \/ check' = [check EXCEPT !.at = "cover"]
    BY <1>1, <2>3 DEF CheckFields
  <2>4. CASE Higher(legs) /\ check' = Moved(legs)
    <3>1. legs = book
      BY <2>2, <2>4
    <3>2. Higher(book) /\ check' = Moved(book)
      BY <2>4, <3>1
    <3>3. Tp(book) = tp
      BY Zenon
    <3>4. \E q : check' = [check EXCEPT !.at = "moveCancel", !.todo = SlLegs(book), !.q = q,
                                        !.old = Highest(book), !.tp = tp]
      <4> HIDE DEF tp, Tp, Qty
      <4> QED
        BY <3>2, <3>3
    <3> QED
      BY <3>2, <3>4
  <2> HIDE DEF Higher, Moved, Bare
  <2> QED
    BY <2>1, <2>3, <2>4
<1>3. CASE check'.at \in {"create", "cover"}
  BY <1>1, <1>3 DEF MoveInv, TrackOff, Aimed, Moving
<1>4. CASE SlLegs(book) # {} /\ 1000 * check.px > 1001 * Highest(book)
             /\ \E q : check' = [check EXCEPT !.at = "moveCancel", !.todo = SlLegs(book), !.q = q,
                                              !.old = Highest(book), !.tp = tp]
  <2>1. BookOk(book, issued) /\ issued \in Nat
    BY <1>0 DEF Account
  <2>2. Highest(book) \in Nat /\ Highest(book) <= check.px
    <3>1. Highest(book) \in Nat
      BY <1>4, <2>1, HighestIn
    <3> QED
      BY <1>1, <1>4, <3>1
  <2>3. tp \in Nat /\ (tp > 0 => \E i \in oco : book[i].tp = tp)
    <3>1. oco \subseteq DOMAIN book
      BY DEF SlLegs
    <3>2. CASE oco = {}
      BY <3>2
    <3>3. CASE oco # {}
      <4>1. tp = Max({book[i].tp : i \in oco})
        BY <3>3
      <4> HIDE DEF oco, tp
      <4> QED
        BY <2>1, <3>1, <3>3, <4>1, OcoTop
    <3> QED
      BY <3>2, <3>3
  <2>4. \A i \in oco : i \in SlLegs(book) /\ HasTp(book[i])
    BY DEF HasTp
  <2>5. SlLegs(book) \subseteq DOMAIN book
    BY DEF SlLegs
  <2> HIDE DEF oco, tp
  <2>6. /\ check'.at = "moveCancel" /\ check'.todo = SlLegs(book) /\ check'.old = Highest(book)
        /\ check'.tp = tp /\ check'.px = check.px
    BY <1>1, <1>4 DEF CheckFields
  <2>7. mark'.calm => MoveCalm'
    BY <1>0, <1>1, <2>3, <2>4, <2>5, <2>6 DEF MoveCalm
  <2> QED
    BY <1>0, <1>1, <2>2, <2>3, <2>6, <2>7 DEF MoveInv, TrackOff, Aimed, MoveKnows
<1> QED
  BY <1>2, <1>3, <1>4

LEMMA CancelMoves ==
    ASSUME Steady, MoveCancel
    PROVE  MoveInv'
<1>0. SteadyFacts!2
  BY SteadyFacts
<1>1. /\ check.at = "moveCancel" /\ MoveKnows /\ TrackOff /\ ts' = ts /\ exit' = exit
      /\ DOMAIN check = CheckFields
  BY DEF MoveCancel, AtCheck, Steady, MoveInv, Moving, TypesInv, TrailOk
<1>2. CASE check.todo = {} /\ ToStep("movePlace") /\ UNCHANGED <<exchange, issued, unbooked, faults>>
  <2>1. /\ check'.at = "movePlace" /\ check'.px = check.px /\ check'.old = check.old
        /\ check'.tp = check.tp /\ price' = price /\ faults' = faults
    BY <1>1, <1>2 DEF ToStep, CheckFields, exchange
  <2>2. mark'.calm => MoveCalm'
    BY <1>0, <1>1, <1>2, <2>1 DEF MoveKnows, MoveCalm
  <2> QED
    BY <1>0, <1>1, <2>1, <2>2 DEF MoveInv, TrackOff, Aimed, MoveKnows
<1>3. ASSUME NEW i \in check.todo, NEW ok \in BOOLEAN, CancelOrder(i, ok),
             check' = IF ok THEN [check EXCEPT !.todo = @ \ {i}] ELSE [check EXCEPT !.at = "recheck"]
      PROVE  MoveInv'
  <2>1. Left(i) \/ (~ok /\ Nothing)
    BY <1>0, <1>3, CancelEffect
  <2>2. price' = price /\ \A j \in DOMAIN book' : j \in DOMAIN book /\ book'[j] = book[j]
    BY <2>1 DEF Left, Nothing, exchange
  <2>3. SlLegs(book') \subseteq SlLegs(book)
    BY <2>2 DEF SlLegs
  <2>4. /\ check'.px = check.px /\ check'.old = check.old /\ check'.tp = check.tp
        /\ ok => check'.at = "moveCancel" /\ check'.todo = check.todo \ {i}
        /\ ~ok => check'.at = "recheck" /\ check'.todo = check.todo
    BY <1>1, <1>3 DEF CheckFields
  <2>5. exit'["panel"] = Resting => SlLegs(book') \subseteq check'.todo
    <3>1. exit["panel"] = Resting => SlLegs(book) \subseteq check.todo
      BY <1>1 DEF MoveKnows
    <3>2. ok => i \notin SlLegs(book')
      BY <2>1 DEF Left, SlLegs
    <3> QED
      BY <1>1, <2>3, <2>4, <3>1, <3>2
  <2>6. ASSUME mark.calm PROVE MoveCalm'
    <3>1. MoveCalm /\ i \in DOMAIN book
      BY <1>1, <2>6 DEF MoveKnows, MoveCalm
    <3>2. CASE ok
      <4>1. DOMAIN book' = DOMAIN book \ {i} /\ ~Reached(book[i])
        BY <1>3, <2>1, <3>1, <3>2 DEF Left, CancelOrder, Answer, Settled
      <4>2. check'.todo \subseteq DOMAIN book'
        BY <1>1, <2>4, <3>1, <3>2, <4>1 DEF MoveCalm
      <4>3. ASSUME check.tp > 0
            PROVE  price < check.tp \/ \E j \in check'.todo : HasTp(book'[j]) /\ book'[j].tp = check.tp
        <5>1. CASE price < check.tp
          BY <5>1
        <5>2. CASE \E j \in check.todo : HasTp(book[j]) /\ book[j].tp = check.tp
          <6>1. PICK j \in check.todo : HasTp(book[j]) /\ book[j].tp = check.tp
            BY <5>2
          <6>2. CASE j = i
            <7>1. ~(price >= check.tp) /\ check.tp \in Nat
              BY <1>1, <4>1, <6>1, <6>2 DEF Reached, MoveKnows
            <7> QED
              BY <1>0, <7>1
          <6>3. CASE j # i
            BY <2>2, <2>4, <3>2, <4>2, <6>1, <6>3
          <6> QED
            BY <6>2, <6>3
        <5> QED
          BY <1>1, <3>1, <4>3, <5>1, <5>2 DEF MoveCalm
      <4> QED
        BY <2>2, <2>4, <3>1, <3>2, <4>2, <4>3 DEF MoveCalm
    <3>3. CASE ~ok
      <4>1. faults' = faults + 1
        BY <1>3, <3>1, <3>3 DEF CancelOrder, Answer, Fault
      <4>2. faults' > mark.faults
        BY <1>0, <4>1
      <4> QED
        BY <1>0, <2>2, <2>4, <3>1, <3>3, <4>2 DEF MoveCalm
    <3> QED
      BY <3>2, <3>3
  <2>7. MoveKnows'
    BY <1>0, <1>1, <2>4, <2>5, <2>6 DEF MoveKnows
  <2>8. check'.at # "move" /\ TrackOff'
    BY <1>1, <2>4 DEF TrackOff
  <2> QED
    BY <2>7, <2>8 DEF MoveInv, Aimed
<1> QED
  BY <1>2, <1>3 DEF MoveCancel

LEMMA RecheckKnows ==
    ASSUME Steady, Recheck
    PROVE  MoveInv'
<1>0. SteadyFacts!2
  BY SteadyFacts
<1>1. /\ check.at = "recheck" /\ MoveKnows /\ TrackOff /\ ts' = ts /\ price' = price
      /\ DOMAIN check = CheckFields
  BY DEF Recheck, AtCheck, Steady, MoveInv, Moving, TypesInv, TrailOk, exchange
<1>2. /\ check'.at \in {"cover", "movePlace"} /\ check'.px = check.px
      /\ check'.old = check.old /\ check'.tp = check.tp
  <2>1. ToStep("cover") \/ ToStep("movePlace")
    BY DEF Recheck
  <2> QED
    BY <1>1, <2>1 DEF ToStep, CheckFields
<1>3. mark.calm => MoveCalm'
  <2>1. mark.calm => faults > mark.faults /\ check.px < price
    BY <1>1 DEF MoveKnows, MoveCalm
  <2>2. mark.calm => faults' > mark.faults
    BY <1>0, <2>1
  <2> QED
    BY <1>0, <1>1, <1>2, <2>1, <2>2 DEF MoveCalm
<1>4. MoveKnows'
  BY <1>0, <1>1, <1>2, <1>3 DEF MoveKnows
<1> QED
  BY <1>1, <1>2, <1>4 DEF MoveInv, TrackOff, Aimed, Moving

\* What a request for an order with a stop leaves behind: that stop, or an
\* account as it was, after a refusal or a failed call.
LEMMA StopAsked ==
    ASSUME Account, NEW l, HasSl(l), NEW p \in Int, p <= l.sl, NEW ok \in BOOLEAN, Send(l, ok)
    PROVE  /\ price' = price
           /\ \/ p <= Top(book')
              \/ ~ok /\ Fault /\ Nothing
              \/ ~ok /\ NoFault /\ Nothing /\ ~Placeable(l)
<1>1. \/ Placeable(l) /\ Accept(l)
      \/ ~ok /\ Fault /\ Nothing
      \/ ~ok /\ NoFault /\ Nothing /\ ~Placeable(l)
  BY DEF Send, Answer, Nothing
<1>2. ASSUME Placeable(l), Accept(l) PROVE p <= Top(book')
  BY <1>2, AcceptRests DEF Placeable
<1>3. price' = price
  BY SendEffect DEF Taken, Nothing, exchange
<1> QED
  BY <1>1, <1>2, <1>3

\* An attempt keeps what the move is about; another step than "cover" follows
\* a request that was not heard of.
LEMMA AttemptKnows ==
    ASSUME Steady, NEW l, HasSl(l), NEW p \in Int, p <= l.sl, NEW n, NEW b,
           Attempt(l, n, "cover", b)
    PROVE  /\ check'.at \in {"cover", b, check.at} /\ check'.px = check.px
           /\ check'.old = check.old /\ check'.tp = check.tp /\ check'.q = check.q
           /\ price' = price
           /\ \/ p <= Top(book')
              \/ Fault /\ Nothing
              \/ NoFault /\ Nothing /\ ~Placeable(l)
           /\ check'.at # "cover" /\ faults' = faults => ~Placeable(l) /\ Nothing
<1>0. SteadyFacts!2
  BY SteadyFacts
<1>1. PICK ok \in BOOLEAN :
        /\ Send(l, ok)
        /\ IF ok THEN ToStep("cover")
           ELSE IF check.tries < n THEN check' = [check EXCEPT !.tries = @ + 1]
           ELSE ToStep(b)
  BY DEF Attempt
<1>2. DOMAIN check = CheckFields
  BY <1>0 DEF TrailOk
<1>3. /\ check'.at \in {"cover", b, check.at} /\ check'.px = check.px
      /\ check'.old = check.old /\ check'.tp = check.tp /\ check'.q = check.q
      /\ ok => check'.at = "cover"
  BY <1>1, <1>2 DEF ToStep, CheckFields
<1>4. /\ price' = price
      /\ \/ p <= Top(book')
         \/ ~ok /\ Fault /\ Nothing
         \/ ~ok /\ NoFault /\ Nothing /\ ~Placeable(l)
  BY <1>0, <1>1, StopAsked
<1>5. ~ok /\ faults' = faults => ~Placeable(l) /\ Nothing
  BY <1>0, <1>1 DEF Send, Answer, Fault, Nothing
<1> QED
  BY <1>3, <1>4, <1>5

\* Where the exchange takes the old stop it takes the new order.
LEMMA NewFollowsOld ==
    ASSUME price \in Nat, MoveKnows, MoveCalm, check.tp > 0 => price < check.tp,
           Placeable(OldStop)
    PROVE  Placeable(Protection(check.px))
<1> DEFINE F == FloorStep(check.q)
<1>1. /\ OldStop = [kind |-> "sl", qty |-> F, tp |-> 0, sl |-> check.old]
      /\ OldStop \in Leg
  BY DEF OldStop, StopLoss, Placeable
<1>2. F \in Nat \ {0}
  <2>1. OldStop.qty = F
    BY <1>1
  <2> QED
    BY <1>1, <2>1 DEF Leg
<1>3. /\ check.px \in Nat /\ check.old \in Nat /\ check.tp \in Nat /\ check.old <= check.px
      /\ check.px < price
  BY DEF MoveKnows, MoveCalm
<1>4. F >= MinQty /\ F <= free /\ F * check.old >= MinNotional /\ 100 * check.old >= BandPct * price
  BY <1>1 DEF Placeable, HasSl, Notional
<1> HIDE DEF F
<1>5. F * check.px >= MinNotional
  <2>1. F * check.old <= F * check.px /\ F * check.old \in Int /\ F * check.px \in Int
    BY <1>2, <1>3, TimesUp
  <2>2. MinNotional \in Nat
    BY ExchangeAssumption DEF ExchangeAssumption
  <2> QED
    BY <1>4, <2>1, <2>2
<1>6. 100 * check.px >= BandPct * price
  <2>1. BandPct * price \in Nat
    BY ExchangeAssumption DEF ExchangeAssumption
  <2> QED
    BY <1>3, <1>4, <2>1
<1>7. CASE check.tp > 0
  <2>1. Protection(check.px) = [kind |-> "oco", qty |-> F, tp |-> check.tp, sl |-> check.px]
    BY <1>7 DEF Protection, Oco, F
  <2>2. Protection(check.px) \in Leg
    BY <1>2, <1>3, <2>1 DEF Leg, Kinds
  <2> QED
    BY <1>3, <1>4, <1>5, <1>6, <1>7, <2>1, <2>2 DEF Placeable, HasSl, Notional
<1>8. CASE ~(check.tp > 0)
  <2>1. Protection(check.px) = [kind |-> "sl", qty |-> F, tp |-> 0, sl |-> check.px]
    BY <1>8 DEF Protection, StopLoss, F
  <2>2. Protection(check.px) \in Leg
    BY <1>2, <1>3, <2>1 DEF Leg, Kinds
  <2> QED
    BY <1>3, <1>4, <1>5, <1>6, <2>1, <2>2 DEF Placeable, HasSl, Notional
<1> QED
  BY <1>7, <1>8

LEMMA ProtectionStops ==
    ASSUME NEW p
    PROVE  HasSl(Protection(p)) /\ Protection(p).sl = p
BY DEF Protection, Oco, StopLoss, HasSl

LEMMA OldStops == HasSl(OldStop) /\ OldStop.sl = check.old
BY DEF OldStop, StopLoss, HasSl

LEMMA MovePlaceKnows ==
    ASSUME Steady, MovePlace
    PROVE  /\ MoveInv'
           /\ check'.at = "cover" => check.old <= Top(book')
<1>0. SteadyFacts!2
  BY SteadyFacts
<1>1. /\ check.at = "movePlace" /\ MoveKnows /\ TrackOff /\ ts' = ts
      /\ Attempt(Protection(check.px), 3, "cover", "safety")
  BY DEF MovePlace, AtCheck, Steady, MoveInv, Moving
<1>2. check.px \in Int /\ check.old \in Int /\ check.old <= check.px
  BY <1>1 DEF MoveKnows
<1>3. /\ check'.at \in {"cover", "safety", "movePlace"} /\ check'.px = check.px
      /\ check'.old = check.old /\ check'.tp = check.tp /\ check'.q = check.q
      /\ price' = price
      /\ check'.at # "cover" /\ faults' = faults => ~Placeable(Protection(check.px)) /\ Nothing
  BY <1>1, <1>2, ProtectionStops, AttemptKnows
<1>4. ASSUME mark.calm PROVE MoveCalm'
  <2>1. MoveCalm
    BY <1>1, <1>4 DEF MoveKnows
  <2>2. ASSUME faults' = mark.faults PROVE faults' = faults /\ faults = mark.faults
    BY <1>0, <2>2
  <2>3. ASSUME check'.at = "safety", faults' = mark.faults PROVE ~Placeable(OldStop)'
    <3>1. ~Placeable(Protection(check.px)) /\ Nothing
      BY <1>3, <2>2, <2>3
    <3>2. check.tp > 0 => price < check.tp
      BY <1>1, <2>1, <2>2, <2>3 DEF MoveCalm
    <3>3. ~Placeable(OldStop)
      BY <1>0, <1>1, <2>1, <3>1, <3>2, NewFollowsOld
    <3> QED
      BY <1>3, <3>1, <3>3 DEF Nothing, exchange, Placeable, OldStop
  <2> QED
    BY <1>0, <1>1, <1>3, <2>1, <2>2, <2>3 DEF MoveCalm
<1>5. MoveKnows'
  BY <1>0, <1>1, <1>3, <1>4 DEF MoveKnows
<1>6. check'.at = "cover" => check.old <= Top(book')
  <2>1. PICK ok \in BOOLEAN :
          /\ Send(Protection(check.px), ok)
          /\ IF ok THEN ToStep("cover")
             ELSE IF check.tries < 3 THEN check' = [check EXCEPT !.tries = @ + 1]
             ELSE ToStep("safety")
    BY <1>1 DEF Attempt
  <2>2. check'.at = "cover" => ok
    BY <1>0, <1>1, <2>1 DEF ToStep, TrailOk, CheckFields
  <2> QED
    BY <1>0, <1>2, <2>1, <2>2, ProtectionStops, StopAsked
<1> QED
  BY <1>1, <1>3, <1>5, <1>6 DEF MoveInv, TrackOff, Aimed

\* The old stop, alone or with the take-profit, is asked for.
LEMMA SafetyKnows ==
    ASSUME Steady, Safety \/ SafetySl
    PROVE  /\ MoveInv'
           /\ check'.at = "cover" /\ (faults' = mark.faults \/ (mark.calm /\ faults' = mark.faults + 1))
                => check.old <= Top(book') \/ ~Placeable(OldStop)'
<1>0. SteadyFacts!2
  BY SteadyFacts
<1>1. check.at \in {"safety", "safetySl"} /\ MoveKnows /\ TrackOff /\ ts' = ts /\ check.old \in Int
  BY DEF Safety, SafetySl, AtCheck, Steady, MoveInv, Moving, MoveKnows
<1>2. /\ check'.at \in {"cover", "safetySl", check.at} /\ check'.px = check.px
      /\ check'.old = check.old /\ check'.tp = check.tp /\ check'.q = check.q
      /\ price' = price
      /\ check'.at # "cover" /\ faults' = faults => Nothing
      /\ \/ check.old <= Top(book')
         \/ Fault /\ Nothing
         \/ NoFault /\ Nothing /\ (check'.at = "cover" => ~Placeable(OldStop))
  <2>1. CASE Safety
    <3> DEFINE b == IF check.tp > 0 THEN "safetySl" ELSE "cover"
               l == Protection(check.old)
    <3>1. Attempt(l, 1, "cover", b) /\ check.at = "safety"
      BY <2>1 DEF Safety, AtCheck
    <3>2. HasSl(l) /\ check.old <= l.sl
      BY <1>1, ProtectionStops
    <3>3. b # "cover" \/ l = OldStop
      BY DEF Protection, OldStop
    <3>4. b \in {"safetySl", "cover"}
      OBVIOUS
    <3> HIDE DEF l, b
    <3>5. /\ check'.at \in {"cover", b, check.at} /\ check'.px = check.px
          /\ check'.old = check.old /\ check'.tp = check.tp /\ check'.q = check.q
          /\ price' = price
          /\ \/ check.old <= Top(book')
             \/ Fault /\ Nothing
             \/ NoFault /\ Nothing /\ ~Placeable(l)
          /\ check'.at # "cover" /\ faults' = faults => ~Placeable(l) /\ Nothing
      BY <1>1, <3>1, <3>2, AttemptKnows
    <3>6. ASSUME check'.at = "cover", b # "cover" PROVE check.old <= Top(book')
      <4>1. PICK ok \in BOOLEAN :
              /\ Send(l, ok)
              /\ IF ok THEN ToStep("cover")
                 ELSE IF check.tries < 1 THEN check' = [check EXCEPT !.tries = @ + 1]
                 ELSE ToStep(b)
        BY <3>1 DEF Attempt
      <4>2. ok
        BY <1>0, <3>1, <3>6, <4>1 DEF ToStep, TrailOk, CheckFields
      <4> QED
        BY <1>0, <1>1, <3>2, <4>1, <4>2, StopAsked
    <3> QED
      BY <3>3, <3>4, <3>5, <3>6
  <2>2. CASE SafetySl
    <3>1. Attempt(OldStop, 1, "cover", "cover") /\ check.at = "safetySl"
      BY <2>2 DEF SafetySl, AtCheck, OldStop
    <3>2. HasSl(OldStop) /\ check.old <= OldStop.sl
      BY <1>1, OldStops
    <3> QED
      BY <1>1, <3>1, <3>2, AttemptKnows
  <2> QED
    BY <2>1, <2>2
<1>3. ASSUME mark.calm PROVE MoveCalm'
  <2>1. MoveCalm
    BY <1>1, <1>3 DEF MoveKnows
  <2>2. ASSUME check'.at # "cover", faults' = mark.faults PROVE ~Placeable(OldStop)'
    <3>1. faults' = faults /\ faults = mark.faults
      BY <1>0, <2>2
    <3>2. Nothing /\ ~Placeable(OldStop)
      BY <1>1, <1>2, <2>1, <2>2, <3>1 DEF MoveCalm
    <3> QED
      BY <1>2, <3>2 DEF Nothing, exchange, Placeable, OldStop
  <2> QED
    BY <1>0, <1>1, <1>2, <2>1, <2>2 DEF MoveCalm
<1>4. MoveKnows'
  BY <1>0, <1>1, <1>2, <1>3 DEF MoveKnows
<1>5. ASSUME check'.at = "cover", faults' = mark.faults \/ (mark.calm /\ faults' = mark.faults + 1)
      PROVE  check.old <= Top(book') \/ ~Placeable(OldStop)'
  <2>1. CASE Fault /\ Nothing
    <3>1. faults = mark.faults /\ mark.calm
      BY <1>0, <1>5, <2>1 DEF Fault
    <3>2. ~Placeable(OldStop)
      BY <1>1, <3>1 DEF MoveKnows, MoveCalm
    <3> QED
      BY <1>2, <2>1, <3>2 DEF Nothing, exchange, Placeable, OldStop
  <2>2. CASE Nothing /\ ~Placeable(OldStop)
    BY <1>2, <2>2 DEF Nothing, exchange, Placeable, OldStop
  <2> QED
    BY <1>2, <1>5, <2>1, <2>2
<1> QED
  BY <1>1, <1>2, <1>4, <1>5 DEF MoveInv, TrackOff, Aimed

LEMMA NotMoving ==
    ASSUME MoveInv, check'.at \notin Moving \cup {"move"}, ts' = ts \/ ts' = NoTrack
    PROVE  MoveInv'
<1>1. TrackOff'
  BY EntryAssumption, ExchangeAssumption
     DEF MoveInv, TrackOff, NoTrack, EntryAssumption, ExchangeAssumption
<1> QED
  BY <1>1 DEF MoveInv, Aimed

LEMMA AttemptGoes ==
    ASSUME TrailOk, NEW l, NEW n, NEW a, NEW b, Attempt(l, n, a, b)
    PROVE  check'.at \in {a, b, check.at}
BY DEF Attempt, ToStep, TrailOk, CheckFields

\* The other calls of the check have no part in the move.
LEMMA OthersAim ==
    ASSUME TrailOk, MoveInv, NEW found,
           \/ Snapshot \/ SeeFills(found) \/ LiftCancel \/ LiftSize \/ LiftPlace \/ Close
           \/ SellSnapshot \/ Create \/ FindBare \/ PassOver \/ MakeRoom \/ CoverSize
           \/ CoverPlace \/ CleanUp
    PROVE  MoveInv' /\ check.at \notin Moving
<1>0. DOMAIN check = CheckFields
  BY DEF TrailOk
<1>1. CASE Snapshot
  BY <1>1, NotMoving DEF Snapshot, AtCheck, NoCheck, Moving
<1>2. CASE SeeFills(found)
  <2>1. ToStep("trail") \/ \E p : check' = [check EXCEPT !.at = "lift", !.px = p]
    BY <1>2 DEF SeeFills
  <2> QED
    BY <1>0, <1>2, <2>1, NotMoving DEF SeeFills, AtCheck, ToStep, Moving, CheckFields
<1>3. CASE LiftCancel \/ Close \/ SellSnapshot \/ PassOver
  BY <1>0, <1>3, NotMoving
     DEF LiftCancel, Close, SellSnapshot, PassOver, AtCheck, ToStep, Moving, CheckFields
<1>4. CASE LiftSize
  <2>1. ToStep("trail") \/ \E q : check' = [check EXCEPT !.at = "liftPlace", !.q = q]
    BY <1>4 DEF LiftSize
  <2> QED
    BY <1>0, <1>4, <2>1, NotMoving DEF LiftSize, AtCheck, ToStep, Moving, CheckFields
<1>5. CASE LiftPlace \/ Create \/ CoverPlace
  <2>1. check'.at \in {"trail", "cover", "end", check.at}
    BY <1>5, AttemptGoes DEF LiftPlace, Create, CoverPlace
  <2> QED
    BY <1>5, <2>1, NotMoving DEF LiftPlace, Create, CoverPlace, AtCheck, Moving
<1>6. CASE FindBare
  <2>1. \/ check' = [check EXCEPT !.at = "end"]
        \/ \E q, t : check' = [check EXCEPT !.at = "makeRoom", !.q = q, !.todo = t]
        \/ \E q : check' = [check EXCEPT !.at = "coverSize", !.q = q]
    BY <1>6 DEF FindBare
  <2>2. check'.at \in {"end", "makeRoom", "coverSize"}
    BY <1>0, <2>1 DEF CheckFields
  <2> QED
    BY <1>6, <2>2, NotMoving DEF FindBare, AtCheck, Moving
<1>7. CASE MakeRoom
  <2>1. ToStep("coverSize") \/ \E q : check' = [check EXCEPT !.at = "coverSize", !.free = q]
    BY <1>7 DEF MakeRoom
  <2> QED
    BY <1>0, <1>7, <2>1, NotMoving DEF MakeRoom, AtCheck, ToStep, Moving, CheckFields
<1>8. CASE CoverSize
  <2>1. \/ check' = [check EXCEPT !.at = "end"]
        \/ \E q, p : check' = [check EXCEPT !.at = "coverPlace", !.q = q, !.px = p]
    BY <1>8 DEF CoverSize
  <2> QED
    BY <1>0, <1>8, <2>1, NotMoving DEF CoverSize, AtCheck, Moving, CheckFields
<1>9. CASE CleanUp
  BY <1>9, NotMoving DEF CleanUp, AtCheck, NoCheck, Moving
<1> QED
  BY <1>1, <1>2, <1>3, <1>4, <1>5, <1>6, <1>7, <1>8, <1>9

\* A forceexit that has begun is never again as if there had been none.
LEMMA PanelBegun ==
    ASSUME Fields, Panel
    PROVE  exit'["panel"] # Resting
<1>1. ASSUME NEW how, how # "none", End("panel", how)
      PROVE  exit'["panel"] # Resting
  <2>1. exit'["panel"].end = how
    BY <1>1 DEF End, Fields, Procs, Resting
  <2> QED
    BY <1>1, <2>1 DEF Resting
<1>2. ASSUME exit'["panel"].at # "rest"
      PROVE  exit'["panel"] # Resting
  BY <1>2 DEF Resting
<1>3. ASSUME NEW a, a # "rest", Go("panel", a)
      PROVE  exit'["panel"] # Resting
  BY <1>2, <1>3 DEF Go, Fields, ExitFields, Procs
<1>4. CASE Choose("panel")
  <2>1. PICK kind \in ExitKinds, pct \in {50, 100} :
          exit' = [exit EXCEPT !["panel"] = [Resting EXCEPT
                        !.at = IF kind = "tp_partial" THEN "sync" ELSE "list",
                        !.kind = kind, !.pct = pct, !.want = row.qty, !.px = price]]
    BY <1>4 DEF Choose
  <2>2. exit'["panel"].at \in {"sync", "list"}
    BY <2>1 DEF Fields, Procs, Resting
  <2> QED
    BY <1>2, <2>2
<1>5. CASE SyncTranche("panel")
  BY <1>1, <1>3, <1>5 DEF SyncTranche
<1>6. CASE ListLegs("panel")
  <2>1. exit'["panel"].at = "cancel"
    BY <1>6 DEF ListLegs, Fields, ExitFields, Procs
  <2> QED
    BY <1>2, <2>1
<1>7. CASE CancelLeg("panel")
  <2>1. PICK i \in exit["panel"].todo, ok \in BOOLEAN :
          IF ok THEN exit' = [exit EXCEPT !["panel"].todo = @ \ {i}] ELSE End("panel", "kept")
    BY <1>7 DEF CancelLeg
  <2>2. CASE ok
    <3>1. exit'["panel"].at = exit["panel"].at /\ exit["panel"].at = "cancel"
      BY <1>7, <2>1, <2>2 DEF CancelLeg, At, Fields, ExitFields, Procs
    <3> QED
      BY <1>2, <3>1
  <2> QED
    BY <1>1, <2>1, <2>2
<1>8. CASE SizeSale("panel")
  <2>1. End("panel", "untradable") \/ \E q : exit' = [exit EXCEPT !["panel"].at = "sell", !["panel"].q = q]
    BY <1>8 DEF SizeSale
  <2>2. CASE \E q : exit' = [exit EXCEPT !["panel"].at = "sell", !["panel"].q = q]
    <3>1. exit'["panel"].at = "sell"
      BY <2>2 DEF Fields, ExitFields, Procs
    <3> QED
      BY <1>2, <3>1
  <2> QED
    BY <1>1, <2>1, <2>2
<1>9. CASE Sell("panel")
  <2>1. Go("panel", "rescue") \/ Go("panel", "relist") \/ Go("panel", "book")
    BY <1>9 DEF Sell
  <2> QED
    BY <1>3, <2>1
<1>10. CASE Rescue("panel") \/ Relist("panel") \/ Finish("panel")
  <2>1. End("panel", "failed") \/ Go("panel", "book") \/ End("panel", "sold")
    BY <1>10 DEF Rescue, Relist, Finish
  <2> QED
    BY <1>1, <1>3, <2>1
<1> QED
  BY <1>4, <1>5, <1>6, <1>7, <1>8, <1>9, <1>10 DEF Panel, ExecuteExit

\* What a turn of the check may do to the stops
LEMMA CheckMoves ==
    ASSUME Steady, CheckStep(filled)
    PROVE  MoveInv'
<1>1. TrailOk /\ MoveInv
  BY DEF Steady, TypesInv
<1> QED
  BY <1>1, TrailKnows, FindKnows, CancelMoves, RecheckKnows, MovePlaceKnows, SafetyKnows,
     OthersAim DEF CheckStep

LEMMA MoveStep ==
    ASSUME TypesInv, TypesInv', Fields, TurnInv, MoveInv, [Next]_vars
    PROVE  MoveInv'
<1>1. CASE Trailing
  <2>1. CASE Snapshot
    BY <2>1, OthersAim DEF TypesInv
  <2>2. CASE CheckStep(filled) /\ Alone
    <3>1. Steady
      BY <1>1, <2>2, CheckPaced DEF Steady, Trailing, exits
    <3> QED
      BY <2>2, <3>1, CheckMoves
  <2> QED
    BY <1>1, <2>1, <2>2 DEF Trailing
<1>2. CASE StartScan \/ Buy \/ Entering \/ Reconcile \/ ExitStep \/ Cool
  <2>1. check' = check /\ ts' = ts /\ phase # "trail"
    BY <1>2 DEF StartScan, Buy, Entering, Reconcile, ExitStep, Cool, trailing
  <2>2. check'.at \notin Moving \cup {"move"}
    BY <2>1 DEF TurnInv, Moving
  <2> QED
    BY <2>1, <2>2, NotMoving
<1>3. CASE Killed
  BY <1>3, NotMoving DEF Killed, NoCheck, Moving
<1>4. CASE Panel \/ Market
  <2>1. check' = check /\ ts' = ts
    BY <1>4 DEF Panel, Market, trailing
  <2>2. ~mark'.calm
    <3>1. Disturb \/ \E x : mark' = [mark EXCEPT !.calm = FALSE, !.tranche = x]
      BY <1>4 DEF Panel, Market
    <3> QED
      BY <3>1 DEF Disturb, Fields, MarkFields
  <2>3. exit'["panel"] = Resting => exit["panel"] = Resting /\ SlLegs(book') \subseteq SlLegs(book)
    <3>1. CASE Panel
      BY <3>1, PanelBegun
    <3>2. CASE Market
      <4>1. exit' = exit
        BY <3>2 DEF Market, exits
      <4>2. \A j \in DOMAIN book' : j \in DOMAIN book /\ book'[j] = book[j]
        BY <3>2, FillEffect, MoveEffect DEF Market, Left, TypesInv
      <4> QED
        BY <4>1, <4>2 DEF SlLegs
    <3> QED
      BY <1>4, <3>1, <3>2
  <2>4. MoveKnows => MoveKnows'
    BY <2>1, <2>2, <2>3 DEF MoveKnows
  <2> QED
    BY <2>1, <2>2, <2>4 DEF MoveInv, TrackOff, Aimed
<1>5. CASE UNCHANGED vars
  <2>1. UNCHANGED <<check, ts, exit, mark, price, free, book, faults>>
    BY <1>5 DEF vars, market, exchange, calls, exits, trailing
  <2> QED
    BY <2>1 DEF MoveInv, TrackOff, Aimed, MoveKnows, MoveCalm, Placeable, OldStop
<1> QED
  BY <1>1, <1>2, <1>3, <1>4, <1>5 DEF Next

LEMMA MoveAlways == Spec => []MoveInv
<1>1. TurnsInv /\ TurnsInv' /\ MoveInv /\ [Next]_vars => MoveInv'
  BY MoveStep DEF TurnsInv
<1> QED
  BY <1>1, TurnsAlways, MoveInit, PTL DEF Spec

\* Moving a stop never costs the protection: the trailing check cancels the stops
\* it replaces, and whatever the market or one failing call does to it, when it
\* has done a stop as high as the old ones stands, or the exchange would not
\* take one, or the move was given up with one of the old ones in place.
THEOREM StopMoved == Spec => MoveKeepsStop
<1> DEFINE Given == /\ check.at \in {"moveCancel", "recheck", "movePlace", "safety", "safetySl"}
                    /\ check'.at = "cover"
                    /\ \/ faults' = mark.faults
                       \/ mark.calm /\ faults' = mark.faults + 1
                    /\ exit["panel"] = Resting
           Kept == \/ Top(book)' >= check.old
                   \/ check.todo \cap SlLegs(book)' # {}
                   \/ ~Placeable(StopLoss(FloorStep(check.q), check.old))'
<1>1. TurnsInv /\ TurnsInv' /\ MoveInv /\ [Next]_vars => [Given => Kept]_vars
  <2> SUFFICES ASSUME TurnsInv, TurnsInv', MoveInv, Next, Given PROVE Kept
    OBVIOUS
  <2>1. MoveKnows /\ check.at \in Moving /\ check'.at = "cover"
    BY DEF MoveInv, Moving
  <2>2. CheckStep(filled) /\ Alone /\ exit' = exit
    <3>1. phase = "trail"
      BY <2>1 DEF TurnsInv, TurnInv, Moving
    <3>2. check' # check
      BY <2>1 DEF Moving
    <3>3. Trailing
      <4>1. ~(StartScan \/ Buy \/ Entering \/ Reconcile \/ ExitStep \/ Cool \/ Panel \/ Market)
        BY <3>2 DEF StartScan, Buy, Entering, Reconcile, ExitStep, Cool, Panel, Market, trailing
      <4>2. ~Killed
        BY <2>1 DEF Killed, NoCheck
      <4> QED
        BY <4>1, <4>2 DEF Next
    <3>4. ~Snapshot
      BY <2>1 DEF Snapshot, AtCheck, Moving
    <3> QED
      BY <3>3, <3>4 DEF Trailing, exits
  <2>3. Steady
    BY <2>2, CheckPaced DEF Steady, TurnsInv
  <2>4. CASE Recheck
    <3>1. PICK legs \in {book, NoOrders} :
            Listed(legs) /\ ToStep(IF SlLegs(legs) # {} THEN "cover" ELSE "movePlace")
      BY <2>4 DEF Recheck
    <3>2. SlLegs(legs) # {}
      BY <2>1, <3>1 DEF ToStep, TurnsInv, TypesInv, TrailOk, CheckFields
    <3>3. legs = book
      BY <3>2 DEF SlLegs, NoOrders
    <3>4. SlLegs(book) \subseteq check.todo /\ book' = book
      BY <2>1, <2>4 DEF MoveKnows, Recheck, AtCheck, exchange
    <3> QED
      BY <3>2, <3>3, <3>4
  <2>5. CASE MovePlace \/ Safety \/ SafetySl
    <3>1. MovePlace => check.old <= Top(book')
      BY <2>1, <2>3, MovePlaceKnows
    <3>2. ASSUME Safety \/ SafetySl
          PROVE  check.old <= Top(book') \/ ~Placeable(OldStop)'
      <4>1. check'.at = "cover" /\ (faults' = mark.faults \/ (mark.calm /\ faults' = mark.faults + 1))
              => check.old <= Top(book') \/ ~Placeable(OldStop)'
        BY <2>3, <3>2, SafetyKnows
      <4>2. faults' = mark.faults \/ (mark.calm /\ faults' = mark.faults + 1)
        OBVIOUS
      <4> QED
        BY <2>1, <4>1, <4>2
    <3> QED
      BY <2>5, <3>1, <3>2 DEF OldStop
  <2>6. ~MoveCancel
    BY <2>1 DEF MoveCancel, ToStep, TurnsInv, TypesInv, TrailOk, CheckFields, AtCheck
  <2>7. ~(Trail \/ FindStops)
    BY <2>1 DEF Trail, FindStops, AtCheck, Moving
  <2>8. \/ Recheck \/ MovePlace \/ Safety \/ SafetySl
    BY <2>1, <2>2, <2>3, <2>6, <2>7, OthersAim DEF CheckStep, Steady, TypesInv
  <2> QED
    BY <2>4, <2>5, <2>8
<1> QED
  BY <1>1, TurnsAlways, MoveAlways, PTL DEF Spec, MoveKeepsStop
=============================================================================
