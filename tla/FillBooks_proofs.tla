-------------------------- MODULE FillBooks_proofs --------------------------
(***************************************************************************)
(* How sales are booked, for all legs, any number of purchases and any      *)
(* number of troubles: no losing sale gets into the ledger without its      *)
(* cooldown (LossesNoted), no sale is booked twice or at another quantity   *)
(* (SalesBookedOnce), none beyond the gap it is to close                    *)
(* (BookingStopsAtTheGap, both in NothingOverbooked), the event log's       *)
(* position follows the ledger (ShadowPositionFollows), and two             *)
(* undisturbed rounds book everything (TwoRoundsBook).                      *)
(*                                                                          *)
(* Six inductive invariants, each resting on those before it: BooksInv     *)
(* (shapes; the account is what the legs have left to sell), ExactInv (a    *)
(* row has what its order sold, a process what it knows of an order),       *)
(* Balance (what was bought is held or sold), GapInv (the gap in hand is    *)
(* not above the ledger's), LogInv (the log is behind by the order in       *)
(* hand) and RoundInv (where an undisturbed round stands).                  *)
(***************************************************************************)
EXTENDS FillBooks, SumTheorems

\* Where a process has an order in hand.
Busy == {"add", "note", "event", "append", "close", "drop"}

BotFields == {"at", "work", "ex", "gap", "cap", "pre", "pass", "todo", "fills", "order",
              "key", "qty", "main"}

\* What a process knows when n orders have fills: fills of orders that exist,
\* orders it has fills of, and an order in hand when it works on one.
BotOk(b, n) ==
    /\ DOMAIN b = BotFields
    /\ b.work \in Work /\ b.key \in Keys
    /\ b.ex \in Nat /\ b.qty \in Nat
    /\ b.fills \in Seq(Fill) /\ Len(b.fills) <= n /\ b.todo \subseteq 1 .. Len(b.fills)
    /\ b.order \in 0 .. n
    /\ b.at \in Busy => b.order # 0

BotsOk == DOMAIN bot = Procs /\ \A p \in Procs : BotOk(bot[p], Len(sold))

SeenFields == {"calm", "torn", "panel", "overlap", "died"}

\* What is held is what the resting legs still have to sell.
Left == [l \in DOMAIN Legs |-> legs[l].left]
Account == held = SumFunctionOnSet(Left, DOMAIN Legs)

Quantities ==
    /\ held \in Nat /\ row \in Nat /\ bought \in Nat /\ shadow \in Nat
    /\ sold \in Seq(Fill)
    /\ legs \in [DOMAIN Legs -> [left : Nat, order : 0 .. Len(sold)]]
    /\ Account
Records ==
    /\ \A s \in sells : s \in Sale /\ s.order <= Len(sold)
    /\ cool \subseteq 1 .. Len(sold)
    /\ events \subseteq (1 .. Len(sold)) \X Keys
    /\ DOMAIN seen = SeenFields

\* TypeOK, with what its steps need: the account and what each process knows.
BooksInv == Quantities /\ Records /\ BotsOk

-----------------------------------------------------------------------------

LEMMA SizeNat ==
    /\ IsFiniteSet(DOMAIN Legs)
    /\ Size \in Nat
    /\ Size = SumFunctionOnSet(Legs, DOMAIN Legs)
  <1>1. Legs \in Seq(Nat) /\ DOMAIN Legs = 1 .. Len(Legs) /\ Len(Legs) \in Nat
    BY BooksAssumption
  <1>2. IsFiniteSet(DOMAIN Legs)  BY <1>1, FS_Interval
  <1>3. \A l \in DOMAIN Legs : Legs[l] \in Nat  BY <1>1
  <1>4. SumFunctionOnSet(Legs, DOMAIN Legs) \in Nat  BY <1>2, <1>3, SumNat
  <1> QED BY <1>2, <1>4 DEF Size, SumFunction

\* A set of numbers that is not empty has its minimum.
LEMMA MinIn ==
    ASSUME NEW S \in SUBSET Nat, S # {}
    PROVE  Min(S) \in S /\ \A x \in S : Min(S) <= x
  <1>1. \E n \in S : \A m \in S : n <= m  BY LeastNat
  <1> QED BY <1>1 DEF Min

LEMMA MaxNat ==
    ASSUME NEW q \in Int
    PROVE  Max({0, q}) \in Nat
  <1>1. \E x \in {0, q} : \A y \in {0, q} : x >= y
    <2>1. CASE q >= 0  BY <2>1
    <2>2. CASE q < 0  BY <2>2
    <2> QED BY <2>1, <2>2
  <1>2. Max({0, q}) \in {0, q} /\ \A y \in {0, q} : Max({0, q}) >= y  BY <1>1 DEF Max
  <1> QED BY <1>2

LEMMA FillChanged ==
    ASSUME NEW f \in Fill, NEW a \in Nat, NEW b \in Nat
    PROVE  [f EXCEPT !.old = a, !.new = b] \in Fill
BY DEF Fill

LEMMA NewChanged ==
    ASSUME NEW f \in Fill, NEW a \in Nat
    PROVE  [f EXCEPT !.new = a] \in Fill
BY DEF Fill

LEMMA RestOk ==
    ASSUME NEW n \in Nat
    PROVE  BotOk(Rest, n)
  <1>1. DOMAIN Rest = BotFields  BY DEF Rest, BotFields
  <1>2. Rest.work \in Work /\ Rest.key \in Keys  BY DEF Rest, Work, Keys
  <1>3. Rest.fills = <<>> /\ Rest.todo = {}  BY DEF Rest
  <1>4. Rest.ex = 0 /\ Rest.qty = 0 /\ Rest.order = 0 /\ Rest.at = "rest"
    BY DEF Rest
  <1>5. <<>> \in Seq(Fill) /\ Len(<<>>) = 0  OBVIOUS
  <1> QED BY <1>1, <1>2, <1>3, <1>4, <1>5 DEF BotOk, Busy

\* One process moves on, the exchange may have more orders than before.
LEMMA BotsMove ==
    ASSUME NEW me \in Procs, NEW b, BotsOk, sold \in Seq(Fill), sold' \in Seq(Fill),
           Len(sold') >= Len(sold), BotOk(b, Len(sold')), bot' = [bot EXCEPT ![me] = b]
    PROVE  BotsOk'
  <1>1. \A p \in Procs \ {me} : bot'[p] = bot[p]  BY DEF BotsOk
  <1>2. bot'[me] = b /\ DOMAIN bot' = Procs  BY DEF BotsOk
  <1>3. ASSUME NEW p \in Procs  PROVE BotOk(bot[p], Len(sold'))
    <2>1. BotOk(bot[p], Len(sold))  BY DEF BotsOk
    <2>2. Len(sold) \in Nat /\ Len(sold') \in Nat  OBVIOUS
    <2>3. Len(bot[p].fills) \in Nat  BY <2>1 DEF BotOk
    <2> QED BY <2>1, <2>2, <2>3 DEF BotOk
  <1> QED BY <1>1, <1>2, <1>3 DEF BotsOk

LEMMA BotsStep ==
    ASSUME NEW me \in Procs, NEW b, BotsOk, sold \in Seq(Fill), sold' = sold,
           BotOk(b, Len(sold)), bot' = [bot EXCEPT ![me] = b]
    PROVE  BotsOk'
  <1>1. sold' \in Seq(Fill) /\ Len(sold') = Len(sold) /\ Len(sold) \in Nat  OBVIOUS
  <1>2. Len(sold') >= Len(sold)  BY <1>1
  <1>3. BotOk(b, Len(sold'))  BY <1>1
  <1> QED BY <1>1, <1>2, <1>3, BotsMove

\* A change of place with the order in hand.
LEMMA GoOk ==
    ASSUME NEW me \in Procs, NEW a, BotsOk, sold \in Seq(Fill), sold' = sold,
           a \in Busy => bot[me].order # 0, Go(me, a)
    PROVE  BotsOk'
  <1> DEFINE b == [bot[me] EXCEPT !.at = a]
  <1>1. bot' = [bot EXCEPT ![me] = b]  BY DEF Go
  <1>2. BotOk(b, Len(sold))
    BY DEF BotsOk, BotOk, BotFields
  <1> HIDE DEF b
  <1> QED BY <1>1, <1>2, BotsStep

LEMMA Next1Ok ==
    ASSUME NEW b, NEW n \in Nat, BotOk(b, n), NEW counted \in BOOLEAN
    PROVE  BotOk(Next1(b, counted), n)
  <1>1. CASE b.work = "close"
    <2>1. Next1(b, counted) = [Rest EXCEPT !.at = "ready"]  BY <1>1 DEF Next1
    <2>2. BotOk([Rest EXCEPT !.at = "ready"], n)  BY RestOk DEF BotOk, BotFields, Busy
    <2> QED BY <2>1, <2>2
  <1>2. CASE b.work # "close"
    <2> DEFINE d == [b EXCEPT !.todo = @ \ {b.order}, !.order = 0, !.qty = 0]
    <2>1. BotOk([d EXCEPT !.at = "fix"], n) /\ BotOk([d EXCEPT !.at = "order"], n)
      BY DEF BotOk, BotFields, Busy
    <2>2. ASSUME NEW c, NEW g  PROVE BotOk([d EXCEPT !.at = "leg", !.gap = g, !.cap = c], n)
      BY DEF BotOk, BotFields, Busy
    <2> HIDE DEF d
    <2>3. CASE b.work = "drift"
      <3>1. Next1(b, counted) = [d EXCEPT !.at = "leg", !.gap = @ - b.qty,
                                          !.cap = IF counted THEN @ - b.qty ELSE @]
        BY <1>2, <2>3 DEF Next1, d
      <3>2. DOMAIN d = BotFields  BY DEF d, BotOk
      <3>3. Next1(b, counted) = [d EXCEPT !.at = "leg", !.gap = d.gap - b.qty,
                                          !.cap = IF counted THEN d.cap - b.qty ELSE d.cap]
        BY <3>1, <3>2 DEF BotFields
      <3>4. PICK g, c : g = d.gap - b.qty /\ c = (IF counted THEN d.cap - b.qty ELSE d.cap)
        OBVIOUS
      <3>5. Next1(b, counted) = [d EXCEPT !.at = "leg", !.gap = g, !.cap = c]  BY <3>3, <3>4
      <3> QED BY <3>5, <2>2
    <2>4. CASE b.work # "drift"
      <3>1. Next1(b, counted) \in {[d EXCEPT !.at = "fix"], [d EXCEPT !.at = "order"]}
        BY <1>2, <2>4 DEF Next1, d
      <3> QED BY <3>1, <2>1
    <2> QED BY <2>3, <2>4
  <1> QED BY <1>1, <1>2

-----------------------------------------------------------------------------
(* Steps inside one process                                                 *)

\* Nothing but the processes, the ledger's own tables and the history moves.
LEMMA QuantitiesStay ==
    ASSUME Quantities, UNCHANGED <<held, legs, sold, bought, row, shadow>>
    PROVE  Quantities'
  <1>1. Left' = Left  BY DEF Left
  <1>2. Account'  BY <1>1 DEF Quantities, Account
  <1> QED BY <1>2 DEF Quantities

LEMMA RecordsStay ==
    ASSUME Records, UNCHANGED <<sold, sells, cool, events>>, DOMAIN seen' = SeenFields
    PROVE  Records'
BY DEF Records

LEMMA CheckEventKeeps ==
    ASSUME NEW me \in Procs, BooksInv, CheckEvent(me)
    PROVE  BooksInv'
  <1> USE DEF BooksInv
  <1>1. Quantities'  BY QuantitiesStay DEF CheckEvent, exchange, ledger, log
  <1>2. Records'
    BY RecordsStay DEF CheckEvent, exchange, ledger, log, Calm, Records
  <1>3. BotsOk'
    <2>1. BotOk(bot[me], Len(sold)) /\ bot[me].order # 0
      BY DEF CheckEvent, At, BotsOk, BotOk, Busy
    <2>2. Len(sold) \in Nat /\ sold' = sold /\ sold \in Seq(Fill)
      BY DEF Quantities, CheckEvent, exchange
    <2>3. PICK b : b = bot'[me]  OBVIOUS
    <2>4. BotOk(b, Len(sold))
      <3>1. CASE b = Next1(bot[me], bot[me].work # "backfill")  BY <3>1, <2>1, <2>2, Next1Ok
      <3>2. CASE b = [bot[me] EXCEPT !.at = "append"]  BY <3>2, <2>1 DEF BotOk, BotFields
      <3> QED BY <3>1, <3>2, <2>3 DEF CheckEvent, BotsOk
    <2>5. bot' = [bot EXCEPT ![me] = b]  BY <2>3 DEF CheckEvent, BotsOk
    <2> QED BY <2>2, <2>4, <2>5, BotsStep
  <1> QED BY <1>1, <1>2, <1>3

LEMMA AppendEventKeeps ==
    ASSUME NEW me \in Procs, BooksInv, AppendEvent(me)
    PROVE  BooksInv'
  <1> USE DEF BooksInv
  <1>0. /\ BotOk(bot[me], Len(sold)) /\ bot[me].order # 0
        /\ Len(sold) \in Nat /\ sold' = sold /\ sold \in Seq(Fill) /\ BotsOk
    BY DEF AppendEvent, At, BotsOk, BotOk, Busy, Quantities, exchange
  <1>1. Quantities'
    <2>1. shadow' = Max({0, shadow - bot[me].qty})  BY DEF AppendEvent
    <2>2. shadow - bot[me].qty \in Int  BY <1>0 DEF Quantities, BotOk
    <2>3. shadow' \in Nat  BY <2>1, <2>2, MaxNat
    <2>4. UNCHANGED <<held, legs, sold, bought, row>>  BY DEF AppendEvent, exchange, ledger
    <2>5. Left' = Left  BY <2>4 DEF Left
    <2>6. Account'  BY <2>4, <2>5 DEF Quantities, Account
    <2> QED BY <2>3, <2>4, <2>6 DEF Quantities
  <1>2. Records'
    <2>1. <<bot[me].order, bot[me].key>> \in (1 .. Len(sold)) \X Keys  BY <1>0 DEF BotOk
    <2> QED BY <2>1 DEF AppendEvent, exchange, ledger, Calm, Records
  <1>3. BotsOk'
    <2>1. BotOk(Next1(bot[me], TRUE), Len(sold))  BY <1>0, Next1Ok
    <2>2. bot' = [bot EXCEPT ![me] = Next1(bot[me], TRUE)]  BY DEF AppendEvent
    <2> QED BY <1>0, <2>1, <2>2, BotsStep
  <1> QED BY <1>1, <1>2, <1>3

LEMMA AddTradeKeeps ==
    ASSUME NEW me \in Procs, BooksInv, AddTrade(me)
    PROVE  BooksInv'
  <1> USE DEF BooksInv
  <1>0. /\ BotOk(bot[me], Len(sold)) /\ bot[me].order # 0
        /\ Len(sold) \in Nat /\ sold' = sold /\ sold \in Seq(Fill) /\ BotsOk
    BY DEF AddTrade, At, BotsOk, BotOk, Busy, Quantities, exchange
  <1>1. Quantities'  BY QuantitiesStay DEF AddTrade, exchange, log
  <1>2. Records'
    <2> DEFINE s == [order |-> bot[me].order, key |-> "order", qty |-> bot[me].qty]
    <2>1. s \in Sale /\ s.order <= Len(sold)  BY <1>0 DEF BotOk, Sale, Keys
    <2>2. sells' \subseteq sells \cup {s}  BY DEF AddTrade
    <2> HIDE DEF s
    <2> QED BY <2>1, <2>2 DEF AddTrade, exchange, log, Calm, Records
  <1>3. BotsOk'
    <2>1. CASE Go(me, "note")
      BY <2>1, <1>0, GoOk
    <2>2. CASE bot' = [bot EXCEPT ![me] = Next1(bot[me], FALSE)]
      <3>1. BotOk(Next1(bot[me], FALSE), Len(sold))  BY <1>0, Next1Ok
      <3> QED BY <1>0, <2>2, <3>1, BotsStep
    <2> QED BY <2>1, <2>2 DEF AddTrade
  <1> QED BY <1>1, <1>2, <1>3

LEMMA NoteLossKeeps ==
    ASSUME NEW me \in Procs, BooksInv, NoteLoss(me)
    PROVE  BooksInv'
  <1> USE DEF BooksInv
  <1>0. /\ BotOk(bot[me], Len(sold)) /\ bot[me].order # 0
        /\ Len(sold) \in Nat /\ sold' = sold /\ sold \in Seq(Fill) /\ BotsOk
    BY DEF NoteLoss, At, BotsOk, BotOk, Busy, Quantities, exchange
  <1>1. Quantities'  BY QuantitiesStay DEF NoteLoss, exchange, ledger, log
  <1>2. Records'
    <2>1. bot[me].order \in 1 .. Len(sold)  BY <1>0 DEF BotOk
    <2> QED BY <2>1 DEF NoteLoss, exchange, ledger, log, Calm, Records
  <1>3. BotsOk'
    <2>1. CASE Go(me, "drop")  BY <2>1, <1>0, GoOk
    <2>2. CASE Go(me, "event")  BY <2>2, <1>0, GoOk
    <2> QED BY <2>1, <2>2 DEF NoteLoss
  <1> QED BY <1>1, <1>2, <1>3

LEMMA CompareKeeps ==
    ASSUME NEW me \in Procs, BooksInv, Compare(me)
    PROVE  BooksInv'
  <1> USE DEF BooksInv
  <1>0. /\ Len(sold) \in Nat /\ sold' = sold /\ sold \in Seq(Fill) /\ BotsOk
        /\ UNCHANGED <<held, legs, sold, bought, sells, row, events, shadow, cool>>
    BY DEF Compare, Quantities, exchange, ledger, log
  <1>1. Quantities'  BY <1>0, QuantitiesStay
  <1>2. Records'  BY <1>0, RecordsStay DEF Compare, Records, SeenFields
  <1>3. BotsOk'
    <2>1. ASSUME NEW a \in {"fetch", "trim"}, NEW g, NEW x \in Nat, NEW m, NEW e
          PROVE  BotOk([Rest EXCEPT !.at = a, !.ex = x, !.gap = g, !.cap = g, !.main = m, !.pre = e],
                       Len(sold))
      BY <1>0, RestOk DEF BotOk, BotFields, Busy
    <2>2. held \in Nat  BY DEF Quantities
    <2> DEFINE gap == Net - held
               main == row > 0 /\ Significant(gap, held)
               pathB == row = 0 /\ snap /\ held = 0 /\ Net > 0
               pathC == ~main /\ ~pathB /\ Net > 0 /\ Significant(gap, held)
               a == IF main \/ pathB \/ pathC THEN "fetch" ELSE "trim"
               b == [Rest EXCEPT !.at = a, !.ex = held, !.gap = gap, !.cap = gap,
                                 !.main = main, !.pre = main \/ pathC]
    <2>3. bot' = [bot EXCEPT ![me] = b]  BY DEF Compare
    <2>4. a \in {"fetch", "trim"}  OBVIOUS
    <2>5. BotOk(b, Len(sold))
      <3> HIDE DEF a, main, pathC, gap
      <3> QED BY <2>1, <2>2, <2>4
    <2> HIDE DEF b
    <2> QED BY <1>0, <2>3, <2>5, BotsStep
  <1> QED BY <1>1, <1>2, <1>3

\* Orders the ledger has count nothing; the others are read as they are.
LEMMA UnbookedOk ==
    ASSUME sold \in Seq(Fill)
    PROVE  Unbooked \in Seq(Fill) /\ Len(Unbooked) = Len(sold)
  <1>1. DOMAIN Unbooked = 1 .. Len(sold)  BY DEF Unbooked, Orders
  <1>2. \A o \in 1 .. Len(sold) : Unbooked[o] \in Fill
    <2> TAKE o \in 1 .. Len(sold)
    <2>1. sold[o] \in Fill  OBVIOUS
    <2>2. [sold[o] EXCEPT !.old = 0, !.new = 0] \in Fill  BY <2>1, FillChanged
    <2>3. o \in Orders  BY DEF Orders
    <2>4. Unbooked[o] = IF Booked(o) THEN [sold[o] EXCEPT !.old = 0, !.new = 0] ELSE sold[o]
      BY Zenon, <2>3 DEF Unbooked
    <2> QED BY Zenon, <2>1, <2>2, <2>4
  <1>3. Unbooked = [o \in 1 .. Len(sold) |-> Unbooked[o]]
    BY <1>1 DEF Unbooked, Orders
  <1> QED BY <1>1, <1>2, <1>3

LEMMA FetchKeeps ==
    ASSUME NEW me \in Procs, BooksInv, Fetch(me)
    PROVE  BooksInv'
  <1> USE DEF BooksInv
  <1>0. /\ BotOk(bot[me], Len(sold))
        /\ Len(sold) \in Nat /\ sold' = sold /\ sold \in Seq(Fill) /\ BotsOk
    BY DEF Fetch, BotsOk, Quantities, exchange
  <1>1. Quantities'  BY QuantitiesStay DEF Fetch, exchange, ledger, log
  <1>2. Records'  BY RecordsStay DEF Fetch, exchange, ledger, log, Calm, Records
  <1>3. BotsOk'
    <2> DEFINE b == [bot[me] EXCEPT !.at = "leg", !.fills = Unbooked, !.todo = Newer(Unbooked)]
    <2>1. bot' = [bot EXCEPT ![me] = b]  BY DEF Fetch, BotsOk
    <2>2. Unbooked \in Seq(Fill) /\ Len(Unbooked) = Len(sold)  BY <1>0, UnbookedOk
    <2>3. Newer(Unbooked) \subseteq 1 .. Len(Unbooked)  BY <2>2 DEF Newer
    <2>4. BotOk(b, Len(sold))
      <3> DEFINE u == Unbooked
                 t == Newer(Unbooked)
      <3>1. u \in Seq(Fill) /\ Len(u) = Len(sold) /\ t \subseteq 1 .. Len(u)  BY <2>2, <2>3
      <3>2. b = [bot[me] EXCEPT !.at = "leg", !.fills = u, !.todo = t]  OBVIOUS
      <3> HIDE DEF u, t, b
      <3> QED BY <1>0, <3>1, <3>2 DEF BotOk, BotFields, Busy
    <2> HIDE DEF b
    <2> QED BY <1>0, <2>1, <2>4, BotsStep
  <1> QED BY <1>1, <1>2, <1>3

LEMMA NextPassOk ==
    ASSUME NEW b, NEW n \in Nat, BotOk(b, n)
    PROVE  BotOk(NextPass(b), n)
  <1>1. Older(b.fills) \subseteq 1 .. Len(b.fills)  BY DEF Older, BotOk
  <1>2. BotOk([b EXCEPT !.pass = 2, !.gap = b.cap, !.todo = Older(b.fills)], n)
    BY <1>1 DEF BotOk, BotFields
  <1>3. BotOk([b EXCEPT !.at = "trim", !.todo = {}, !.fills = <<>>], n)
    <2>1. <<>> \in Seq(Fill) /\ Len(<<>>) = 0  OBVIOUS
    <2> QED BY <2>1 DEF BotOk, BotFields, Busy
  <1> QED BY <1>2, <1>3 DEF NextPass

LEMMA NextLegKeeps ==
    ASSUME NEW me \in Procs, BooksInv, NextLeg(me)
    PROVE  BooksInv'
  <1> USE DEF BooksInv
  <1>0. /\ BotOk(bot[me], Len(sold))
        /\ Len(sold) \in Nat /\ sold' = sold /\ sold \in Seq(Fill) /\ BotsOk
    BY DEF NextLeg, BotsOk, Quantities, exchange
  <1>1. Quantities'  BY QuantitiesStay DEF NextLeg, exchange, ledger, log
  <1>2. Records'  BY RecordsStay DEF NextLeg, exchange, ledger, log, Calm, Records
  <1>3. BotsOk'
    <2> DEFINE b == bot[me]
               todo == {o \in b.todo : ~Booked(o) /\ Fits(Qty(b, o), b.gap)}
               c == [b EXCEPT !.at = "add", !.order = Min(todo), !.qty = Qty(b, Min(todo)),
                              !.todo = todo]
    <2>1. bot' = [bot EXCEPT ![me] = IF todo = {} \/ b.gap <= 0 THEN NextPass(b) ELSE c]
      BY DEF NextLeg
    <2>2. BotOk(NextPass(b), Len(sold))  BY <1>0, NextPassOk
    <2>3. ASSUME todo # {}  PROVE BotOk(c, Len(sold))
      <3>1. todo \subseteq 1 .. Len(b.fills) /\ b.fills \in Seq(Fill) /\ Len(b.fills) <= Len(sold)
        BY <1>0 DEF BotOk
      <3>2. todo \in SUBSET Nat  BY <3>1
      <3> HIDE DEF todo
      <3>3. Min(todo) \in todo  BY <2>3, <3>2, MinIn
      <3> DEFINE o == Min(todo)
      <3>4. b.fills[o] \in Fill /\ o \in 1 .. Len(sold)
        <4>1. o \in 1 .. Len(b.fills)  BY <3>1, <3>3
        <4>2. Len(b.fills) \in Nat  BY <3>1
        <4> QED BY <4>1, <4>2, <3>1, <1>0
      <3>5. Qty(b, o) \in Nat  BY <3>4 DEF Qty, Fill
      <3>6. Qty(b, o) \in Nat /\ o \in 1 .. Len(sold) /\ todo \subseteq 1 .. Len(b.fills)
        BY <3>1, <3>4, <3>5
      <3> DEFINE q == Qty(b, o)
      <3>7. q \in Nat /\ o \in 1 .. Len(sold) /\ c = [b EXCEPT !.at = "add", !.order = o, !.qty = q, !.todo = todo]
        BY <3>6
      <3> HIDE DEF o, q, c
      <3> QED BY <3>7, <3>1, <1>0 DEF BotOk, BotFields, Busy
    <2> HIDE DEF todo, c
    <2>4. CASE todo = {} \/ b.gap <= 0
      <3>1. bot' = [bot EXCEPT ![me] = NextPass(b)]  BY <2>1, <2>4
      <3> QED BY <1>0, <2>2, <3>1, BotsStep
    <2>5. CASE ~(todo = {} \/ b.gap <= 0)
      <3>1. bot' = [bot EXCEPT ![me] = c]  BY <2>1, <2>5
      <3> QED BY <1>0, <2>3, <2>5, <3>1, BotsStep
    <2> QED BY <2>4, <2>5
  <1> QED BY <1>1, <1>2, <1>3

LEMMA RowMoves ==
    ASSUME Quantities, UNCHANGED <<held, legs, sold, bought, shadow>>, row' \in Nat
    PROVE  Quantities'
  <1>1. Left' = Left  BY DEF Left
  <1>2. Account'  BY <1>1 DEF Quantities, Account
  <1> QED BY <1>2 DEF Quantities

\* A process at rest, or on its way.
LEMMA RestAtOk ==
    ASSUME NEW n \in Nat, NEW a, a \notin Busy
    PROVE  BotOk([Rest EXCEPT !.at = a], n)
  <1>1. BotOk(Rest, n)  BY RestOk
  <1> QED BY <1>1 DEF BotOk, BotFields

LEMMA TrimmedNat ==
    ASSUME NEW r \in Nat, NEW x \in Nat
    PROVE  Trimmed(r, x) \in Nat
BY DEF Trimmed

LEMMA TrimKeeps ==
    ASSUME NEW me \in Procs, BooksInv, Trim(me)
    PROVE  BooksInv'
  <1> USE DEF BooksInv
  <1>0. /\ BotOk(bot[me], Len(sold))
        /\ Len(sold) \in Nat /\ sold' = sold /\ sold \in Seq(Fill) /\ BotsOk
    BY DEF Trim, BotsOk, Quantities, exchange
  <1>1. Quantities'
    <2>1. row \in Nat /\ bot[me].ex \in Nat  BY <1>0 DEF Quantities, BotOk
    <2>2. Trimmed(row, bot[me].ex) \in Nat  BY <2>1, TrimmedNat
    <2>3. row' \in Nat  BY <2>1, <2>2 DEF Trim
    <2> QED BY <2>3, RowMoves DEF Trim, exchange, ledger, log
  <1>2. Records'  BY RecordsStay DEF Trim, exchange, ledger, log, Calm, Records
  <1>3. BotsOk'
    <2> DEFINE b == [Rest EXCEPT !.at = "fills"]
    <2>1. BotOk(b, Len(sold))  BY <1>0, RestAtOk DEF Busy
    <2>2. bot' = [bot EXCEPT ![me] = b]  BY DEF Trim
    <2> HIDE DEF b
    <2> QED BY <1>0, <2>1, <2>2, BotsStep
  <1> QED BY <1>1, <1>2, <1>3

LEMMA FetchFillsKeeps ==
    ASSUME NEW me \in Procs, BooksInv, FetchFills(me)
    PROVE  BooksInv'
  <1> USE DEF BooksInv
  <1>0. /\ Len(sold) \in Nat /\ sold' = sold /\ sold \in Seq(Fill) /\ BotsOk /\ held \in Nat
    BY DEF FetchFills, BotsOk, Quantities, exchange
  <1>1. Quantities'  BY QuantitiesStay DEF FetchFills, exchange, ledger, log
  <1>2. Records'  BY RecordsStay DEF FetchFills, exchange, ledger, log, Calm, Records
  <1>3. BotsOk'
    <2> DEFINE t == {o \in Orders : <<o, "order">> \notin events}
               b == [Rest EXCEPT !.at = "order", !.work = "full", !.ex = held, !.fills = sold, !.todo = t]
    <2>1. t \subseteq 1 .. Len(sold)  BY <1>0 DEF Orders
    <2>2. bot' = [bot EXCEPT ![me] = b]  BY DEF FetchFills
    <2>3. BotOk(b, Len(sold))
      <3>1. "full" \in Work  BY DEF Work
      <3> HIDE DEF t
      <3> QED BY <1>0, <2>1, <3>1, RestOk DEF BotOk, BotFields, Busy
    <2> HIDE DEF b
    <2> QED BY <1>0, <2>2, <2>3, BotsStep
  <1> QED BY <1>1, <1>2, <1>3

LEMMA NextOrderKeeps ==
    ASSUME NEW me \in Procs, BooksInv, NextOrder(me)
    PROVE  BooksInv'
  <1> USE DEF BooksInv
  <1>0. /\ BotOk(bot[me], Len(sold))
        /\ Len(sold) \in Nat /\ sold' = sold /\ sold \in Seq(Fill) /\ BotsOk
    BY DEF NextOrder, BotsOk, Quantities, exchange
  <1>1. Quantities'  BY QuantitiesStay DEF NextOrder, exchange, ledger, log
  <1>2. Records'  BY RecordsStay DEF NextOrder, exchange, ledger, log, Calm, Records
  <1>3. BotsOk'
    <2> DEFINE b == bot[me]
               todo == {o \in b.todo : ~LeftAlone(b, o)}
               o == Min(todo)
               none == [b EXCEPT !.todo = {}]
               c == [b EXCEPT !.order = o, !.qty = b.fills[o].new, !.todo = {p \in b.todo : p >= o},
                              !.work = IF Booked(o) THEN "backfill" ELSE "full",
                              !.at = IF Booked(o) THEN "event" ELSE "add"]
    <2>1. bot' = [bot EXCEPT ![me] = IF todo = {} THEN none ELSE c]
      BY <1>0 DEF NextOrder, BotOk, BotFields
    <2>2. BotOk(none, Len(sold))  BY <1>0 DEF BotOk, BotFields
    <2>3. ASSUME todo # {}  PROVE BotOk(c, Len(sold))
      <3>1. todo \subseteq b.todo /\ b.todo \subseteq 1 .. Len(b.fills)
            /\ b.fills \in Seq(Fill) /\ Len(b.fills) <= Len(sold)
        BY <1>0 DEF BotOk
      <3>2. todo \in SUBSET Nat  BY <3>1
      <3>3. o \in todo
        <4> HIDE DEF todo
        <4> QED BY <2>3, <3>2, MinIn
      <3> HIDE DEF todo, o
      <3>4. b.fills[o] \in Fill /\ o \in 1 .. Len(sold)
        <4>1. o \in 1 .. Len(b.fills)  BY <3>1, <3>3
        <4>2. Len(b.fills) \in Nat  BY <3>1
        <4> QED BY <4>1, <4>2, <3>1, <1>0
      <3>5. PICK q : q = b.fills[o].new  OBVIOUS
      <3>6. PICK w : w = IF Booked(o) THEN "backfill" ELSE "full"  OBVIOUS
      <3>7. PICK a : a = IF Booked(o) THEN "event" ELSE "add"  OBVIOUS
      <3>8. PICK t : t = {p \in b.todo : p >= o}  OBVIOUS
      <3>9. q \in Nat  BY <3>4, <3>5 DEF Fill
      <3>10. w \in Work  BY <3>6 DEF Work
      <3>11. t \subseteq 1 .. Len(b.fills)  BY <3>1, <3>8
      <3>12. c = [b EXCEPT !.order = o, !.qty = q, !.todo = t, !.work = w, !.at = a]
        BY Zenon, <3>5, <3>6, <3>7, <3>8
      <3> HIDE DEF c
      <3> QED BY <3>1, <3>4, <3>9, <3>10, <3>11, <3>12, <1>0 DEF BotOk, BotFields
    <2> HIDE DEF todo, none, c
    <2>4. CASE todo = {}
      <3>1. bot' = [bot EXCEPT ![me] = none]  BY <2>1, <2>4
      <3> QED BY <1>0, <2>2, <3>1, BotsStep
    <2>5. CASE todo # {}
      <3>1. bot' = [bot EXCEPT ![me] = c]  BY <2>1, <2>5
      <3> QED BY <1>0, <2>3, <2>5, <3>1, BotsStep
    <2> QED BY <2>4, <2>5
  <1> QED BY <1>1, <1>2, <1>3

LEMMA FixRowKeeps ==
    ASSUME NEW me \in Procs, BooksInv, FixRow(me)
    PROVE  BooksInv'
  <1> USE DEF BooksInv
  <1>0. /\ BotOk(bot[me], Len(sold)) /\ "order" \notin Busy
        /\ Len(sold) \in Nat /\ sold' = sold /\ sold \in Seq(Fill) /\ BotsOk
    BY DEF FixRow, BotsOk, Quantities, exchange, Busy
  <1>1. Quantities'
    <2>1. row \in Nat /\ bot[me].ex \in Nat  BY <1>0 DEF Quantities, BotOk
    <2>2. row' \in Nat  BY <2>1, TrimmedNat DEF FixRow
    <2> QED BY <2>2, RowMoves DEF FixRow, exchange, ledger, log
  <1>2. Records'  BY RecordsStay DEF FixRow, exchange, ledger, log, Calm, Records
  <1>3. BotsOk'  BY <1>0, GoOk DEF FixRow
  <1> QED BY <1>1, <1>2, <1>3

LEMMA FillsDoneKeeps ==
    ASSUME NEW me \in Procs, BooksInv, FillsDone(me)
    PROVE  BooksInv'
  <1> USE DEF BooksInv
  <1>0. Len(sold) \in Nat /\ sold' = sold /\ sold \in Seq(Fill) /\ BotsOk
    BY DEF FillsDone, BotsOk, Quantities, exchange
  <1>1. Quantities'  BY QuantitiesStay DEF FillsDone, exchange, ledger, log
  <1>2. Records'  BY RecordsStay DEF FillsDone, exchange, ledger, log, Calm, Records
  <1>3. BotsOk'
    <2>1. BotOk(Rest, Len(sold))  BY <1>0, RestOk
    <2>2. bot' = [bot EXCEPT ![me] = Rest]  BY DEF FillsDone
    <2> QED BY <1>0, <2>1, <2>2, BotsStep
  <1> QED BY <1>1, <1>2, <1>3

-----------------------------------------------------------------------------
(* Purchases, sales and failures                                            *)

LEMMA SyncKeeps ==
    ASSUME BooksInv, Sync
    PROVE  BooksInv'
  <1> USE DEF BooksInv
  <1>0. /\ Len(sold) \in Nat /\ sold' = sold /\ sold \in Seq(Fill) /\ BotsOk /\ held \in Nat
        /\ "scan" \in Procs /\ "ready" \notin Busy
    BY DEF Sync, BotsOk, Quantities, exchange, Busy, Procs
  <1>1. Quantities'  BY <1>0, RowMoves DEF Sync, exchange, ledger, log
  <1>2. Records'  BY RecordsStay DEF Sync, exchange, ledger, log, Records, SeenFields
  <1>3. BotsOk'  BY <1>0, GoOk DEF Sync
  <1> QED BY <1>1, <1>2, <1>3

LEMMA RecordBuyKeeps ==
    ASSUME BooksInv, RecordBuy
    PROVE  BooksInv'
  <1> USE DEF BooksInv
  <1>0. Len(sold) \in Nat /\ sold \in Seq(Fill) /\ BotsOk /\ Size \in Nat /\ "scan" \in Procs
    BY SizeNat DEF BotsOk, Quantities, Procs
  <1>1. sold' \in Seq(Fill) /\ Len(sold') = Len(sold)
    <2>0. Orders = 1 .. Len(sold)  BY <1>0 DEF Orders
    <2>00. sold' = [o \in Orders |-> [sold[o] EXCEPT !.old = @ + sold[o].new, !.new = 0]]
      BY Zenon DEF RecordBuy
    <2>1. DOMAIN sold' = 1 .. Len(sold)  BY Zenon, <2>0, <2>00
    <2>2. \A o \in 1 .. Len(sold) : sold'[o] \in Fill
      <3> TAKE o \in 1 .. Len(sold)
      <3>1. sold[o] \in Fill  BY <1>0
      <3>2. sold[o].old + sold[o].new \in Nat  BY <3>1 DEF Fill
      <3>3. o \in Orders  BY <2>0
      <3>4. PICK a \in Nat : a = sold[o].old + sold[o].new  BY <3>2
      <3>5. sold'[o] = [sold[o] EXCEPT !.old = @ + sold[o].new, !.new = 0]
        BY Zenon, <3>3, <2>00
      <3>6. sold'[o] = [sold[o] EXCEPT !.old = a, !.new = 0]  BY <3>4, <3>5
      <3>7. [sold[o] EXCEPT !.old = a, !.new = 0] \in Fill  BY <3>1, FillChanged
      <3> QED BY Zenon, <3>6, <3>7
    <2>3. sold' = [o \in 1 .. Len(sold) |-> sold'[o]]  BY Zenon, <2>00, <2>0
    <2>4. PICK f : f = sold'  OBVIOUS
    <2>5. f \in Seq(Fill) /\ Len(f) = Len(sold)
      <3>1. f = [o \in 1 .. Len(sold) |-> f[o]] /\ \A o \in 1 .. Len(sold) : f[o] \in Fill
        BY Zenon, <2>2, <2>3, <2>4
      <3> QED BY <3>1, <1>0
    <2> QED BY Zenon, <2>4, <2>5
  <1>2. Quantities'
    <2>1. held' = held /\ legs' = legs /\ shadow' = shadow /\ bought' \in Nat /\ row' \in Nat
      <3>1. bought \in Nat  BY DEF Quantities
      <3>2. bought' = bought + Size /\ row' = Size  BY Zenon DEF RecordBuy
      <3>3. held' = held /\ legs' = legs /\ shadow' = shadow  BY DEF RecordBuy, log
      <3> QED BY <3>1, <3>2, <3>3, <1>0
    <2>2. Left' = Left  BY <2>1 DEF Left
    <2>3. Account'  BY <2>1, <2>2 DEF Quantities, Account
    <2> QED BY <1>1, <2>1, <2>3 DEF Quantities
  <1>3. Records'  BY <1>1 DEF RecordBuy, log, Calm, Records
  <1>4. BotsOk'
    <2> DEFINE b == [bot["scan"] EXCEPT !.at = "boughtRow"]
    <2>1. bot' = [bot EXCEPT !["scan"] = b]  BY DEF RecordBuy, Go
    <2>2. BotOk(b, Len(sold'))  BY <1>0, <1>1 DEF BotsOk, BotOk, BotFields, Busy
    <2>3. Len(sold') >= Len(sold)  BY <1>0, <1>1
    <2> HIDE DEF b
    <2> QED BY <1>0, <1>1, <2>1, <2>2, <2>3, BotsMove
  <1> QED BY <1>2, <1>3, <1>4

LEMMA LogBuyKeeps ==
    ASSUME BooksInv, LogBuy
    PROVE  BooksInv'
  <1> USE DEF BooksInv
  <1>0. /\ Len(sold) \in Nat /\ sold' = sold /\ sold \in Seq(Fill) /\ BotsOk /\ Size \in Nat
        /\ "scan" \in Procs /\ "ready" \notin Busy
    BY SizeNat DEF LogBuy, BotsOk, Quantities, exchange, Busy, Procs
  <1>1. Quantities'
    <2>1. shadow' \in Nat /\ UNCHANGED <<held, legs, sold, bought, row>>
      BY <1>0 DEF LogBuy, Quantities, exchange, ledger
    <2>2. Left' = Left  BY <2>1 DEF Left
    <2>3. Account'  BY <2>1, <2>2 DEF Quantities, Account
    <2> QED BY <2>1, <2>3 DEF Quantities
  <1>2. Records'  BY RecordsStay DEF LogBuy, exchange, ledger, Calm, Records
  <1>3. BotsOk'  BY <1>0, GoOk DEF LogBuy
  <1> QED BY <1>1, <1>2, <1>3

\* The account after the exit orders were placed or taken away.
LEMMA LegsSet ==
    ASSUME NEW f, \A l \in DOMAIN Legs : f[l] \in Nat,
           legs' \in [DOMAIN Legs -> [left : Nat, order : 0 .. Len(sold')]],
           \A l \in DOMAIN Legs : legs'[l].left = f[l]
    PROVE  SumFunctionOnSet(Left', DOMAIN Legs) = SumFunctionOnSet(f, DOMAIN Legs)
  <1>1. PICK g : g = Left'  OBVIOUS
  <1>2. \A l \in DOMAIN Legs : g[l] = f[l] /\ f[l] \in Int  BY <1>1 DEF Left
  <1>3. SumFunctionOnSet(f, DOMAIN Legs) = SumFunctionOnSet(g, DOMAIN Legs)
    BY <1>2, SizeNat, SumAgree
  <1> QED BY <1>1, <1>3

LEMMA BuyKeeps ==
    ASSUME BooksInv, Buy
    PROVE  BooksInv'
  <1> USE DEF BooksInv
  <1>0. /\ Len(sold) \in Nat /\ sold' = sold /\ sold \in Seq(Fill) /\ BotsOk /\ Size \in Nat
        /\ "scan" \in Procs /\ "bought" \notin Busy
    BY SizeNat DEF Buy, BotsOk, Quantities, Busy, Procs
  <1>1. \A l \in DOMAIN Legs : Legs[l] \in Nat  BY BooksAssumption
  <1>2. legs' = [l \in DOMAIN Legs |-> [left |-> Legs[l], order |-> 0]]  BY DEF Buy
  <1>3. legs' \in [DOMAIN Legs -> [left : Nat, order : 0 .. Len(sold')]]
    <2>1. 0 \in 0 .. Len(sold')  BY <1>0
    <2>2. \A l \in DOMAIN Legs : [left |-> Legs[l], order |-> 0] \in [left : Nat, order : 0 .. Len(sold')]
      BY <1>1, <2>1
    <2> QED BY <1>2, <2>2
  <1>4. \A l \in DOMAIN Legs : legs'[l].left = Legs[l]  BY <1>2
  <1>5. Quantities'
    <2>1. SumFunctionOnSet(Left', DOMAIN Legs) = SumFunctionOnSet(Legs, DOMAIN Legs)
      BY <1>1, <1>3, <1>4, LegsSet
    <2>2. held' = Size  BY DEF Buy
    <2>3. Account'  BY <2>1, <2>2, SizeNat DEF Account
    <2> QED BY <1>0, <1>3, <2>2, <2>3 DEF Buy, Quantities, ledger, log
  <1>6. Records'  BY RecordsStay DEF Buy, ledger, log, Calm, Records
  <1>7. BotsOk'  BY <1>0, GoOk DEF Buy
  <1> QED BY <1>5, <1>6, <1>7

LEMMA SellAllKeeps ==
    ASSUME BooksInv, SellAll, UNCHANGED <<bought, shadow>>, row' \in Nat
    PROVE  /\ Quantities'
           /\ Len(sold') = Len(sold) + 1
  <1> USE DEF BooksInv
  <1> DEFINE f == [old |-> 0, new |-> held, loss |-> TRUE]
  <1>1. sold \in Seq(Fill) /\ f \in Fill /\ Len(sold) \in Nat
    BY DEF Quantities, Fill
  <1>2. sold' = Append(sold, f)  BY DEF SellAll
  <1> HIDE DEF f
  <1>3. sold' \in Seq(Fill) /\ Len(sold') = Len(sold) + 1  BY <1>1, <1>2
  <1>4. legs' \in [DOMAIN Legs -> [left : Nat, order : 0 .. Len(sold')]]
    <2>1. [left |-> 0, order |-> 0] \in [left : Nat, order : 0 .. Len(sold')]  BY <1>1, <1>3
    <2> QED BY <2>1 DEF SellAll, NoLegs
  <1>5. Account'
    <2> DEFINE z == [l \in DOMAIN Legs |-> 0]
    <2>1. \A l \in DOMAIN Legs : z[l] \in Nat /\ z[l] = 0  OBVIOUS
    <2>2. \A l \in DOMAIN Legs : legs'[l].left = z[l]  BY DEF SellAll, NoLegs
    <2> HIDE DEF z
    <2>3. SumFunctionOnSet(z, DOMAIN Legs) = 0  BY <2>1, SizeNat, SumZero
    <2>4. SumFunctionOnSet(Left', DOMAIN Legs) = 0  BY <2>1, <2>2, <2>3, <1>4, LegsSet
    <2> QED BY <2>4 DEF SellAll, Account
  <1>6. held' \in Nat  BY DEF SellAll
  <1> QED BY <1>3, <1>4, <1>5, <1>6 DEF Quantities

\* More orders than before: what was recorded of the others stands.
LEMMA RecordsGrow ==
    ASSUME Records, Len(sold) \in Nat, Len(sold') \in Nat, Len(sold') >= Len(sold),
           UNCHANGED <<sells, cool, events>>, DOMAIN seen' = SeenFields
    PROVE  Records'
  <1>1. 1 .. Len(sold) \subseteq 1 .. Len(sold')  OBVIOUS
  <1>2. \A s \in sells : s \in Sale /\ s.order <= Len(sold')  BY DEF Records, Sale
  <1>3. events \subseteq (1 .. Len(sold')) \X Keys  BY <1>1 DEF Records
  <1> QED BY <1>1, <1>2, <1>3 DEF Records

LEMMA ExitKeeps ==
    ASSUME NEW me \in Procs, BooksInv, Exit(me)
    PROVE  BooksInv'
  <1> USE DEF BooksInv
  <1>1. Quantities' /\ Len(sold') = Len(sold) + 1
    <2>1. row' \in Nat /\ UNCHANGED <<bought, shadow>> /\ SellAll
      BY DEF Exit, ledger, log, Quantities
    <2> QED BY <2>1, SellAllKeeps
  <1>2. Len(sold) \in Nat /\ Len(sold') >= Len(sold) /\ sold \in Seq(Fill) /\ sold' \in Seq(Fill)
    BY <1>1 DEF Quantities
  <1>3. Records'  BY <1>1, <1>2, RecordsGrow DEF Exit, ledger, log, Records, SeenFields
  <1>4. BotsOk'
    <2> DEFINE b == [bot[me] EXCEPT !.at = "fills"]
    <2>1. bot' = [bot EXCEPT ![me] = b]  BY DEF Exit, Go
    <2>2. BotOk(b, Len(sold'))  BY <1>1, <1>2 DEF BotsOk, BotOk, BotFields, Busy
    <2> HIDE DEF b
    <2> QED BY <1>2, <2>1, <2>2, BotsMove
  <1> QED BY <1>1, <1>3, <1>4

LEMMA CloseKeeps ==
    ASSUME NEW key \in Keys, BooksInv, Close(key)
    PROVE  BooksInv'
  <1> USE DEF BooksInv
  <1>1. Quantities' /\ Len(sold') = Len(sold) + 1
    <2>1. row' \in Nat /\ UNCHANGED <<bought, shadow>> /\ SellAll
      BY DEF Close, ledger, log, Quantities
    <2> QED BY <2>1, SellAllKeeps
  <1>2. Len(sold) \in Nat /\ Len(sold') >= Len(sold) /\ sold \in Seq(Fill) /\ sold' \in Seq(Fill)
        /\ Len(sold') \in Nat /\ "scan" \in Procs
    BY <1>1 DEF Quantities, Procs
  <1>3. Records'  BY <1>1, <1>2, RecordsGrow DEF Close, ledger, log, Records, SeenFields
  <1>4. BotsOk'
    <2>1. PICK n \in Nat : n = Len(sold')  BY <1>2
    <2>2. n # 0 /\ row \in Nat  BY <2>1, <1>1, <1>2 DEF Quantities
    <2> DEFINE b == [Rest EXCEPT !.at = "close", !.work = "close", !.order = n, !.key = key, !.qty = row]
    <2>3. bot' = [bot EXCEPT !["scan"] = b]  BY <2>1 DEF Close
    <2>4. BotOk(Rest, n) /\ "close" \in Work  BY RestOk DEF Work
    <2>5. BotOk(b, n)  BY <2>2, <2>4 DEF BotOk, BotFields
    <2> HIDE DEF b
    <2> QED BY <1>2, <2>1, <2>3, <2>5, BotsMove
  <1> QED BY <1>1, <1>3, <1>4

LEMMA CloseTradeKeeps ==
    ASSUME BooksInv, CloseTrade
    PROVE  BooksInv'
  <1> USE DEF BooksInv
  <1>0. /\ BotOk(bot["scan"], Len(sold)) /\ bot["scan"].order # 0
        /\ Len(sold) \in Nat /\ sold' = sold /\ sold \in Seq(Fill) /\ BotsOk /\ "scan" \in Procs
    BY DEF CloseTrade, At, BotsOk, BotOk, Busy, Quantities, exchange, Procs
  <1>1. Quantities'  BY QuantitiesStay DEF CloseTrade, exchange, log
  <1>2. Records'
    <2> DEFINE s == [order |-> bot["scan"].order, key |-> bot["scan"].key, qty |-> bot["scan"].qty]
    <2>1. s \in Sale /\ s.order <= Len(sold)  BY <1>0 DEF BotOk, Sale, Keys
    <2>2. sells' \subseteq sells \cup {s}  BY DEF CloseTrade
    <2> HIDE DEF s
    <2> QED BY <2>1, <2>2 DEF CloseTrade, exchange, log, Calm, Records
  <1>3. BotsOk'  BY <1>0, GoOk DEF CloseTrade
  <1> QED BY <1>1, <1>2, <1>3

LEMMA CloseRowKeeps ==
    ASSUME BooksInv, CloseRow
    PROVE  BooksInv'
  <1> USE DEF BooksInv
  <1>0. /\ BotOk(bot["scan"], Len(sold)) /\ bot["scan"].order # 0
        /\ Len(sold) \in Nat /\ sold' = sold /\ sold \in Seq(Fill) /\ BotsOk /\ "scan" \in Procs
    BY DEF CloseRow, At, BotsOk, BotOk, Busy, Quantities, exchange, Procs
  <1>1. Quantities'  BY RowMoves DEF CloseRow, exchange, ledger, log
  <1>2. Records'  BY RecordsStay DEF CloseRow, exchange, ledger, log, Calm, Records
  <1>3. BotsOk'  BY <1>0, GoOk DEF CloseRow
  <1> QED BY <1>1, <1>2, <1>3

\* A leg sells q: the account and the leg lose the same.
LEMMA LegFillsKeeps ==
    ASSUME NEW l \in DOMAIN Legs, BooksInv, LegFills(l)
    PROVE  BooksInv'
  <1> USE DEF BooksInv
  <1>1. legs \in [DOMAIN Legs -> [left : Nat, order : 0 .. Len(sold)]]
        /\ sold \in Seq(Fill) /\ Len(sold) \in Nat /\ held \in Nat
    BY DEF Quantities
  <1>2. legs[l].left \in Nat /\ legs[l].order \in 0 .. Len(sold)  BY <1>1
  <1>3. Part \in Nat  BY BooksAssumption
  <1>4. PICK q \in {Part, legs[l].left} :
          LET o == legs[l].order
              fill == [old |-> 0, new |-> q, loss |-> l \in Stops]
          IN  /\ 0 < q /\ q <= legs[l].left
              /\ sold' = IF o = 0 THEN Append(sold, fill) ELSE [sold EXCEPT ![o].new = @ + q]
              /\ legs' = [legs EXCEPT ![l] = [left |-> @.left - q,
                                              order |-> IF o = 0 THEN Len(sold) + 1 ELSE o]]
              /\ held' = held - q
    BY Zenon DEF LegFills
  <1>5. q \in Nat /\ q <= legs[l].left /\ legs[l].left - q \in Nat  BY <1>2, <1>3, <1>4
  <1> DEFINE o == legs[l].order
  <1>6. /\ sold' \in Seq(Fill) /\ Len(sold') \in Nat /\ Len(sold') >= Len(sold)
        /\ (IF o = 0 THEN Len(sold) + 1 ELSE o) \in 0 .. Len(sold')
    <2>1. CASE o = 0
      <3> DEFINE f == [old |-> 0, new |-> q, loss |-> l \in Stops]
      <3>1. f \in Fill  BY <1>5 DEF Fill
      <3>2. sold' = Append(sold, f)  BY <2>1, <1>4
      <3> HIDE DEF f
      <3>3. sold' \in Seq(Fill) /\ Len(sold') = Len(sold) + 1  BY <3>1, <3>2, <1>1
      <3> QED BY <2>1, <3>3, <1>1
    <2>2. CASE o # 0
      <3>1. sold[o] \in Fill /\ o \in 1 .. Len(sold)  BY <1>1, <1>2, <2>2
      <3>2. PICK a \in Nat : a = sold[o].new + q  BY <3>1, <1>5 DEF Fill
      <3>3. sold' = [sold EXCEPT ![o] = [sold[o] EXCEPT !.new = a]]
        <4>1. sold' = [sold EXCEPT ![o].new = @ + q]  BY <2>2, <1>4
        <4>2. sold' = [sold EXCEPT ![o] = [sold[o] EXCEPT !.new = sold[o].new + q]]  BY <4>1
        <4> QED BY <4>2, <3>2
      <3>4. PICK f : f = [sold[o] EXCEPT !.new = a]  OBVIOUS
      <3>5. f \in Fill  BY <3>1, <3>4, NewChanged
      <3>6. sold' = [sold EXCEPT ![o] = f]  BY <3>3, <3>4
      <3>7. sold' \in Seq(Fill) /\ Len(sold') = Len(sold)  BY <3>1, <3>5, <3>6, <1>1
      <3> QED BY <2>2, <3>1, <3>7, <1>1
    <2> QED BY <2>1, <2>2
  <1>7. Quantities'
    <2>1. PICK k : k = IF o = 0 THEN Len(sold) + 1 ELSE o  OBVIOUS
    <2>2. legs' = [legs EXCEPT ![l] = [left |-> legs[l].left - q, order |-> k]]
      BY Zenon, <1>4, <2>1
    <2>3. [left |-> legs[l].left - q, order |-> k] \in [left : Nat, order : 0 .. Len(sold')]
      BY <1>5, <1>6, <2>1
    <2>4. legs \in [DOMAIN Legs -> [left : Nat, order : 0 .. Len(sold')]]
      <3>1. 0 .. Len(sold) \subseteq 0 .. Len(sold')  BY <1>1, <1>6
      <3>2. \A m \in DOMAIN Legs : legs[m] \in [left : Nat, order : 0 .. Len(sold')]  BY <1>1, <3>1
      <3> QED BY <1>1, <3>2
    <2>5. legs' \in [DOMAIN Legs -> [left : Nat, order : 0 .. Len(sold')]]
      BY <2>2, <2>3, <2>4
    <2>6. \A m \in DOMAIN Legs : legs'[m].left = IF m = l THEN legs[l].left - q ELSE legs[m].left
      BY <2>2, <1>1
    <2>7. PICK f, g : f = Left /\ g = Left'  OBVIOUS
    <2>8. \A m \in DOMAIN Legs : f[m] = legs[m].left /\ g[m] = legs'[m].left
      BY <2>7 DEF Left
    <2>9. \A m \in DOMAIN Legs : f[m] \in Nat /\ g[m] \in Nat  BY <2>8, <1>1, <2>5
    <2>10. \A m \in DOMAIN Legs \ {l} : g[m] = f[m]  BY <2>6, <2>8
    <2>11. g[l] = f[l] - q  BY <2>6, <2>8
    <2>12. IsFiniteSet(DOMAIN Legs)  BY SizeNat
    <2>13. SumFunctionOnSet(g, DOMAIN Legs) = SumFunctionOnSet(f, DOMAIN Legs) + (g[l] - f[l])
      BY <2>9, <2>10, <2>12, SumChange
    <2>14. SumFunctionOnSet(g, DOMAIN Legs) \in Nat  BY <2>9, <2>12, SumNat
    <2>15. held = SumFunctionOnSet(f, DOMAIN Legs)  BY <2>7 DEF Quantities, Account
    <2>16. held' = held - q  BY <1>4
    <2>17. held' = SumFunctionOnSet(g, DOMAIN Legs)
      <3>1. f[l] \in Nat /\ g[l] \in Nat  BY <2>9
      <3> QED BY <3>1, <2>11, <2>13, <2>15, <2>16, <1>1, <1>5
    <2>18. Account' /\ held' \in Nat  BY <2>7, <2>14, <2>17 DEF Account
    <2>19. UNCHANGED <<row, bought, shadow>>  BY DEF LegFills, ledger, log
    <2> QED BY <1>6, <2>5, <2>18, <2>19 DEF Quantities
  <1>8. Records'
    <2>1. UNCHANGED <<sells, cool, events>> /\ DOMAIN seen' = SeenFields
      BY DEF LegFills, ledger, log, Records, SeenFields
    <2> QED BY <1>1, <1>6, <2>1, RecordsGrow
  <1>9. BotsOk'
    <2>1. bot' = bot  BY DEF LegFills
    <2>2. ASSUME NEW p \in Procs  PROVE BotOk(bot[p], Len(sold'))
      <3>1. BotOk(bot[p], Len(sold))  BY DEF BotsOk
      <3>2. Len(bot[p].fills) \in Nat  BY <3>1 DEF BotOk
      <3> QED BY <3>1, <3>2, <1>1, <1>6 DEF BotOk
    <2> QED BY <2>1, <2>2 DEF BotsOk
  <1> QED BY <1>7, <1>8, <1>9

LEMMA UnreadableKeeps ==
    ASSUME NEW me \in Procs, BooksInv, Unreadable(me)
    PROVE  BooksInv'
  <1> USE DEF BooksInv
  <1>0. /\ BotOk(bot[me], Len(sold))
        /\ Len(sold) \in Nat /\ sold' = sold /\ sold \in Seq(Fill) /\ BotsOk
    BY DEF Unreadable, BotsOk, Quantities, exchange
  <1>1. Quantities'  BY QuantitiesStay DEF Unreadable, exchange, ledger, log
  <1>2. Records'  BY RecordsStay DEF Unreadable, exchange, ledger, log, Records, SeenFields
  <1>3. BotsOk'
    <2>1. PICK b : /\ bot' = [bot EXCEPT ![me] = b]
                   /\ b \in {[bot[me] EXCEPT !.at = "trim", !.main = FALSE],
                             [Rest EXCEPT !.at = "fills"], Rest}
      BY DEF Unreadable
    <2>2. BotOk([Rest EXCEPT !.at = "fills"], Len(sold)) /\ BotOk(Rest, Len(sold))
      BY <1>0, RestOk, RestAtOk DEF Busy
    <2>3. BotOk([bot[me] EXCEPT !.at = "trim", !.main = FALSE], Len(sold))
      BY <1>0 DEF BotOk, BotFields, Busy
    <2>4. BotOk(b, Len(sold))  BY <2>1, <2>2, <2>3
    <2> QED BY <1>0, <2>1, <2>4, BotsStep
  <1> QED BY <1>1, <1>2, <1>3

LEMMA DiesKeeps ==
    ASSUME NEW me \in Procs, BooksInv, Dies(me)
    PROVE  BooksInv'
  <1> USE DEF BooksInv
  <1>0. Len(sold) \in Nat /\ sold' = sold /\ sold \in Seq(Fill) /\ BotsOk
    BY DEF Dies, BotsOk, Quantities, exchange
  <1>1. Quantities'  BY QuantitiesStay DEF Dies, exchange, ledger, log
  <1>2. Records'  BY RecordsStay DEF Dies, exchange, ledger, log, Records, SeenFields
  <1>3. BotsOk'
    <2>1. BotOk(Rest, Len(sold))  BY <1>0, RestOk
    <2>2. bot' = [bot EXCEPT ![me] = Rest]  BY DEF Dies
    <2> QED BY <1>0, <2>1, <2>2, BotsStep
  <1> QED BY <1>1, <1>2, <1>3

LEMMA BooksStart == Init => BooksInv
  <1> SUFFICES ASSUME Init PROVE BooksInv  OBVIOUS
  <1>1. sold = <<>> /\ <<>> \in Seq(Fill) /\ Len(<<>>) = 0  BY DEF Init
  <1>2. Quantities
    <2>1. [left |-> 0, order |-> 0] \in [left : Nat, order : 0 .. Len(sold)]  BY <1>1
    <2>2. legs \in [DOMAIN Legs -> [left : Nat, order : 0 .. Len(sold)]]  BY <2>1 DEF Init, NoLegs
    <2>3. PICK f : f = Left  OBVIOUS
    <2>4. \A l \in DOMAIN Legs : f[l] = 0 /\ f[l] \in Nat  BY <2>3 DEF Init, NoLegs, Left
    <2>5. SumFunctionOnSet(f, DOMAIN Legs) = 0  BY <2>4, SizeNat, SumZero
    <2>6. Account  BY <2>3, <2>5 DEF Account, Init
    <2> QED BY <1>1, <2>2, <2>6 DEF Quantities, Init
  <1>3. Records  BY DEF Init, Records, SeenFields
  <1>4. BotsOk
    <2>1. BotOk(Rest, 0)  BY RestOk
    <2> QED BY <1>1, <2>1 DEF BotsOk, Init
  <1> QED BY <1>2, <1>3, <1>4 DEF BooksInv

LEMMA StepKeeps ==
    ASSUME NEW me \in Procs, BooksInv, Step(me)
    PROVE  BooksInv'
BY CheckEventKeeps, AppendEventKeeps, AddTradeKeeps, NoteLossKeeps, CompareKeeps, FetchKeeps,
   NextLegKeeps, TrimKeeps, FetchFillsKeeps, NextOrderKeeps, FixRowKeeps, FillsDoneKeeps DEF Step

LEMMA BooksKept == BooksInv /\ [Next]_vars => BooksInv'
  <1> SUFFICES ASSUME BooksInv, [Next]_vars PROVE BooksInv'  OBVIOUS
  <1>0. "scan" \in Procs /\ "panel" \in Procs /\ "order" \in Keys /\ "client" \in Keys
    BY DEF Procs, Keys
  <1>1. CASE Step("scan") \/ Step("panel")  BY <1>0, <1>1, StepKeeps
  <1>2. CASE Sync \/ Buy \/ RecordBuy \/ LogBuy
    BY <1>2, SyncKeeps, BuyKeeps, RecordBuyKeeps, LogBuyKeeps
  <1>3. CASE Close("order") \/ Close("client") \/ CloseTrade \/ CloseRow
    BY <1>0, <1>3, CloseKeeps, CloseTradeKeeps, CloseRowKeeps
  <1>4. CASE Exit("scan") \/ Exit("panel")  BY <1>0, <1>4, ExitKeeps
  <1>5. CASE Market  BY <1>5, LegFillsKeeps DEF Market
  <1>6. CASE \E p \in Procs : Unreadable(p) \/ Dies(p)  BY <1>6, UnreadableKeeps, DiesKeeps
  <1>7. CASE UNCHANGED vars
    <2>1. Quantities' /\ Records' /\ BotsOk'
      <3>1. /\ UNCHANGED <<held, legs, sold, bought, sells, row, events, shadow, cool, bot, seen>>
        BY <1>7 DEF vars, exchange, ledger, log
      <3>2. Quantities'  BY <3>1, QuantitiesStay DEF BooksInv
      <3> QED BY <3>1, <3>2, RecordsStay DEF BooksInv, BotsOk, Records
    <2> QED BY <2>1 DEF BooksInv
  <1> QED BY <1>1, <1>2, <1>3, <1>4, <1>5, <1>6, <1>7 DEF Next, Scan, Panel

LEMMA BooksAlways == Spec => []BooksInv
BY BooksStart, BooksKept, PTL DEF Spec

\* The account, the books and the processes keep the shape the code gives them:
\* nothing held or booked is below zero, and whatever is recorded is recorded of
\* an order the exchange has fills of, for all legs and any number of purchases.
THEOREM BooksTyped == Spec => []TypeOK
  <1>1. BooksInv => TypeOK
    <2> SUFFICES ASSUME BooksInv PROVE TypeOK  OBVIOUS
    <2>1. Orders = 1 .. Len(sold)  BY DEF BooksInv, Quantities, Orders
    <2>2. DOMAIN Rest = BotFields  BY DEF Rest, BotFields
    <2>3. \A p \in Procs : DOMAIN bot[p] = BotFields /\ bot[p].work \in Work
      BY DEF BooksInv, BotsOk, BotOk
    <2> QED BY <2>1, <2>2, <2>3 DEF TypeOK, BooksInv, Quantities, Records
  <1> QED BY <1>1, BooksAlways, PTL

-----------------------------------------------------------------------------
(* No losing sale without its cooldown                                      *)

\* After the step the order has its cooldown, or someone is about to write it.
CoveredThen(o) == o \in cool' \/ \E p \in Procs : bot'[p].at = "note" /\ bot'[p].order = o

\* A sale stays a loss, or none; a stamp stays; and who is about to write one
\* still is, or has.
Faithful ==
    /\ \A o \in 1 .. Len(sold) : sold'[o].loss = sold[o].loss
    /\ cool \subseteq cool'
    /\ \A p \in Procs : bot[p].at = "note" => CoveredThen(bot[p].order)

\* Nobody dies in the step, and a new row in the ledger is about to be noted.
Noting ==
    /\ seen'.died = seen.died
    /\ \A s \in sells' : s \in sells \/ CoveredThen(s.order)

LEMMA NotedStep ==
    ASSUME BooksInv, LossNoted, Faithful, Noting
    PROVE  LossNoted'
  <1>1. SUFFICES ASSUME seen'.died = {}, NEW s \in sells', sold'[s.order].loss
                 PROVE  CoveredThen(s.order)
    BY DEF LossNoted, CoveredThen, At
  <1>2. seen.died = {}  BY <1>1 DEF Noting
  <1>3. CASE s \in sells
    <2>1. s.order \in 1 .. Len(sold)
      BY <1>3 DEF BooksInv, Records, Sale, Quantities
    <2>2. sold[s.order].loss  BY <2>1, <1>1 DEF Faithful
    <2>3. s.order \in cool \/ \E p \in Procs : bot[p].at = "note" /\ bot[p].order = s.order
      BY <1>2, <1>3, <2>2 DEF LossNoted, At
    <2> QED BY <2>3 DEF Faithful, CoveredThen
  <1>4. CASE s \notin sells  BY <1>4 DEF Noting
  <1> QED BY <1>3, <1>4

\* A process that has nothing to note moves on, and nothing is booked.
LEMMA QuietStep ==
    ASSUME NEW me \in Procs, BooksInv, LossNoted, bot[me].at # "note",
           \A p \in Procs \ {me} : bot'[p] = bot[p],
           \A o \in 1 .. Len(sold) : sold'[o].loss = sold[o].loss,
           UNCHANGED <<sells, cool>>, seen'.died = seen.died
    PROVE  LossNoted'
  <1>1. Faithful  BY DEF Faithful, CoveredThen
  <1>2. Noting  BY DEF Noting
  <1> QED BY <1>1, <1>2, NotedStep

\* A process that books a sale is then about to note it.
LEMMA BookingStep ==
    ASSUME NEW me \in Procs, BooksInv, LossNoted, bot[me].at # "note", Go(me, "note"),
           \A s \in sells' : s \in sells \/ s.order = bot[me].order,
           UNCHANGED <<sold, cool>>, seen'.died = seen.died
    PROVE  LossNoted'
  <1>1. bot'[me].at = "note" /\ bot'[me].order = bot[me].order
    BY DEF Go, BooksInv, BotsOk, BotOk, BotFields
  <1>2. \A p \in Procs \ {me} : bot'[p] = bot[p]  BY DEF Go, BooksInv, BotsOk
  <1>3. Faithful  BY <1>2 DEF Faithful, CoveredThen
  <1>4. Noting  BY <1>1 DEF Noting, CoveredThen
  <1> QED BY <1>3, <1>4, NotedStep

LEMMA NoteLossNotes ==
    ASSUME NEW me \in Procs, BooksInv, LossNoted, NoteLoss(me)
    PROVE  LossNoted'
  <1> DEFINE o == bot[me].order
  <1>1. SUFFICES ASSUME seen'.died = {}, NEW s \in sells', sold'[s.order].loss
                 PROVE  CoveredThen(s.order)
    BY DEF LossNoted, CoveredThen, At
  <1>2. seen.died = {} /\ s \in sells /\ sold[s.order].loss
    BY <1>1 DEF NoteLoss, Calm, exchange, ledger
  <1>3. s.order \in cool \/ \E p \in Procs : bot[p].at = "note" /\ bot[p].order = s.order
    BY <1>2 DEF LossNoted, At
  <1>4. cool \subseteq cool' /\ (sold[o].loss => o \in cool')  BY DEF NoteLoss
  <1>5. \A p \in Procs \ {me} : bot'[p] = bot[p]  BY DEF NoteLoss, Go, BooksInv, BotsOk
  <1>6. CASE o = s.order  BY <1>2, <1>4, <1>6 DEF CoveredThen
  <1>7. CASE o # s.order  BY <1>3, <1>4, <1>5, <1>7 DEF CoveredThen
  <1> QED BY <1>6, <1>7

\* A failing process takes its note with it, and is remembered.
LEMMA DeathRemembered ==
    ASSUME NEW me \in Procs, BooksInv, Dies(me)
    PROVE  LossNoted'
  <1>1. seen'.died = seen.died \cup {bot[me].at}
    BY DEF Dies, BooksInv, Records, SeenFields
  <1>2. seen'.died # {}  BY <1>1
  <1> QED BY <1>2 DEF LossNoted

\* The steps of a process that neither book nor note a sale.
LEMMA StepNotes ==
    ASSUME NEW me \in Procs, BooksInv, LossNoted, Step(me)
    PROVE  LossNoted'
  <1>1. CASE CheckEvent(me)
    BY <1>1, QuietStep DEF CheckEvent, At, exchange, ledger, Calm, BooksInv, BotsOk
  <1>2. CASE AppendEvent(me)
    BY <1>2, QuietStep DEF AppendEvent, At, exchange, ledger, Calm, BooksInv, BotsOk
  <1>3. CASE AddTrade(me)
    <2>1. UNCHANGED <<sold, cool>> /\ seen'.died = seen.died /\ bot[me].at # "note"
      BY <1>3 DEF AddTrade, At, exchange, Calm
    <2>2. CASE Go(me, "note") /\ sells' = sells \cup
                 {[order |-> bot[me].order, key |-> "order", qty |-> bot[me].qty]}
      <3>1. \A s \in sells' : s \in sells \/ s.order = bot[me].order  BY <2>2
      <3> QED BY <2>1, <2>2, <3>1, BookingStep
    <2>3. CASE bot' = [bot EXCEPT ![me] = Next1(bot[me], FALSE)] /\ UNCHANGED sells
      BY <2>1, <2>3, QuietStep DEF BooksInv, BotsOk
    <2> QED BY <1>3, <2>2, <2>3 DEF AddTrade
  <1>4. CASE NoteLoss(me)  BY <1>4, NoteLossNotes
  <1>5. CASE Compare(me)
    <2>1. seen'.died = seen.died  BY <1>5 DEF Compare, BooksInv, Records, SeenFields
    <2>2. bot[me].at # "note" /\ \A p \in Procs \ {me} : bot'[p] = bot[p]
      BY <1>5 DEF Compare, At, BooksInv, BotsOk
    <2>3. UNCHANGED <<sold, sells, cool>>  BY <1>5 DEF Compare, exchange, ledger
    <2> QED BY <2>1, <2>2, <2>3, QuietStep
  <1>6. CASE Fetch(me)
    <2>1. bot[me].at # "note" /\ \A p \in Procs \ {me} : bot'[p] = bot[p]
      BY <1>6 DEF Fetch, At, BooksInv, BotsOk
    <2> QED BY <1>6, <2>1, QuietStep DEF Fetch, exchange, ledger, Calm
  <1>7. CASE NextLeg(me)
    <2>1. bot[me].at # "note" /\ \A p \in Procs \ {me} : bot'[p] = bot[p]
      BY <1>7 DEF NextLeg, At, BooksInv, BotsOk
    <2> QED BY <1>7, <2>1, QuietStep DEF NextLeg, exchange, ledger, Calm
  <1>8. CASE Trim(me)
    BY <1>8, QuietStep DEF Trim, At, exchange, ledger, Calm, BooksInv, BotsOk
  <1>9. CASE FetchFills(me)
    BY <1>9, QuietStep DEF FetchFills, At, exchange, ledger, Calm, BooksInv, BotsOk
  <1>10. CASE NextOrder(me)
    <2>1. bot[me].at # "note" /\ \A p \in Procs \ {me} : bot'[p] = bot[p]
      BY <1>10 DEF NextOrder, At, BooksInv, BotsOk
    <2> QED BY <1>10, <2>1, QuietStep DEF NextOrder, exchange, ledger, Calm
  <1>11. CASE FixRow(me)
    BY <1>11, QuietStep DEF FixRow, Go, At, exchange, ledger, Calm, BooksInv, BotsOk
  <1>12. CASE FillsDone(me)
    BY <1>12, QuietStep DEF FillsDone, At, exchange, ledger, Calm, BooksInv, BotsOk
  <1> QED BY <1>1, <1>2, <1>3, <1>4, <1>5, <1>6, <1>7, <1>8, <1>9, <1>10, <1>11, <1>12 DEF Step

\* A sale in the market is one more order, or more of one there is.
LEMMA SalesStay ==
    ASSUME BooksInv
    PROVE  /\ SellAll => \A o \in 1 .. Len(sold) : sold'[o] = sold[o]
           /\ \A l \in DOMAIN Legs : LegFills(l) =>
                \A o \in 1 .. Len(sold) : sold'[o].loss = sold[o].loss
  <1>1. sold \in Seq(Fill) /\ Len(sold) \in Nat  BY DEF BooksInv, Quantities
  <1>2. ASSUME SellAll  PROVE \A o \in 1 .. Len(sold) : sold'[o] = sold[o]
    <2>1. PICK f : sold' = Append(sold, f)  BY <1>2 DEF SellAll
    <2> QED BY <1>1, <2>1
  <1>3. ASSUME NEW l \in DOMAIN Legs, LegFills(l), NEW o \in 1 .. Len(sold)
        PROVE  sold'[o].loss = sold[o].loss
    <2>1. PICK f, q : sold' = IF legs[l].order = 0 THEN Append(sold, f)
                              ELSE [sold EXCEPT ![legs[l].order].new = @ + q]
      BY <1>3 DEF LegFills
    <2>2. CASE legs[l].order = 0  BY <1>1, <2>1, <2>2
    <2>3. CASE legs[l].order # 0
      <3>1. sold' = [sold EXCEPT ![legs[l].order].new = @ + q]  BY <2>1, <2>3
      <3>2. sold[o] \in Fill  BY <1>1
      <3>3. sold'[o] = sold[o] \/ sold'[o] = [sold[o] EXCEPT !.new = @ + q]  BY <3>1, <1>1
      <3> QED BY <3>2, <3>3 DEF Fill
    <2> QED BY <2>2, <2>3
  <1> QED BY <1>2, <1>3

LEMMA ScanNotes ==
    ASSUME BooksInv, LossNoted,
           Sync \/ Buy \/ RecordBuy \/ LogBuy \/ Close("order") \/ Close("client") \/ CloseTrade \/ CloseRow
    PROVE  LossNoted'
  <1>0. "scan" \in Procs /\ Len(sold) \in Nat /\ sold \in Seq(Fill)
    BY DEF Procs, BooksInv, Quantities
  <1>1. CASE Sync
    <2>1. seen'.died = seen.died  BY <1>1 DEF Sync, BooksInv, Records, SeenFields
    <2>2. bot["scan"].at # "note" /\ \A p \in Procs \ {"scan"} : bot'[p] = bot[p]
      BY <1>0, <1>1 DEF Sync, Go, At, BooksInv, BotsOk
    <2> QED BY <1>0, <1>1, <2>1, <2>2, QuietStep DEF Sync, exchange, ledger
  <1>2. CASE Buy
    <2>1. bot["scan"].at # "note" /\ \A p \in Procs \ {"scan"} : bot'[p] = bot[p]
      BY <1>0, <1>2 DEF Buy, Go, At, BooksInv, BotsOk
    <2> QED BY <1>0, <1>2, <2>1, QuietStep DEF Buy, ledger, Calm
  <1>3. CASE RecordBuy
    <2>1. bot["scan"].at # "note" /\ \A p \in Procs \ {"scan"} : bot'[p] = bot[p]
      BY <1>0, <1>3 DEF RecordBuy, Go, At, BooksInv, BotsOk
    <2>2. \A o \in 1 .. Len(sold) : sold'[o].loss = sold[o].loss
      <3> TAKE o \in 1 .. Len(sold)
      <3>1. o \in Orders /\ sold[o] \in Fill  BY <1>0 DEF Orders
      <3>2. sold'[o] = [sold[o] EXCEPT !.old = @ + sold[o].new, !.new = 0]
        BY Zenon, <1>3, <3>1 DEF RecordBuy
      <3> QED BY <3>1, <3>2 DEF Fill
    <2>3. UNCHANGED <<sells, cool>> /\ seen'.died = seen.died  BY <1>3 DEF RecordBuy, Calm
    <2> QED BY <1>0, <2>1, <2>2, <2>3, QuietStep
  <1>4. CASE LogBuy
    <2>1. bot["scan"].at # "note" /\ \A p \in Procs \ {"scan"} : bot'[p] = bot[p]
      BY <1>0, <1>4 DEF LogBuy, Go, At, BooksInv, BotsOk
    <2> QED BY <1>0, <1>4, <2>1, QuietStep DEF LogBuy, exchange, ledger, Calm
  <1>5. ASSUME NEW key, Close(key)  PROVE LossNoted'
    <2>1. bot["scan"].at # "note" /\ \A p \in Procs \ {"scan"} : bot'[p] = bot[p]
      BY <1>0, <1>5 DEF Close, At, BooksInv, BotsOk
    <2>2. \A o \in 1 .. Len(sold) : sold'[o].loss = sold[o].loss
      BY <1>5, SalesStay DEF Close
    <2>3. UNCHANGED <<sells, cool>>  BY <1>5 DEF Close, ledger
    <2>4. seen'.died = seen.died  BY <1>5 DEF Close, BooksInv, Records, SeenFields
    <2> QED BY <1>0, <2>1, <2>2, <2>3, <2>4, QuietStep
  <1>6. CASE CloseTrade
    <2>1. bot["scan"].at # "note" /\ Go("scan", "note")  BY <1>6 DEF CloseTrade, At
    <2>2. \A s \in sells' : s \in sells \/ s.order = bot["scan"].order  BY <1>6 DEF CloseTrade
    <2>3. UNCHANGED <<sold, cool>> /\ seen'.died = seen.died
      BY <1>6 DEF CloseTrade, exchange, Calm
    <2> QED BY <1>0, <2>1, <2>2, <2>3, BookingStep
  <1>7. CASE CloseRow
    <2>1. bot["scan"].at # "note" /\ \A p \in Procs \ {"scan"} : bot'[p] = bot[p]
      BY <1>0, <1>7 DEF CloseRow, Go, At, BooksInv, BotsOk
    <2> QED BY <1>0, <1>7, <2>1, QuietStep DEF CloseRow, exchange, ledger, Calm
  <1> QED BY <1>1, <1>2, <1>3, <1>4, <1>5, <1>6, <1>7

LEMMA LossNotedKept == BooksInv /\ LossNoted /\ [Next]_vars => LossNoted'
  <1> SUFFICES ASSUME BooksInv, LossNoted, [Next]_vars PROVE LossNoted'  OBVIOUS
  <1>0. "scan" \in Procs /\ "panel" \in Procs  BY DEF Procs
  <1>1. CASE Step("scan") \/ Step("panel")  BY <1>0, <1>1, StepNotes
  <1>2. CASE Sync \/ Buy \/ RecordBuy \/ LogBuy \/ Close("order") \/ Close("client") \/ CloseTrade \/ CloseRow
    BY <1>2, ScanNotes
  <1>3. ASSUME NEW me \in Procs, Exit(me)  PROVE LossNoted'
    <2>1. bot[me].at # "note"  BY <1>3 DEF Exit, At
    <2>2. \A p \in Procs \ {me} : bot'[p] = bot[p]  BY <1>3 DEF Exit, Go, BooksInv, BotsOk
    <2>3. \A o \in 1 .. Len(sold) : sold'[o].loss = sold[o].loss  BY <1>3, SalesStay DEF Exit
    <2>4. UNCHANGED <<sells, cool>>  BY <1>3 DEF Exit, ledger
    <2>5. seen'.died = seen.died  BY <1>3 DEF Exit, BooksInv, Records, SeenFields
    <2> QED BY <2>1, <2>2, <2>3, <2>4, <2>5, QuietStep
  <1>4. ASSUME NEW l \in DOMAIN Legs, LegFills(l)  PROVE LossNoted'
    <2>1. \A o \in 1 .. Len(sold) : sold'[o].loss = sold[o].loss  BY <1>4, SalesStay
    <2>2. bot' = bot /\ UNCHANGED <<sells, cool>>  BY <1>4 DEF LegFills, ledger
    <2>3. seen'.died = seen.died  BY <1>4 DEF LegFills, BooksInv, Records, SeenFields
    <2>4. Faithful  BY <2>1, <2>2 DEF Faithful, CoveredThen
    <2>5. Noting  BY <2>2, <2>3 DEF Noting
    <2> QED BY <2>4, <2>5, NotedStep
  <1>5. ASSUME NEW me \in Procs, Unreadable(me)  PROVE LossNoted'
    <2>1. bot[me].at # "note"  BY <1>5 DEF Unreadable
    <2>2. \A p \in Procs \ {me} : bot'[p] = bot[p]  BY <1>5 DEF Unreadable, BooksInv, BotsOk
    <2>3. seen'.died = seen.died  BY <1>5 DEF Unreadable, BooksInv, Records, SeenFields
    <2> QED BY <1>5, <2>1, <2>2, <2>3, QuietStep DEF Unreadable, exchange, ledger
  <1>6. ASSUME NEW me \in Procs, Dies(me)  PROVE LossNoted'  BY <1>6, DeathRemembered
  <1>7. CASE UNCHANGED vars
    BY <1>7 DEF vars, exchange, ledger, LossNoted, At
  <1>8. Exit("scan") \/ Exit("panel") => LossNoted'  BY <1>0, <1>3
  <1> QED BY <1>1, <1>2, <1>4, <1>5, <1>6, <1>7, <1>8 DEF Next, Scan, Panel, Market

\* No losing sale gets into the ledger without stamping the re-entry cooldown,
\* whichever of the three booking paths takes it and whatever the scan and the
\* panel do at the same time, if no process dies.
THEOREM LossesNoted == Spec => []LossNoted
  <1>1. Init => LossNoted  BY DEF Init, LossNoted
  <1> QED BY <1>1, BooksAlways, LossNotedKept, PTL DEF Spec

-----------------------------------------------------------------------------
(* Every order is booked at what it sold                                    *)

\* What a process is doing where.
InPlace(b) ==
    \/ b.at \in {"ready", "bought", "boughtRow", "fetch", "leg", "trim", "fills"} /\ b.work = "drift"
    \/ b.at = "rest" /\ b = Rest
    \/ b.at \in {"order", "fix"} /\ b.work \in {"full", "backfill"}
    \/ b.at = "add" /\ b.work \in {"drift", "full"}
    \/ b.at = "note" /\ b.work \in {"drift", "full", "close"}
    \/ b.at \in {"event", "append"}
    \/ b.at \in {"close", "drop"} /\ b.work = "close"

\* The panel only looks for fills.
OnPanel(b) == b.at \in {"rest", "fills"} \/ b.work \in {"full", "backfill"}

\* One row an order and key; an order sold and booked by its seller is no leg's.
Legless(o) == \A l \in DOMAIN Legs : legs[l].order # o
Keyed ==
    /\ IsFiniteSet(sells)
    /\ \A s, t \in sells : s.order = t.order /\ s.key = t.key => s = t
    /\ \A s \in sells : s.key = "client" => Legless(s.order)

\* A process does what its work calls for, knows an order by its id, and has the
\* orders of the pass to book, those with sales on its side of the BUY row.
ProcOk(b) ==
    /\ InPlace(b)
    /\ b.gap \in Int /\ b.cap \in Int
    /\ b.work # "close" => b.key = "order"
    /\ b.work = "close" => Legless(b.order)
    /\ b.at = "fetch" => b.pass = 1
    /\ b.work = "drift" => b.todo \subseteq IF b.pass = 1 THEN Newer(b.fills) ELSE Older(b.fills)

\* What a process knows of order o as it was: nothing, or all its sales.
Read(b, o) ==
    LET f == b.fills[o]
    IN  /\ f.old = 0 \/ f.new = 0
        /\ f.old + f.new = SoldQty(o) \/ (b.work = "drift" /\ f.old + f.new = 0)
        /\ f.old <= sold[o].old

\* The order in hand, before and after its row is written.
InHand(b) == b.at \in {"note", "drop", "event", "append"} /\ b.work # "backfill"
Row(b) == [order |-> b.order, key |-> b.key, qty |-> b.qty]
HandOk(b) ==
    /\ \A o \in DOMAIN b.fills : Read(b, o)
    /\ b.at \in {"add", "close"} => b.qty = SoldQty(b.order)
    /\ InHand(b) => Row(b) \in sells

\* No order sells on both sides of the BUY row, each row has what was sold.
RowsExact ==
    /\ \A o \in Orders : sold[o].old = 0 \/ sold[o].new = 0
    /\ \A s \in sells : s.qty = SoldQty(s.order)

ExactInv ==
    /\ OnPanel(bot["panel"])
    /\ Keyed
    /\ \A p \in Procs : ProcOk(bot[p])
    /\ ~seen.torn => RowsExact /\ \A p \in Procs : HandOk(bot[p])

\* What was bought is held or sold, but for a purchase not yet recorded.
Unrecorded == IF At("scan", "bought") THEN Size ELSE 0
Balance == "bought" \notin seen.died => held + AllSold = bought + Unrecorded

-----------------------------------------------------------------------------
(* The gap                                                                  *)
Alone == bot["panel"] = Rest \/ bot["scan"] = Rest

GapOk(b) ==
    /\ b.work = "drift" /\ b.at \in {"fetch", "leg", "add"} => b.gap <= Net - b.ex /\ b.cap <= Net - b.ex
    /\ b.work = "drift" /\ b.at \in {"note", "event", "append"} =>
         b.gap - b.qty <= Net - b.ex /\ b.cap - b.qty <= Net - b.ex
    /\ b.at = "add" => Fits(b.qty, IF b.work = "drift" THEN b.gap ELSE Net)
    /\ b.at = "note" /\ b.work # "close" =>
         100 * ((IF b.work = "drift" THEN b.ex ELSE 0) - Net) <= 5 * b.qty
GapInv == ~seen.overlap => Alone /\ \A p \in Procs : GapOk(bot[p])

-----------------------------------------------------------------------------
(* The event log                                                            *)
Pending(p) == IF InHand(bot[p]) THEN bot[p].qty ELSE 0
Unlogged == IF At("scan", "boughtRow") THEN Size ELSE 0
LogOk(b) ==
    /\ b.work # "backfill"
    /\ InHand(b) => <<b.order, b.key>> \notin events
    /\ b.at = "close" => \A s \in sells : s.order # b.order
    /\ b.work = "full" => \A o \in b.todo : <<o, "order">> \notin events
Undisturbed == seen.died = {} /\ ~seen.overlap /\ Proper
Logged ==
    /\ shadow + Unlogged = Net + Pending("scan") + Pending("panel")
    /\ \A e \in events : \E s \in sells : e = <<s.order, s.key>>
    /\ \A s \in sells : \/ <<s.order, s.key>> \in events
                         \/ \E p \in Procs : InHand(bot[p]) /\ Row(bot[p]) = s
    /\ \A p \in Procs : LogOk(bot[p])
LogInv == Undisturbed => Logged

-----------------------------------------------------------------------------
(* Two rounds                                                               *)
Good == Proper /\ "bought" \notin seen.died
Rowless(o) == \A s \in sells : s.order # o
Drift(b) == b.work = "drift" /\ b.at \in {"fetch", "leg", "add", "note", "event", "append"}

\* In the loops over the orders: the gap is what the account says, the fills are
\* those of the orders not booked, and those still to book are at hand.
InLoop(b) == IF b.at \in {"note", "event", "append"} THEN b.qty ELSE 0
LoopGap(b) == b.ex = held /\ b.gap - InLoop(b) = Net - held /\ b.cap = b.gap
LoopPath(b) == (b.pre \/ row = 0) /\ (Good /\ seen.calm = 2 => b.pre)
LoopFills(b) ==
    /\ DOMAIN b.fills = Orders
    /\ \A o \in Orders : ~Booked(o) => b.fills[o] = sold[o]
LoopTodo(b) ==
    \A o \in Orders : Rowless(o) =>
        /\ b.pass = 1 /\ sold[o].new > 0 => o \in b.todo
        /\ b.pass # 1 => sold[o].new = 0
        /\ b.pass # 1 /\ sold[o].old > 0 => o \in b.todo
Looping(b) ==
    /\ LoopGap(b) /\ LoopPath(b)
    /\ b.at = "add" => ~Booked(b.order)
    /\ b.at # "fetch" => LoopFills(b) /\ (Good => LoopTodo(b))

Gap == Net + Unrecorded - held
Trimming(b) ==
    /\ b.ex = held
    /\ Good => ~Significant(Net - held, held) \/ (seen.calm = 1 /\ row = 0)
After ==
    Good => /\ seen.calm = 2 => ~Significant(Gap, held)
            /\ snap /\ held = 0 => Gap <= 0
RoundAt(b) == IF Drift(b) THEN Looping(b) ELSE IF b.at = "trim" THEN Trimming(b) ELSE After
RoundInv ==
    /\ seen.calm \in 0 .. 2
    /\ seen.calm > 0 => /\ bot["panel"] = Rest /\ bot["scan"].work # "close"
                       /\ RoundAt(bot["scan"])

-----------------------------------------------------------------------------
(* What is sold, and what is booked, as sums                                *)

Sq == [o \in Orders |-> SoldQty(o)]
Bq == [s \in sells |-> s.qty]

LEMMA OrdersFinite ==
    ASSUME BooksInv
    PROVE  /\ Orders = 1 .. Len(sold) /\ IsFiniteSet(Orders) /\ Len(sold) \in Nat
           /\ \A o \in Orders : sold[o] \in Fill /\ SoldQty(o) \in Nat /\ Sq[o] = SoldQty(o)
           /\ AllSold = SumFunctionOnSet(Sq, Orders)
           /\ AllSold \in Nat
  <1>1. sold \in Seq(Fill) /\ Len(sold) \in Nat  BY DEF BooksInv, Quantities
  <1>2. Orders = 1 .. Len(sold)  BY <1>1 DEF Orders
  <1>3. IsFiniteSet(Orders)  BY <1>1, <1>2, FS_Interval
  <1>4. \A o \in Orders : sold[o] \in Fill  BY <1>1, <1>2
  <1>5. \A o \in Orders : SoldQty(o) \in Nat  BY <1>4 DEF SoldQty, Fill
  <1>6. \A o \in Orders : Sq[o] = SoldQty(o)  BY DEF Sq
  <1>7. AllSold = SumFunctionOnSet(Sq, Orders)  BY DEF AllSold, SumFunction, Sq
  <1>8. \A o \in Orders : Sq[o] \in Nat  BY <1>5, <1>6
  <1>9. AllSold \in Nat  BY <1>3, <1>7, <1>8, SumNat
  <1> QED BY <1>1, <1>2, <1>3, <1>4, <1>5, <1>6, <1>7, <1>9

LEMMA RowsFinite ==
    ASSUME BooksInv, IsFiniteSet(sells)
    PROVE  /\ \A s \in sells : Bq[s] = s.qty /\ s.qty \in Nat /\ s.order \in Orders
           /\ AllBooked = SumFunctionOnSet(Bq, sells)
           /\ AllBooked \in Nat /\ bought \in Nat /\ held \in Nat /\ Net \in Int
           /\ Net = bought - AllBooked
  <1>1. \A s \in sells : Bq[s] = s.qty /\ s.qty \in Nat /\ s.order \in Orders
    BY OrdersFinite DEF Bq, BooksInv, Records, Sale
  <1>2. AllBooked = SumFunctionOnSet(Bq, sells)  BY DEF AllBooked, SumFunction, Bq
  <1>3. AllBooked \in Nat  BY <1>1, <1>2, SumNat
  <1>4. bought \in Nat /\ held \in Nat  BY DEF BooksInv, Quantities
  <1> QED BY <1>1, <1>2, <1>3, <1>4 DEF Net

\* The rows' orders, each with one row at the quantity sold, add up to what was
\* booked.
LEMMA BookedOnce ==
    ASSUME BooksInv, Keyed, RowsExact, ~Twice
    PROVE  AllBooked = SumFunctionOnSet(Sq, {s.order : s \in sells})
  <1> DEFINE Named(T) == {s.order : s \in T}
             G == {T \in SUBSET sells : SumFunctionOnSet(Bq, T) = SumFunctionOnSet(Sq, Named(T))}
  <1>1. IsFiniteSet(sells)  BY DEF Keyed
  <1>2. {} \in G
    <2>1. Named({}) = {}  OBVIOUS
    <2> QED BY <2>1, SumEmpty
  <1>3. ASSUME NEW T \in SUBSET sells, NEW x \in sells \ T, T \in G  PROVE T \cup {x} \in G
    <2>1. x.order \notin Named(T)
      <3> SUFFICES ASSUME NEW s \in T, s.order = x.order PROVE FALSE  OBVIOUS
      <3>1. s.key = x.key  BY DEF Twice
      <3> QED BY <3>1, <1>3 DEF Keyed
    <2>2. Named(T \cup {x}) = Named(T) \cup {x.order}  OBVIOUS
    <2>3. IsFiniteSet(T) /\ \A y \in T \cup {x} : Bq[y] \in Int
      BY <1>1, FS_Subset, RowsFinite
    <2>4. SumFunctionOnSet(Bq, T \cup {x}) = Bq[x] + SumFunctionOnSet(Bq, T)
      BY <2>3, <1>3, SumAdd
    <2>5. \A y \in Named(T) \cup {x.order} : y \in Orders /\ Sq[y] \in Int
      BY <1>1, RowsFinite, OrdersFinite
    <2>6. IsFiniteSet(Named(T))
      <3>1. Named(T) \subseteq Orders  BY <2>5
      <3> HIDE DEF Named
      <3> QED BY <3>1, OrdersFinite, FS_Subset
    <2> DEFINE N == Named(T)
               o == x.order
    <2>7. SumFunctionOnSet(Sq, N \cup {o}) = Sq[o] + SumFunctionOnSet(Sq, N)
      <3>1. IsFiniteSet(N) /\ o \notin N /\ \A y \in N \cup {o} : Sq[y] \in Int
        BY <2>1, <2>5, <2>6
      <3> HIDE DEF N, o
      <3> QED BY <3>1, SumAdd
    <2>8. Bq[x] = Sq[x.order]  BY <1>1, <1>3, RowsFinite, OrdersFinite DEF RowsExact
    <2>9. SumFunctionOnSet(Bq, T) = SumFunctionOnSet(Sq, N)  BY <1>3
    <2>10. SumFunctionOnSet(Bq, T \cup {x}) = SumFunctionOnSet(Sq, N \cup {o})
      <3> HIDE DEF N, Named
      <3> QED BY <2>4, <2>7, <2>8, <2>9
    <2> QED BY <2>2, <2>10
  <1>4. sells \in G
    <2> HIDE DEF G
    <2> QED BY <1>1, <1>2, <1>3, FiniteInduction
  <1>5. AllBooked = SumFunctionOnSet(Bq, sells)  BY <1>1, RowsFinite
  <1> QED BY <1>4, <1>5

\* So the ledger has no more than was sold, an order without a row is missing
\* from it as a whole, and if there is none, nothing is missing.
LEMMA LedgerSplits ==
    ASSUME BooksInv, Keyed, RowsExact, ~Twice
    PROVE  /\ AllBooked <= AllSold
           /\ \A o \in Orders : (\A s \in sells : s.order # o) => SoldQty(o) <= AllSold - AllBooked
           /\ (\A o \in Orders : (\A s \in sells : s.order # o) => SoldQty(o) = 0)
                => AllBooked = AllSold
  <1> DEFINE N == {s.order : s \in sells}
             R == Orders \ N
  <1>1. IsFiniteSet(sells)  BY DEF Keyed
  <1>2. N \subseteq Orders  BY <1>1, RowsFinite
  <1>3. IsFiniteSet(N) /\ IsFiniteSet(R) /\ N \cap R = {} /\ N \cup R = Orders
    <2>1. R \subseteq Orders /\ N \cap R = {} /\ N \cup R = Orders  BY <1>2
    <2> HIDE DEF N, R
    <2> QED BY <1>2, <2>1, OrdersFinite, FS_Subset
  <1>4. \A o \in Orders : Sq[o] \in Nat /\ Sq[o] = SoldQty(o)  BY OrdersFinite
  <1>5. SumFunctionOnSet(Sq, N \cup R) = SumFunctionOnSet(Sq, N) + SumFunctionOnSet(Sq, R)
    <2>1. \A o \in N \cup R : Sq[o] \in Int  BY <1>3, <1>4
    <2> HIDE DEF N, R
    <2> QED BY <2>1, <1>3, SumUnion
  <1>6. AllBooked = SumFunctionOnSet(Sq, N)  BY BookedOnce
  <1>7. AllSold = SumFunctionOnSet(Sq, Orders)  BY OrdersFinite
  <1>8. \A o \in R : Sq[o] \in Nat  BY <1>4
  <1>9. SumFunctionOnSet(Sq, R) \in Nat
    <2> HIDE DEF N, R
    <2> QED BY <1>3, <1>8, SumNat
  <1>10. AllSold = AllBooked + SumFunctionOnSet(Sq, R)
    <2> HIDE DEF N, R
    <2>1. AllSold = SumFunctionOnSet(Sq, N) + SumFunctionOnSet(Sq, R)  BY <1>3, <1>5, <1>7, Zenon
    <2> QED BY <1>6, <2>1
  <1>11. \A o \in R : Sq[o] <= SumFunctionOnSet(Sq, R)
    <2> HIDE DEF N, R
    <2> QED BY <1>3, <1>8, SumMember
  <1>12. (\A o \in R : Sq[o] = 0) => SumFunctionOnSet(Sq, R) = 0
    <2> HIDE DEF N, R
    <2> QED BY <1>3, <1>8, SumZero
  <1>13. AllBooked \in Nat  BY <1>1, RowsFinite
  <1>14. \A o \in Orders : (\A s \in sells : s.order # o) <=> o \in R  OBVIOUS
  <1>15. AllBooked <= AllSold
    <2> HIDE DEF R
    <2> QED BY <1>9, <1>10, <1>13
  <1>16. ASSUME NEW o \in Orders, \A s \in sells : s.order # o
         PROVE  SoldQty(o) <= AllSold - AllBooked
    <2>1. o \in R  BY <1>14, <1>16
    <2> HIDE DEF R
    <2>2. Sq[o] <= SumFunctionOnSet(Sq, R) /\ Sq[o] = SoldQty(o) /\ Sq[o] \in Nat
      BY <2>1, <1>4, <1>11
    <2> QED BY <2>2, <1>9, <1>10, <1>13
  <1>17. ASSUME \A o \in Orders : (\A s \in sells : s.order # o) => SoldQty(o) = 0
         PROVE  AllBooked = AllSold
    <2>1. \A o \in R : Sq[o] = 0  BY <1>4, <1>14, <1>17
    <2> HIDE DEF R
    <2>2. SumFunctionOnSet(Sq, R) = 0  BY <1>12, <2>1
    <2> QED BY <2>2, <1>10, <1>13
  <1> QED BY <1>15, <1>16, <1>17

-----------------------------------------------------------------------------
(* How a step changes them                                                  *)

LEMMA SameSold ==
    ASSUME BooksInv, BooksInv', DOMAIN sold' = DOMAIN sold,
           \A o \in Orders : SoldQty(o)' = SoldQty(o)
    PROVE  AllSold' = AllSold
  <1>1. Orders' = Orders  BY DEF Orders
  <1>2. PICK f, g : f = Sq /\ g = Sq'  OBVIOUS
  <1>3. AllSold = SumFunctionOnSet(f, Orders)  BY <1>2, OrdersFinite
  <1>4. AllSold' = SumFunctionOnSet(g, Orders)
    <2>1. (AllSold = SumFunctionOnSet(Sq, Orders))'  BY OrdersFinite, PTL
    <2> QED BY <2>1, <1>1, <1>2
  <1>5. \A o \in Orders : f[o] = SoldQty(o) /\ f[o] \in Int  BY <1>2, OrdersFinite
  <1>6. \A o \in Orders : g[o] = f[o]
    <2> TAKE o \in Orders
    <2>1. g[o] = SoldQty(o)'  BY <1>1, <1>2 DEF Sq
    <2> QED BY <2>1, <1>5
  <1>7. SumFunctionOnSet(f, Orders) = SumFunctionOnSet(g, Orders)
    BY <1>5, <1>6, OrdersFinite, SumAgree
  <1> QED BY <1>3, <1>4, <1>7

LEMMA MoreSold ==
    ASSUME BooksInv, BooksInv', NEW o \in Orders, NEW q \in Int, DOMAIN sold' = DOMAIN sold,
           SoldQty(o)' = SoldQty(o) + q, \A p \in Orders \ {o} : SoldQty(p)' = SoldQty(p)
    PROVE  AllSold' = AllSold + q
  <1>1. Orders' = Orders  BY DEF Orders
  <1>2. PICK f, g : f = Sq /\ g = Sq'  OBVIOUS
  <1>3. AllSold = SumFunctionOnSet(f, Orders)  BY <1>2, OrdersFinite
  <1>4. AllSold' = SumFunctionOnSet(g, Orders)
    <2>1. (AllSold = SumFunctionOnSet(Sq, Orders))'  BY OrdersFinite, PTL
    <2> QED BY <2>1, <1>1, <1>2
  <1>5. \A p \in Orders : f[p] = SoldQty(p) /\ f[p] \in Int  BY <1>2, OrdersFinite
  <1>6. \A p \in Orders : g[p] = SoldQty(p)'  BY <1>1, <1>2 DEF Sq
  <1>7. g[o] = f[o] + q /\ \A p \in Orders \ {o} : g[p] = f[p]  BY <1>5, <1>6
  <1>8. \A p \in Orders : g[p] \in Int  BY <1>5, <1>7
  <1>9. SumFunctionOnSet(g, Orders) = SumFunctionOnSet(f, Orders) + (g[o] - f[o])
    <2>1. IsFiniteSet(Orders) /\ \A p \in Orders : f[p] \in Int /\ g[p] \in Int
      BY <1>5, <1>8, OrdersFinite
    <2> QED BY <1>7, <2>1, SumChange
  <1>10. f[o] \in Int /\ g[o] - f[o] = q  BY <1>5, <1>7
  <1> QED BY <1>3, <1>4, <1>9, <1>10

LEMMA OneMoreSold ==
    ASSUME BooksInv, BooksInv', NEW f \in Fill, sold' = Append(sold, f)
    PROVE  /\ AllSold' = AllSold + (f.old + f.new)
           /\ Orders' = Orders \cup {Len(sold) + 1} /\ Len(sold) + 1 \notin Orders
           /\ \A o \in Orders : sold'[o] = sold[o] /\ SoldQty(o)' = SoldQty(o)
           /\ sold'[Len(sold) + 1] = f
  <1> DEFINE n == Len(sold) + 1
  <1>1. sold \in Seq(Fill) /\ Orders = 1 .. Len(sold) /\ Len(sold) \in Nat
    BY OrdersFinite DEF BooksInv, Quantities
  <1>2. Orders' = 1 .. Len(sold')  BY <1>1 DEF Orders
  <1>3. /\ Orders' = Orders \cup {n} /\ n \notin Orders
        /\ \A o \in Orders : sold'[o] = sold[o]
        /\ sold'[n] = f
    BY <1>1, <1>2
  <1>4. \A o \in Orders : SoldQty(o)' = SoldQty(o)  BY <1>3 DEF SoldQty
  <1>5. PICK g, h : g = Sq /\ h = Sq'  OBVIOUS
  <1>6. AllSold = SumFunctionOnSet(g, Orders)  BY <1>5, OrdersFinite
  <1>7. AllSold' = SumFunctionOnSet(h, Orders \cup {n})
    <2>1. (AllSold = SumFunctionOnSet(Sq, Orders))'  BY OrdersFinite, PTL
    <2> QED BY <2>1, <1>3, <1>5
  <1>8. \A o \in Orders : g[o] \in Int /\ h[o] = g[o]
    <2> TAKE o \in Orders
    <2>1. g[o] = SoldQty(o) /\ SoldQty(o) \in Nat  BY <1>5, OrdersFinite
    <2>2. h[o] = SoldQty(o)'  BY <1>3, <1>5 DEF Sq
    <2> QED BY <1>4, <2>1, <2>2
  <1>9. h[n] = f.old + f.new /\ h[n] \in Int
    <2>1. h = [o \in Orders' |-> sold'[o].old + sold'[o].new]  BY <1>5 DEF Sq, SoldQty
    <2>2. n \in Orders' /\ sold'[n] = f  BY <1>3
    <2> HIDE DEF n
    <2>3. h[n] = f.old + f.new  BY <2>1, <2>2
    <2> QED BY <2>3 DEF Fill
  <1> HIDE DEF n
  <1>10. SumFunctionOnSet(h, Orders \cup {n}) = h[n] + SumFunctionOnSet(h, Orders)
    <2>1. IsFiniteSet(Orders) /\ \A o \in Orders \cup {n} : h[o] \in Int  BY <1>8, <1>9, OrdersFinite
    <2> QED BY <1>3, <2>1, SumAdd
  <1>11. SumFunctionOnSet(g, Orders) = SumFunctionOnSet(h, Orders)
    BY <1>8, OrdersFinite, SumAgree
  <1>12. AllSold \in Int  BY OrdersFinite
  <1>13. AllSold' = AllSold + (f.old + f.new)  BY <1>6, <1>7, <1>9, <1>10, <1>11, <1>12
  <1> QED BY <1>3, <1>4, <1>13 DEF n

LEMMA OneMoreBooked ==
    ASSUME BooksInv, BooksInv', IsFiniteSet(sells), NEW r, r \notin sells, sells' = sells \cup {r}
    PROVE  IsFiniteSet(sells') /\ AllBooked' = AllBooked + r.qty /\ r.qty \in Nat
  <1>1. IsFiniteSet(sells)'
    <2>1. IsFiniteSet(sells \cup {r})  BY FS_AddElement
    <2> QED BY <2>1
  <1>2. PICK g, h : g = Bq /\ h = Bq'  OBVIOUS
  <1>3. AllBooked = SumFunctionOnSet(g, sells) /\ \A s \in sells : g[s] = s.qty /\ g[s] \in Int
    BY <1>2, RowsFinite
  <1>4. /\ AllBooked' = SumFunctionOnSet(h, sells \cup {r})
        /\ \A s \in sells \cup {r} : h[s] = s.qty /\ h[s] \in Nat
    <2>1. /\ (AllBooked = SumFunctionOnSet(Bq, sells))'
          /\ (\A s \in sells : Bq[s] = s.qty /\ s.qty \in Nat /\ s.order \in Orders)'
      BY <1>1, RowsFinite, PTL
    <2> QED BY <1>1, <1>2, <2>1
  <1>5. SumFunctionOnSet(h, sells \cup {r}) = h[r] + SumFunctionOnSet(h, sells)
    BY <1>4, SumAdd
  <1>6. SumFunctionOnSet(g, sells) = SumFunctionOnSet(h, sells)
    <2>1. \A s \in sells : g[s] \in Int /\ h[s] = g[s]  BY <1>3, <1>4
    <2> QED BY <2>1, SumAgree
  <1>7. AllBooked \in Int  BY RowsFinite
  <1> QED BY <1>1, <1>3, <1>4, <1>5, <1>6, <1>7

-----------------------------------------------------------------------------
(* A process moves on                                                       *)

\* It changes no sale and no row, and is where its work has it.
LEMMA ExactMoves ==
    ASSUME BooksInv, BooksInv', ExactInv, NEW me \in Procs, NEW c,
           bot' = [bot EXCEPT ![me] = c], UNCHANGED <<sold, sells>>,
           \A l \in DOMAIN Legs : legs'[l].order \in {0, legs[l].order},
           me = "panel" => OnPanel(c),
           ProcOk(c), ~seen'.torn => ~seen.torn /\ HandOk(c)
    PROVE  ExactInv'
  <1>0. /\ bot'[me] = c /\ \A p \in Procs \ {me} : bot'[p] = bot[p]
        /\ DOMAIN bot = Procs /\ me \in Procs /\ "panel" \in Procs
    BY DEF BooksInv, BotsOk, Procs
  <1>1. \A p \in Procs : BotOk(bot'[p], Len(sold)) /\ BotOk(bot[p], Len(sold))
    BY DEF BooksInv, BotsOk
  <1>2. ASSUME NEW o \in Nat \ {0}, Legless(o)  PROVE Legless(o)'
    BY <1>2 DEF Legless
  <1>3. OnPanel(bot["panel"])'
    <2>1. CASE me = "panel"  BY <2>1, <1>0 DEF OnPanel
    <2>2. CASE me # "panel"  BY <2>2, <1>0 DEF OnPanel, ExactInv
    <2> QED BY <2>1, <2>2
  <1>4. Keyed'
    <2>1. ASSUME NEW s \in sells, s.key = "client"  PROVE Legless(s.order)'
      <3>1. s.order \in Nat \ {0}  BY DEF BooksInv, Records, Sale
      <3>2. Legless(s.order)  BY <2>1 DEF ExactInv, Keyed
      <3> QED BY <1>2, <3>1, <3>2
    <2> QED BY <2>1 DEF ExactInv, Keyed
  <1>5. ASSUME NEW b, BotOk(b, Len(sold)), ProcOk(b)  PROVE ProcOk(b)'
    <2>1. ASSUME b.work = "close"  PROVE Legless(b.order)'
      <3>1. b.at \in Busy  BY <1>5, <2>1 DEF ProcOk, InPlace, Busy, Rest
      <3>2. b.order \in Nat \ {0}
        <4>1. Len(sold) \in Nat  BY DEF BooksInv, Quantities
        <4> QED BY <4>1, <3>1, <1>5 DEF BotOk
      <3> QED BY <1>2, <1>5, <2>1, <3>2 DEF ProcOk
    <2> QED BY <2>1, <1>5 DEF ProcOk
  <1>6. ASSUME NEW p \in Procs  PROVE ProcOk(bot[p])'
    <2>1. ProcOk(bot'[p])
      <3>1. CASE p = me  BY <3>1, <1>0
      <3>2. CASE p # me  BY <3>2, <1>0 DEF ExactInv
      <3> QED BY <3>1, <3>2
    <2>2. PICK b : b = bot'[p]  OBVIOUS
    <2>3. ProcOk(b)'  BY <2>1, <2>2, <1>1, <1>5
    <2> QED BY <2>2, <2>3 DEF ProcOk
  <1>7. ASSUME ~seen'.torn  PROVE RowsExact' /\ \A p \in Procs : HandOk(bot[p])'
    <2>1. RowsExact'  BY <1>7 DEF ExactInv, RowsExact, SoldQty, Orders
    <2>2. ASSUME NEW p \in Procs  PROVE HandOk(bot[p])'
      <3>1. HandOk(bot'[p])
        <4>1. CASE p = me  BY <4>1, <1>0, <1>7
        <4>2. CASE p # me  BY <4>2, <1>0, <1>7 DEF ExactInv
        <4> QED BY <4>1, <4>2
      <3> QED BY <3>1 DEF HandOk, Read, SoldQty
    <2> QED BY <2>1, <2>2
  <1> QED BY <1>3, <1>4, <1>6, <1>7 DEF ExactInv

\* It has nothing in hand.
LEMMA IdleOk ==
    ASSUME NEW a \in {"ready", "fills", "trim", "rest"}
    PROVE  ProcOk([Rest EXCEPT !.at = a]) /\ HandOk([Rest EXCEPT !.at = a])
  <1> DEFINE b == [Rest EXCEPT !.at = a]
  <1>1. /\ b.at = a /\ b.work = "drift" /\ b.gap = 0 /\ b.cap = 0 /\ b.key = "order"
        /\ b.todo = {} /\ b.fills = <<>> /\ DOMAIN b.fills = {}
        /\ a = "rest" => b = Rest
    BY DEF Rest
  <1> HIDE DEF b
  <1>2. ProcOk(b)  BY <1>1 DEF ProcOk, InPlace
  <1>3. HandOk(b)  BY <1>1 DEF HandOk, InHand
  <1> QED BY <1>2, <1>3 DEF b

\* It goes to its next place, with what it has.
LEMMA GoneOk ==
    ASSUME NEW b, NEW a, DOMAIN b = BotFields, ProcOk(b), a \notin {"add", "close"},
           InPlace([b EXCEPT !.at = a]), HandOk(b),
           InHand([b EXCEPT !.at = a]) => Row(b) \in sells
    PROVE  HandOk([b EXCEPT !.at = a])
  <1> DEFINE c == [b EXCEPT !.at = a]
  <1>1. /\ c.at = a /\ c.work = b.work /\ c.gap = b.gap /\ c.cap = b.cap /\ c.key = b.key
        /\ c.todo = b.todo /\ c.fills = b.fills /\ c.order = b.order /\ c.qty = b.qty
        /\ c.pass = b.pass
    BY DEF BotFields
  <1> HIDE DEF c
  <1>2. Row(c) = Row(b)  BY <1>1 DEF Row
  <1>3. InHand(c) => Row(c) \in sells  BY <1>2 DEF c
  <1>4. HandOk(c)  BY <1>1, <1>3 DEF HandOk, Read
  <1> QED BY <1>4 DEF c

LEMMA GonePlaced ==
    ASSUME NEW b, NEW a, a # "fetch", DOMAIN b = BotFields, ProcOk(b),
           InPlace([b EXCEPT !.at = a])
    PROVE  ProcOk([b EXCEPT !.at = a])
  <1> DEFINE c == [b EXCEPT !.at = a]
  <1>1. /\ c.work = b.work /\ c.gap = b.gap /\ c.cap = b.cap /\ c.key = b.key
        /\ c.todo = b.todo /\ c.fills = b.fills /\ c.order = b.order /\ c.pass = b.pass /\ c.at = a
    BY DEF BotFields
  <1> HIDE DEF c
  <1>2. ProcOk(c)  BY <1>1 DEF ProcOk, c
  <1> QED BY <1>2 DEF c

\* It is done with an order.
LEMMA NextOk ==
    ASSUME NEW b, NEW counted \in BOOLEAN, NEW n \in Nat, BotOk(b, n), ProcOk(b)
    PROVE  /\ ProcOk(Next1(b, counted))
           /\ HandOk(b) => HandOk(Next1(b, counted))
           /\ b.work \in {"full", "backfill"} => OnPanel(Next1(b, counted))
  <1> DEFINE c == Next1(b, counted)
             d == [b EXCEPT !.todo = @ \ {b.order}, !.order = 0, !.qty = 0]
  <1>1. CASE b.work = "close"
    <2>1. c = [Rest EXCEPT !.at = "ready"]  BY <1>1 DEF Next1
    <2> HIDE DEF c
    <2>2. ProcOk(c) /\ HandOk(c)  BY <2>1, IdleOk
    <2> QED BY <2>2, <1>1 DEF c
  <1>2. CASE b.work = "drift"
    <2>0. DOMAIN d = BotFields /\ DOMAIN b = BotFields  BY DEF BotOk
    <2>1. c = [d EXCEPT !.at = "leg", !.gap = d.gap - b.qty,
                        !.cap = IF counted THEN d.cap - b.qty ELSE d.cap]
      <3> HIDE DEF c
      <3>1. c = [d EXCEPT !.at = "leg", !.gap = @ - b.qty, !.cap = IF counted THEN @ - b.qty ELSE @]
        BY <1>2 DEF Next1, c, d
      <3> HIDE DEF d
      <3> QED BY <3>1, <2>0 DEF BotFields
    <2>2. /\ d.gap = b.gap /\ d.cap = b.cap /\ d.work = b.work /\ d.key = b.key /\ d.pass = b.pass
          /\ d.fills = b.fills /\ d.todo = b.todo \ {b.order}
      BY <2>0 DEF BotFields
    <2> HIDE DEF d
    <2>3. PICK x, y : x = d.gap - b.qty /\ y = (IF counted THEN d.cap - b.qty ELSE d.cap)
      OBVIOUS
    <2>4. c = [d EXCEPT !.at = "leg", !.gap = x, !.cap = y]  BY <2>1, <2>3
    <2> HIDE DEF c
    <2>5. /\ c.at = "leg" /\ c.gap = x /\ c.cap = y /\ c.work = "drift" /\ c.key = b.key
          /\ c.pass = b.pass /\ c.fills = b.fills /\ c.todo = b.todo \ {b.order}
      BY <2>4, <2>2, <2>0, <1>2 DEF BotFields
    <2>6. x \in Int /\ y \in Int
      <3>1. b.gap \in Int /\ b.cap \in Int /\ b.qty \in Nat  BY DEF ProcOk, BotOk
      <3> QED BY <3>1, <2>2, <2>3
    <2>7. ProcOk(c)  BY <2>5, <2>6, <1>2 DEF ProcOk, InPlace
    <2>8. HandOk(b) => HandOk(c)  BY <2>5, <1>2 DEF HandOk, Read, InHand
    <2> QED BY <2>7, <2>8, <1>2 DEF c
  <1>3. CASE b.work \in {"full", "backfill"}
    <2>0. DOMAIN b = BotFields  BY DEF BotOk
    <2>1. PICK a \in {"fix", "order"} : c = [d EXCEPT !.at = a]
      BY <1>3 DEF Next1, c, d
    <2>2. /\ d.gap = b.gap /\ d.cap = b.cap /\ d.work = b.work /\ d.key = b.key
          /\ d.fills = b.fills /\ DOMAIN d = BotFields
      BY <2>0 DEF BotFields
    <2> HIDE DEF d, c
    <2>3. /\ c.at = a /\ c.gap = b.gap /\ c.cap = b.cap /\ c.work = b.work /\ c.key = b.key
          /\ c.fills = b.fills
      BY <2>1, <2>2 DEF BotFields
    <2>4. ProcOk(c)  BY <2>3, <1>3 DEF ProcOk, InPlace
    <2>5. HandOk(b) => HandOk(c)  BY <2>3, <1>3 DEF HandOk, Read, InHand
    <2>6. OnPanel(c)  BY <2>3, <1>3 DEF OnPanel
    <2> QED BY <2>4, <2>5, <2>6 DEF c
  <1> QED BY <1>1, <1>2, <1>3 DEF BotOk, Work

-----------------------------------------------------------------------------
(* The steps that book and sell nothing                                     *)

\* Where no torn order is known, orders, rows and what processes know agree.
LEMMA KnownOk ==
    ASSUME BooksInv, ExactInv, NEW p \in Procs
    PROVE  /\ BotOk(bot[p], Len(sold)) /\ ProcOk(bot[p]) /\ DOMAIN bot[p] = BotFields
           /\ ~seen.torn => RowsExact /\ HandOk(bot[p])
           /\ DOMAIN bot = Procs /\ Len(sold) \in Nat
  BY DEF ExactInv, BooksInv, BotsOk, BotOk, Quantities

LEMMA CheckEventExact ==
    ASSUME NEW me \in Procs, BooksInv, BooksInv', ExactInv, CheckEvent(me)
    PROVE  ExactInv'
  <1> DEFINE b == bot[me]
  <1>1. /\ b.at = "event" /\ UNCHANGED <<sold, sells, legs, seen>>
        /\ BotOk(b, Len(sold)) /\ ProcOk(b) /\ (~seen.torn => HandOk(b)) /\ Len(sold) \in Nat
        /\ DOMAIN b = BotFields
    BY KnownOk DEF CheckEvent, At, exchange, ledger, Calm
  <1>2. PICK c : /\ c \in {Next1(b, b.work # "backfill"), [b EXCEPT !.at = "append"]}
                 /\ bot' = [bot EXCEPT ![me] = c]
    BY DEF CheckEvent
  <1>3. me = "panel" => b.work \in {"full", "backfill"}  BY <1>1 DEF ExactInv, OnPanel
  <1>4. ProcOk(c) /\ (~seen'.torn => ~seen.torn /\ HandOk(c)) /\ (me = "panel" => OnPanel(c))
    <2>1. CASE c = Next1(b, b.work # "backfill")
      BY <1>1, <1>3, <2>1, NextOk
    <2>2. CASE c = [b EXCEPT !.at = "append"]
      <3>1. InPlace(c) /\ c.work = b.work  BY <2>2, <1>1 DEF InPlace, BotFields
      <3>2. ProcOk(c)  BY <2>2, <3>1, <1>1, GonePlaced
      <3>3. InHand(c) => InHand(b)  BY <2>2, <3>1, <1>1 DEF InHand, BotFields
      <3>4. ~seen.torn => HandOk(c)
        <4> SUFFICES ASSUME ~seen.torn PROVE HandOk(c)  OBVIOUS
        <4>1. HandOk(b) /\ (InHand(c) => Row(b) \in sells)  BY <1>1, <3>3 DEF HandOk
        <4> QED BY <2>2, <3>1, <4>1, <1>1, GoneOk
      <3> QED BY <3>1, <3>2, <3>4, <1>1, <1>3 DEF OnPanel
    <2> QED BY <2>1, <2>2, <1>2
  <1>5. \A l \in DOMAIN Legs : legs'[l].order \in {0, legs[l].order}  BY <1>1
  <1> HIDE DEF b
  <1> QED BY <1>1, <1>2, <1>4, <1>5, ExactMoves

LEMMA AppendEventExact ==
    ASSUME NEW me \in Procs, BooksInv, BooksInv', ExactInv, AppendEvent(me)
    PROVE  ExactInv'
  <1> DEFINE b == bot[me]
             c == Next1(b, TRUE)
  <1>1. /\ b.at = "append" /\ UNCHANGED <<sold, sells, legs, seen>>
        /\ BotOk(b, Len(sold)) /\ ProcOk(b) /\ (~seen.torn => HandOk(b)) /\ Len(sold) \in Nat
        /\ bot' = [bot EXCEPT ![me] = c]
    BY KnownOk DEF AppendEvent, At, exchange, ledger, Calm
  <1>2. me = "panel" => b.work \in {"full", "backfill"}  BY <1>1 DEF ExactInv, OnPanel
  <1> HIDE DEF b
  <1>3. ProcOk(c) /\ (~seen'.torn => ~seen.torn /\ HandOk(c)) /\ (me = "panel" => OnPanel(c))
    BY <1>1, <1>2, NextOk
  <1>4. \A l \in DOMAIN Legs : legs'[l].order \in {0, legs[l].order}  BY <1>1
  <1> HIDE DEF c
  <1> QED BY <1>1, <1>3, <1>4, ExactMoves

LEMMA NoteLossExact ==
    ASSUME NEW me \in Procs, BooksInv, BooksInv', ExactInv, NoteLoss(me)
    PROVE  ExactInv'
  <1> DEFINE b == bot[me]
             a == IF b.work = "close" THEN "drop" ELSE "event"
             c == [b EXCEPT !.at = a]
  <1>1. /\ b.at = "note" /\ UNCHANGED <<sold, sells, legs, seen>>
        /\ BotOk(b, Len(sold)) /\ ProcOk(b) /\ (~seen.torn => HandOk(b)) /\ Len(sold) \in Nat
        /\ bot' = [bot EXCEPT ![me] = c] /\ DOMAIN b = BotFields
    BY KnownOk DEF NoteLoss, At, exchange, ledger, Calm, Go
  <1>2. me = "panel" => b.work \in {"full", "backfill"}  BY <1>1 DEF ExactInv, OnPanel
  <1>3. b.work # "backfill"  BY <1>1 DEF ProcOk, InPlace, Rest
  <1> HIDE DEF b
  <1>4. InPlace(c) /\ c.work = b.work  BY <1>1 DEF InPlace, BotFields
  <1>5. ProcOk(c)  BY <1>1, <1>4, GonePlaced
  <1>6. ASSUME ~seen.torn  PROVE HandOk(c)
    <2>1. HandOk(b) /\ Row(b) \in sells  BY <1>1, <1>3, <1>6 DEF HandOk, InHand
    <2> QED BY <1>1, <1>4, <2>1, GoneOk
  <1>7. me = "panel" => OnPanel(c)  BY <1>2, <1>4 DEF OnPanel
  <1>8. \A l \in DOMAIN Legs : legs'[l].order \in {0, legs[l].order}  BY <1>1
  <1> HIDE DEF c
  <1> QED BY <1>1, <1>5, <1>6, <1>7, <1>8, ExactMoves

LEMMA CompareExact ==
    ASSUME NEW me \in Procs, BooksInv, BooksInv', ExactInv, Compare(me)
    PROVE  ExactInv'
  <1>1. IsFiniteSet(sells)  BY DEF ExactInv, Keyed
  <1>2. /\ me = "scan" /\ UNCHANGED <<sold, sells, legs>> /\ seen'.torn = seen.torn
        /\ SeenFields = DOMAIN seen
    BY DEF Compare, exchange, ledger, BooksInv, Records, SeenFields
  <1>3. ASSUME NEW a \in {"fetch", "trim"}, NEW g \in Int, NEW x, NEW m, NEW e
        PROVE  LET c == [Rest EXCEPT !.at = a, !.ex = x, !.gap = g, !.cap = g, !.main = m, !.pre = e]
               IN  ProcOk(c) /\ HandOk(c)
    BY DEF ProcOk, HandOk, InHand, InPlace, Rest
  <1>4. PICK c : bot' = [bot EXCEPT ![me] = c] /\ ProcOk(c) /\ HandOk(c)
    <2> DEFINE gap == Net - held
               main == row > 0 /\ Significant(gap, held)
               pathB == row = 0 /\ snap /\ held = 0 /\ Net > 0
               pathC == ~main /\ ~pathB /\ Net > 0 /\ Significant(gap, held)
               a == IF main \/ pathB \/ pathC THEN "fetch" ELSE "trim"
               c == [Rest EXCEPT !.at = a, !.ex = held, !.gap = gap, !.cap = gap,
                                 !.main = main, !.pre = main \/ pathC]
    <2>1. bot' = [bot EXCEPT ![me] = c]  BY DEF Compare
    <2>2. a \in {"fetch", "trim"}  OBVIOUS
    <2>3. gap \in Int  BY <1>1, RowsFinite
    <2>4. ProcOk(c) /\ HandOk(c)
      <3> HIDE DEF a, main, pathC, gap
      <3> QED BY <1>3, <2>2, <2>3
    <2> HIDE DEF c
    <2> QED BY <2>1, <2>4
  <1>5. \A l \in DOMAIN Legs : legs'[l].order \in {0, legs[l].order}  BY <1>2
  <1> QED BY <1>2, <1>4, <1>5, ExactMoves DEF Procs

LEMMA FetchExact ==
    ASSUME NEW me \in Procs, BooksInv, BooksInv', ExactInv, Fetch(me)
    PROVE  ExactInv'
  <1> DEFINE b == bot[me]
             u == Unbooked
             t == Newer(u)
             c == [b EXCEPT !.at = "leg", !.fills = u, !.todo = t]
  <1>1. /\ b.at = "fetch" /\ UNCHANGED <<sold, sells, legs, seen>>
        /\ BotOk(b, Len(sold)) /\ ProcOk(b) /\ (~seen.torn => RowsExact) /\ DOMAIN b = BotFields
        /\ bot' = [bot EXCEPT ![me] = c]
    BY KnownOk DEF Fetch, At, exchange, ledger, Calm
  <1>2. b.work = "drift"  BY <1>1 DEF ProcOk, InPlace, Rest
  <1>3. me # "panel"  BY <1>1, <1>2 DEF ExactInv, OnPanel
  <1>4. c = [b EXCEPT !.at = "leg", !.fills = u, !.todo = t]  OBVIOUS
  <1>5. DOMAIN u = Orders  BY DEF Unbooked
  <1>6. ASSUME ~seen.torn, NEW o \in Orders
        PROVE  /\ u[o].old = 0 \/ u[o].new = 0
               /\ u[o].old + u[o].new = SoldQty(o) \/ u[o].old + u[o].new = 0
               /\ u[o].old <= sold[o].old
    <2>1. sold[o] \in Fill  BY OrdersFinite
    <2>2. u[o] = IF Booked(o) THEN [sold[o] EXCEPT !.old = 0, !.new = 0] ELSE sold[o]
      BY Zenon DEF Unbooked
    <2>3. sold[o].old = 0 \/ sold[o].new = 0  BY <1>1, <1>6 DEF RowsExact
    <2>4. CASE Booked(o)
      <3>1. u[o].old = 0 /\ u[o].new = 0  BY <2>1, <2>2, <2>4 DEF Fill
      <3> QED BY <3>1, <2>1 DEF Fill
    <2>5. CASE ~Booked(o)
      <3>1. u[o] = sold[o]  BY <2>2, <2>5
      <3> QED BY <3>1, <2>1, <2>3 DEF Fill, SoldQty
    <2> QED BY <2>4, <2>5
  <1> HIDE DEF u, c, b
  <1>7. /\ c.at = "leg" /\ c.work = "drift" /\ c.gap = b.gap /\ c.cap = b.cap /\ c.key = b.key
        /\ c.pass = b.pass /\ c.fills = u /\ c.todo = t
    BY <1>1, <1>2, <1>4 DEF BotFields
  <1>8. ProcOk(c)  BY <1>1, <1>2, <1>7 DEF ProcOk, InPlace
  <1>9. ~seen.torn => HandOk(c)  BY <1>5, <1>6, <1>7 DEF HandOk, Read, InHand
  <1>10. \A l \in DOMAIN Legs : legs'[l].order \in {0, legs[l].order}  BY <1>1
  <1> QED BY <1>1, <1>3, <1>8, <1>9, <1>10, ExactMoves

LEMMA NextPassExact ==
    ASSUME NEW b, DOMAIN b = BotFields, ProcOk(b), b.at = "leg"
    PROVE  ProcOk(NextPass(b)) /\ (HandOk(b) => HandOk(NextPass(b)))
  <1> DEFINE t == Older(b.fills)
             c == [b EXCEPT !.pass = 2, !.gap = b.cap, !.todo = t]
             d == [b EXCEPT !.at = "trim", !.todo = {}, !.fills = <<>>]
  <1>0. NextPass(b) \in {c, d}  BY DEF NextPass
  <1>1. b.work = "drift"  BY DEF ProcOk, InPlace, Rest
  <1>2. /\ c.at = "leg" /\ c.work = "drift" /\ c.gap = b.cap /\ c.cap = b.cap /\ c.key = b.key
        /\ c.pass = 2 /\ c.fills = b.fills /\ c.todo = t
    <2> HIDE DEF t
    <2> QED BY <1>1 DEF BotFields
  <1>3. /\ d.at = "trim" /\ d.work = "drift" /\ d.gap = b.gap /\ d.cap = b.cap /\ d.key = b.key
        /\ d.fills = <<>> /\ d.todo = {} /\ DOMAIN d.fills = {}
    BY <1>1 DEF BotFields
  <1>4. t = Older(b.fills)  OBVIOUS
  <1> HIDE DEF c, d, t
  <1>5. ProcOk(c)  BY <1>1, <1>2, <1>4 DEF ProcOk, InPlace
  <1>6. ProcOk(d)  BY <1>1, <1>3 DEF ProcOk, InPlace
  <1>7. HandOk(b) => HandOk(c)  BY <1>1, <1>2 DEF HandOk, Read, InHand
  <1>8. HandOk(b) => HandOk(d)  BY <1>1, <1>3 DEF HandOk, InHand
  <1> QED BY <1>0, <1>5, <1>6, <1>7, <1>8

LEMMA NextLegExact ==
    ASSUME NEW me \in Procs, BooksInv, BooksInv', ExactInv, NextLeg(me)
    PROVE  ExactInv'
  <1> DEFINE b == bot[me]
             todo == {o \in b.todo : ~Booked(o) /\ Fits(Qty(b, o), b.gap)}
             o == Min(todo)
             q == Qty(b, o)
             h == [b EXCEPT !.at = "add", !.order = o, !.qty = q, !.todo = todo]
             c == IF todo = {} \/ b.gap <= 0 THEN NextPass(b) ELSE h
  <1>1. /\ b.at = "leg" /\ UNCHANGED <<sold, sells, legs, seen>>
        /\ BotOk(b, Len(sold)) /\ ProcOk(b) /\ (~seen.torn => HandOk(b)) /\ DOMAIN b = BotFields
        /\ bot' = [bot EXCEPT ![me] = c]
    BY KnownOk DEF NextLeg, At, exchange, ledger, Calm
  <1>2. b.work = "drift"  BY <1>1 DEF ProcOk, InPlace, Rest
  <1>3. me # "panel"  BY <1>1, <1>2 DEF ExactInv, OnPanel
  <1>4. ProcOk(c) /\ (~seen.torn => HandOk(c))
    <2>1. CASE c = NextPass(b)
      <3> HIDE DEF c, b
      <3> QED BY <1>1, <2>1, NextPassExact
    <2>2. CASE c = h /\ todo # {}
      <3>1. todo \in SUBSET b.todo /\ b.todo \subseteq 1 .. Len(b.fills) /\ b.fills \in Seq(Fill)
        BY <1>1 DEF BotOk
      <3>2. todo \in SUBSET Nat  BY <3>1
      <3>3. o \in b.todo
        <4> HIDE DEF todo
        <4> QED BY <2>2, <3>1, <3>2, MinIn
      <3>4. b.fills[o] \in Fill /\ o \in DOMAIN b.fills
        <4> HIDE DEF o
        <4> QED BY <3>1, <3>3
      <3>5. h = [b EXCEPT !.at = "add", !.order = o, !.qty = q, !.todo = todo]
            /\ q = Qty(b, o)  OBVIOUS
      <3> HIDE DEF todo, o, q, h, c, b
      <3>6. /\ h.at = "add" /\ h.order = o /\ h.qty = q /\ h.todo = todo /\ h.work = "drift"
            /\ h.gap = b.gap /\ h.cap = b.cap /\ h.key = b.key /\ h.pass = b.pass /\ h.fills = b.fills
        BY <1>1, <1>2, <3>5 DEF BotFields
      <3>7. ProcOk(h)  BY <3>6, <3>1, <1>1, <1>2 DEF ProcOk, InPlace
      <3>8. ASSUME ~seen.torn  PROVE HandOk(h)
        <4>1. Read(b, o)  BY <3>4, <3>8, <1>1 DEF HandOk
        <4>2. q = SoldQty(o)
          <5>1. b.pass = 1 => b.fills[o].new > 0  BY <1>1, <1>2, <3>3 DEF ProcOk, Newer
          <5>2. b.pass # 1 => b.fills[o].old > 0  BY <1>1, <1>2, <3>3 DEF ProcOk, Older
          <5> QED BY <5>1, <5>2, <4>1, <3>4, <3>5 DEF Read, Qty, Fill
        <4>3. \A p \in DOMAIN b.fills : Read(b, p)  BY <3>8, <1>1 DEF HandOk
        <4> QED BY <4>2, <4>3, <3>6, <1>2 DEF HandOk, Read, InHand
      <3> QED BY <3>7, <3>8, <2>2
    <2> QED BY <2>1, <2>2
  <1>5. \A l \in DOMAIN Legs : legs'[l].order \in {0, legs[l].order}  BY <1>1
  <1> HIDE DEF c
  <1> QED BY <1>1, <1>3, <1>4, <1>5, ExactMoves

\* A process that takes up a place with nothing in hand.
LEMMA IdleExact ==
    ASSUME NEW me \in Procs, BooksInv, BooksInv', ExactInv,
           NEW a \in {"ready", "fills", "trim", "rest"}, me = "panel" => a \in {"fills", "rest"},
           bot' = [bot EXCEPT ![me] = [Rest EXCEPT !.at = a]], UNCHANGED <<sold, sells, legs>>,
           seen'.torn = seen.torn
    PROVE  ExactInv'
  <1> DEFINE c == [Rest EXCEPT !.at = a]
  <1>1. c.at = a /\ bot' = [bot EXCEPT ![me] = c]  BY DEF Rest
  <1> HIDE DEF c
  <1>2. ProcOk(c) /\ HandOk(c)  BY IdleOk DEF c
  <1>3. me = "panel" => OnPanel(c)  BY <1>1 DEF OnPanel
  <1>4. \A l \in DOMAIN Legs : legs'[l].order \in {0, legs[l].order}  OBVIOUS
  <1> QED BY <1>1, <1>2, <1>3, <1>4, ExactMoves

LEMMA RestAt == [Rest EXCEPT !.at = "rest"] = Rest
BY DEF Rest

LEMMA TrimExact ==
    ASSUME NEW me \in Procs, BooksInv, BooksInv', ExactInv, Trim(me)
    PROVE  ExactInv'
BY IdleExact DEF Trim, exchange, ledger, Calm

LEMMA FillsDoneExact ==
    ASSUME NEW me \in Procs, BooksInv, BooksInv', ExactInv, FillsDone(me)
    PROVE  ExactInv'
BY IdleExact, RestAt DEF FillsDone, exchange, ledger, Calm

LEMMA DiesExact ==
    ASSUME NEW me \in Procs, BooksInv, BooksInv', ExactInv, Dies(me)
    PROVE  ExactInv'
  <1>1. seen'.torn = seen.torn  BY DEF Dies, BooksInv, Records, SeenFields
  <1> QED BY <1>1, IdleExact, RestAt DEF Dies, exchange, ledger

LEMMA SyncExact ==
    ASSUME BooksInv, BooksInv', ExactInv, Sync
    PROVE  ExactInv'
  <1>1. seen'.torn = seen.torn  BY DEF Sync, BooksInv, Records, SeenFields
  <1>2. bot["scan"] = Rest
    <2>1. ProcOk(bot["scan"])  BY DEF ExactInv, Procs
    <2> QED BY <2>1 DEF ProcOk, InPlace, Sync, At
  <1>3. bot' = [bot EXCEPT !["scan"] = [Rest EXCEPT !.at = "ready"]]  BY <1>2 DEF Sync, Go
  <1> QED BY <1>1, <1>3, IdleExact DEF Sync, exchange, ledger, Procs

LEMMA UnreadableExact ==
    ASSUME NEW me \in Procs, BooksInv, BooksInv', ExactInv, Unreadable(me)
    PROVE  ExactInv'
  <1> DEFINE b == bot[me]
             c == [b EXCEPT !.at = "trim", !.main = FALSE]
  <1>1. /\ UNCHANGED <<sold, sells, legs>> /\ seen'.torn = seen.torn
        /\ BotOk(b, Len(sold)) /\ ProcOk(b) /\ (~seen.torn => HandOk(b)) /\ DOMAIN b = BotFields
    BY KnownOk DEF Unreadable, exchange, ledger, BooksInv, Records, SeenFields
  <1>2. CASE b.at = "fetch"
    <2>1. bot' = [bot EXCEPT ![me] = c]  BY <1>2 DEF Unreadable
    <2>2. b.work = "drift"  BY <1>1, <1>2 DEF ProcOk, InPlace, Rest
    <2>3. me # "panel"  BY <1>2, <2>2 DEF ExactInv, OnPanel
    <2> HIDE DEF b
    <2>4. /\ c.at = "trim" /\ c.work = b.work /\ c.gap = b.gap /\ c.cap = b.cap /\ c.key = b.key
          /\ c.pass = b.pass /\ c.fills = b.fills /\ c.todo = b.todo
      BY <1>1 DEF BotFields
    <2>5. ProcOk(c)  BY <1>1, <2>2, <2>4 DEF ProcOk, InPlace
    <2>6. ~seen.torn => HandOk(c)  BY <1>1, <2>2, <2>4 DEF HandOk, Read, InHand
    <2>7. \A l \in DOMAIN Legs : legs'[l].order \in {0, legs[l].order}  BY <1>1
    <2> HIDE DEF c
    <2> QED BY <1>1, <2>1, <2>3, <2>5, <2>6, <2>7, ExactMoves
  <1>3. CASE b.at = "ready"
    <2>1. bot' = [bot EXCEPT ![me] = [Rest EXCEPT !.at = "fills"]]  BY <1>3 DEF Unreadable
    <2> QED BY <1>1, <2>1, IdleExact
  <1>4. CASE b.at = "fills"
    <2>1. bot' = [bot EXCEPT ![me] = Rest]  BY <1>4 DEF Unreadable
    <2> QED BY <1>1, <2>1, IdleExact, RestAt
  <1> QED BY <1>2, <1>3, <1>4 DEF Unreadable

LEMMA FetchFillsExact ==
    ASSUME NEW me \in Procs, BooksInv, BooksInv', ExactInv, FetchFills(me)
    PROVE  ExactInv'
  <1> DEFINE t == {o \in Orders : <<o, "order">> \notin events}
             c == [Rest EXCEPT !.at = "order", !.work = "full", !.ex = held, !.fills = sold, !.todo = t]
  <1>1. /\ UNCHANGED <<sold, sells, legs, seen>> /\ bot' = [bot EXCEPT ![me] = c]
        /\ ~seen.torn => RowsExact
    BY KnownOk DEF FetchFills, exchange, ledger, Calm
  <1>2. /\ c.at = "order" /\ c.work = "full" /\ c.gap = 0 /\ c.cap = 0 /\ c.key = "order"
        /\ c.fills = sold
    BY DEF Rest
  <1> HIDE DEF c
  <1>3. ProcOk(c) /\ OnPanel(c)  BY <1>2 DEF ProcOk, InPlace, OnPanel
  <1>4. ASSUME ~seen.torn  PROVE HandOk(c)
    <2>1. ASSUME NEW o \in Orders  PROVE Read(c, o)
      <3>1. sold[o] \in Fill  BY OrdersFinite
      <3> QED BY <3>1, <1>1, <1>2, <1>4 DEF Read, RowsExact, SoldQty, Fill
    <2> QED BY <2>1, <1>2 DEF HandOk, InHand, Orders
  <1>5. \A l \in DOMAIN Legs : legs'[l].order \in {0, legs[l].order}  BY <1>1
  <1> QED BY <1>1, <1>3, <1>4, <1>5, ExactMoves

LEMMA NextOrderExact ==
    ASSUME NEW me \in Procs, BooksInv, BooksInv', ExactInv, NextOrder(me)
    PROVE  ExactInv'
  <1> DEFINE b == bot[me]
             todo == {o \in b.todo : ~LeftAlone(b, o)}
             o == Min(todo)
             q == b.fills[o].new
             w == IF Booked(o) THEN "backfill" ELSE "full"
             a == IF Booked(o) THEN "event" ELSE "add"
             r == {p \in b.todo : p >= o}
             d == [b EXCEPT !.todo = {}]
             h == [b EXCEPT !.order = o, !.qty = q, !.todo = r, !.work = w, !.at = a]
             c == IF todo = {} THEN d ELSE h
  <1>1. /\ b.at = "order" /\ UNCHANGED <<sold, sells, legs, seen>>
        /\ BotOk(b, Len(sold)) /\ ProcOk(b) /\ (~seen.torn => HandOk(b)) /\ DOMAIN b = BotFields
        /\ bot' = [bot EXCEPT ![me] = c]
    <2>1. BotOk(b, Len(sold)) /\ ProcOk(b) /\ (~seen.torn => HandOk(b)) /\ DOMAIN b = BotFields
      BY KnownOk
    <2>2. DOMAIN b = BotFields  BY <2>1
    <2>3. [b EXCEPT !.order = o, !.qty = q, !.todo = {p \in @ : p >= o}, !.work = w, !.at = a] = h
      BY <2>2 DEF BotFields
    <2>4. bot' = [bot EXCEPT ![me] = c]
      <3>1. bot' = [bot EXCEPT ![me] =
               IF todo = {} THEN d
               ELSE [b EXCEPT !.order = o, !.qty = q, !.todo = {p \in @ : p >= o}, !.work = w, !.at = a]]
        BY DEF NextOrder
      <3> HIDE DEF o, q, w, a, h, todo
      <3> QED BY <3>1, <2>3
    <2> QED BY <2>1, <2>4 DEF NextOrder, At, exchange, ledger, Calm
  <1>2. b.work \in {"full", "backfill"}  BY <1>1 DEF ProcOk, InPlace, Rest
  <1>3. d.at = "order" /\ d.work = b.work /\ d.gap = b.gap /\ d.cap = b.cap /\ d.key = b.key
        /\ d.fills = b.fills
    <2> HIDE DEF b
    <2> QED BY <1>1 DEF BotFields
  <1>4. ProcOk(d) /\ OnPanel(d) /\ (~seen.torn => HandOk(d))
    <2> HIDE DEF d, b
    <2> QED BY <1>1, <1>2, <1>3 DEF ProcOk, InPlace, OnPanel, HandOk, Read, InHand
  <1>5. ASSUME todo # {}  PROVE ProcOk(h) /\ OnPanel(h) /\ (~seen.torn => HandOk(h))
    <2>1. todo \in SUBSET b.todo /\ b.todo \subseteq 1 .. Len(b.fills) /\ b.fills \in Seq(Fill)
          /\ Len(b.fills) <= Len(sold) /\ Len(b.fills) \in Nat /\ Len(sold) \in Nat
      BY <1>1, KnownOk DEF BotOk
    <2>2. todo \in SUBSET Nat  BY <2>1
    <2>3. o \in todo
      <3> HIDE DEF todo
      <3> QED BY <1>5, <2>1, <2>2, MinIn
    <2>4. ~LeftAlone(b, o)  BY <2>3
    <2>5. b.fills[o] \in Fill /\ o \in DOMAIN b.fills /\ o \in 1 .. Len(sold)
      <3>1. o \in b.todo  BY <2>3
      <3> HIDE DEF o, todo, b
      <3> QED BY <2>1, <3>1
    <2>6. sold[o] \in Fill /\ o \in Orders  BY <2>5, OrdersFinite
    <2>7. /\ h.order = o /\ h.qty = q /\ h.work = w /\ h.at = a /\ h.gap = b.gap
          /\ h.cap = b.cap /\ h.key = b.key /\ h.fills = b.fills
      <3> HIDE DEF o, q, w, a, r, b
      <3> QED BY <1>1 DEF BotFields
    <2>8. /\ w \in {"full", "backfill"} /\ a \in {"event", "add"} /\ (w = "backfill" <=> a = "event")
          /\ q = b.fills[o].new
      OBVIOUS
    <2> HIDE DEF o, q, w, a, h, todo, b
    <2>9. ProcOk(h) /\ OnPanel(h)  BY <1>1, <1>2, <2>7, <2>8 DEF ProcOk, InPlace, OnPanel
    <2>10. ASSUME ~seen.torn  PROVE HandOk(h)
      <3>1. Read(b, o)  BY <2>5, <2>10, <1>1 DEF HandOk
      <3>2. sold[o].old = 0  BY <2>4, <2>6 DEF LeftAlone, Fill
      <3>3. q = SoldQty(o)  BY <3>1, <3>2, <2>5, <2>6, <2>8, <1>2 DEF Read, Fill
      <3>4. \A p \in DOMAIN b.fills : Read(b, p)  BY <2>10, <1>1 DEF HandOk
      <3> QED BY <3>3, <3>4, <2>7, <2>8, <1>2 DEF HandOk, Read, InHand
    <2> QED BY <2>9, <2>10
  <1>6. ProcOk(c) /\ OnPanel(c) /\ (~seen.torn => HandOk(c))
    <2> HIDE DEF d, h, todo
    <2> QED BY <1>4, <1>5
  <1>7. \A l \in DOMAIN Legs : legs'[l].order \in {0, legs[l].order}  BY <1>1
  <1> HIDE DEF c
  <1> QED BY <1>1, <1>6, <1>7, ExactMoves

\* A process goes to a place where it holds no order.
LEMMA GoneExact ==
    ASSUME NEW me \in Procs, NEW a, BooksInv, BooksInv', ExactInv, Go(me, a),
           a \notin {"add", "close", "fetch"}, InPlace([bot[me] EXCEPT !.at = a]),
           me = "panel" => OnPanel([bot[me] EXCEPT !.at = a]),
           InHand([bot[me] EXCEPT !.at = a]) => InHand(bot[me]),
           UNCHANGED <<sold, sells>>, seen'.torn = seen.torn,
           \A l \in DOMAIN Legs : legs'[l].order \in {0, legs[l].order}
    PROVE  ExactInv'
  <1> DEFINE b == bot[me]
             c == [b EXCEPT !.at = a]
  <1>1. /\ ProcOk(b) /\ (~seen.torn => HandOk(b)) /\ DOMAIN b = BotFields
        /\ bot' = [bot EXCEPT ![me] = c]
    BY KnownOk DEF Go
  <1>2. InPlace(c) /\ (me = "panel" => OnPanel(c)) /\ (InHand(c) => InHand(b))  OBVIOUS
  <1> HIDE DEF b
  <1>3. ProcOk(c)  BY <1>1, <1>2, GonePlaced
  <1>4. ASSUME ~seen.torn  PROVE HandOk(c)
    <2>1. HandOk(b) /\ (InHand(c) => Row(b) \in sells)  BY <1>1, <1>2, <1>4 DEF HandOk
    <2> QED BY <1>1, <1>2, <2>1, GoneOk
  <1> HIDE DEF c
  <1> QED BY <1>1, <1>2, <1>3, <1>4, ExactMoves

LEMMA FixRowExact ==
    ASSUME NEW me \in Procs, BooksInv, BooksInv', ExactInv, FixRow(me)
    PROVE  ExactInv'
  <1>1. ProcOk(bot[me]) /\ DOMAIN bot[me] = BotFields /\ bot[me].at = "fix"
    BY KnownOk DEF FixRow, At
  <1>2. bot[me].work \in {"full", "backfill"}  BY <1>1 DEF ProcOk, InPlace, Rest
  <1> DEFINE c == [bot[me] EXCEPT !.at = "order"]
  <1>3. c.at = "order" /\ c.work = bot[me].work  BY <1>1 DEF BotFields
  <1> HIDE DEF c
  <1>4. InPlace(c) /\ OnPanel(c) /\ ~InHand(c)  BY <1>2, <1>3 DEF InPlace, OnPanel, InHand
  <1> QED BY <1>4, GoneExact DEF c, FixRow, exchange, ledger, Calm

\* The scan leaves a place of its own.
LEMMA ScanGoes ==
    ASSUME BooksInv, BooksInv', ExactInv, NEW a \in {"ready", "bought", "boughtRow"}, Go("scan", a),
           bot["scan"].at \in {"ready", "boughtRow", "bought"}, UNCHANGED <<sold, sells>>, seen'.torn = seen.torn,
           \A l \in DOMAIN Legs : legs'[l].order \in {0, legs[l].order}
    PROVE  ExactInv'
  <1>1. ProcOk(bot["scan"]) /\ DOMAIN bot["scan"] = BotFields
    BY KnownOk DEF Procs
  <1>2. bot["scan"].work = "drift"  BY <1>1 DEF ProcOk, InPlace, Rest
  <1> DEFINE c == [bot["scan"] EXCEPT !.at = a]
  <1>3. c.at = a /\ c.work = "drift"  BY <1>1, <1>2 DEF BotFields
  <1> HIDE DEF c
  <1>4. InPlace(c) /\ ~InHand(c)  BY <1>3 DEF InPlace, InHand
  <1> QED BY <1>4, GoneExact DEF c, Procs

LEMMA BuyExact ==
    ASSUME BooksInv, BooksInv', ExactInv, Buy
    PROVE  ExactInv'
  <1>1. \A l \in DOMAIN Legs : legs'[l].order \in {0, legs[l].order}  BY DEF Buy
  <1> QED BY <1>1, ScanGoes DEF Buy, At, ledger, Calm

LEMMA LogBuyExact ==
    ASSUME BooksInv, BooksInv', ExactInv, LogBuy
    PROVE  ExactInv'
  <1>1. \A l \in DOMAIN Legs : legs'[l].order \in {0, legs[l].order}  BY DEF LogBuy, exchange
  <1> QED BY <1>1, ScanGoes DEF LogBuy, At, exchange, ledger, Calm

LEMMA CloseRowExact ==
    ASSUME BooksInv, BooksInv', ExactInv, CloseRow
    PROVE  ExactInv'
  <1>1. ProcOk(bot["scan"]) /\ DOMAIN bot["scan"] = BotFields /\ bot["scan"].at = "drop"
    BY KnownOk DEF CloseRow, At, Procs
  <1>2. bot["scan"].work = "close"  BY <1>1 DEF ProcOk, InPlace, Rest
  <1> DEFINE c == [bot["scan"] EXCEPT !.at = "event"]
  <1>3. c.at = "event" /\ c.work = "close"  BY <1>1, <1>2 DEF BotFields
  <1> HIDE DEF c
  <1>4. InPlace(c) /\ InHand(bot["scan"])  BY <1>1, <1>2, <1>3 DEF InPlace, InHand
  <1> QED BY <1>4, GoneExact DEF c, CloseRow, exchange, ledger, Calm, Procs

-----------------------------------------------------------------------------
(* The steps that book                                                      *)

\* A row is written for an order that has none under this key, at what it sold.
LEMMA ExactBooked ==
    ASSUME BooksInv, BooksInv', ExactInv, NEW me \in Procs, NEW c, NEW r,
           bot' = [bot EXCEPT ![me] = c], UNCHANGED <<sold, legs, seen>>,
           sells' = sells \cup {r}, \A s \in sells : ~(s.order = r.order /\ s.key = r.key),
           r.key = "client" => Legless(r.order),
           me = "panel" => OnPanel(c), ProcOk(c),
           ~seen.torn => r.qty = SoldQty(r.order) /\ HandOk(c)'
    PROVE  ExactInv'
  <1>0. /\ bot'[me] = c /\ \A p \in Procs \ {me} : bot'[p] = bot[p]
        /\ DOMAIN bot = Procs /\ me \in Procs /\ "panel" \in Procs
    BY DEF BooksInv, BotsOk, Procs
  <1>1. OnPanel(bot["panel"])'
    <2>1. CASE me = "panel"  BY <2>1, <1>0 DEF OnPanel
    <2>2. CASE me # "panel"  BY <2>2, <1>0 DEF OnPanel, ExactInv
    <2> QED BY <2>1, <2>2
  <1>2. Keyed'
    <2>1. IsFiniteSet(sells \cup {r})  BY FS_AddElement DEF ExactInv, Keyed
    <2>2. IsFiniteSet(sells)'  BY <2>1
    <2>3. \A s, t \in sells' : s.order = t.order /\ s.key = t.key => s = t
      BY DEF ExactInv, Keyed
    <2>4. \A s \in sells' : s.key = "client" => Legless(s.order)  BY DEF ExactInv, Keyed
    <2>5. \A s \in sells' : s.key = "client" => Legless(s.order)'  BY <2>4 DEF Legless
    <2> QED BY <2>2, <2>3, <2>5 DEF Keyed
  <1>3. ASSUME NEW p \in Procs  PROVE ProcOk(bot[p])'
    <2>1. ProcOk(bot'[p])
      <3>1. CASE p = me  BY <3>1, <1>0
      <3>2. CASE p # me  BY <3>2, <1>0 DEF ExactInv
      <3> QED BY <3>1, <3>2
    <2> QED BY <2>1 DEF ProcOk, Legless
  <1>4. ASSUME ~seen'.torn  PROVE RowsExact' /\ \A p \in Procs : HandOk(bot[p])'
    <2>0. ~seen.torn  BY <1>4
    <2>1. RowsExact'
      <3>1. RowsExact  BY <2>0 DEF ExactInv
      <3>2. \A s \in sells' : s.qty = SoldQty(s.order)  BY <3>1, <2>0 DEF RowsExact
      <3> QED BY <3>1, <3>2 DEF RowsExact, SoldQty, Orders
    <2>2. ASSUME NEW p \in Procs  PROVE HandOk(bot[p])'
      <3>1. CASE p = me
        <4>1. PICK b : b = bot'[p]  OBVIOUS
        <4>2. HandOk(b)'  BY <3>1, <4>1, <1>0, <2>0
        <4> QED BY <4>1, <4>2 DEF HandOk, Read, SoldQty
      <3>2. CASE p # me
        <4>1. HandOk(bot[p])  BY <2>0 DEF ExactInv
        <4> QED BY <3>2, <1>0, <4>1 DEF HandOk, Read, SoldQty
      <3> QED BY <3>1, <3>2
    <2> QED BY <2>1, <2>2
  <1> QED BY <1>1, <1>2, <1>3, <1>4 DEF ExactInv

LEMMA AddTradeExact ==
    ASSUME NEW me \in Procs, BooksInv, BooksInv', ExactInv, AddTrade(me)
    PROVE  ExactInv'
  <1> DEFINE b == bot[me]
  <1>1. /\ b.at = "add" /\ UNCHANGED <<sold, legs, seen>>
        /\ BotOk(b, Len(sold)) /\ ProcOk(b) /\ (~seen.torn => HandOk(b)) /\ DOMAIN b = BotFields
        /\ Len(sold) \in Nat
    BY KnownOk DEF AddTrade, At, exchange, ledger, Calm
  <1>2. b.work \in {"drift", "full"} /\ b.key = "order"  BY <1>1 DEF ProcOk, InPlace, Rest
  <1>3. me = "panel" => b.work \in {"full", "backfill"}  BY <1>1, <1>2 DEF ExactInv, OnPanel
  <1>4. CASE Booked(b.order)
    <2> DEFINE c == Next1(b, FALSE)
    <2>1. bot' = [bot EXCEPT ![me] = c] /\ sells' = sells  BY <1>4 DEF AddTrade
    <2> HIDE DEF b
    <2>2. ProcOk(c) /\ (~seen'.torn => ~seen.torn /\ HandOk(c)) /\ (me = "panel" => OnPanel(c))
      BY <1>1, <1>3, NextOk
    <2>3. \A l \in DOMAIN Legs : legs'[l].order \in {0, legs[l].order}  BY <1>1
    <2> HIDE DEF c
    <2> QED BY <1>1, <2>1, <2>2, <2>3, ExactMoves
  <1>5. CASE ~Booked(b.order)
    <2> DEFINE r == Row(b)
    <2>0. PICK c : c = [b EXCEPT !.at = "note"]  OBVIOUS
    <2>1. /\ bot' = [bot EXCEPT ![me] = c]
          /\ r.order = b.order /\ r.key = "order" /\ r.qty = b.qty
          /\ sells' = sells \cup {r}
      BY <1>5, <1>2, <2>0 DEF AddTrade, Go, Row
    <2>2. \A s \in sells : ~(s.order = r.order /\ s.key = r.key)  BY <1>5, <2>1 DEF Booked
    <2> HIDE DEF b
    <2>3. /\ c.at = "note" /\ c.work = b.work /\ c.gap = b.gap /\ c.cap = b.cap /\ c.key = b.key
          /\ c.todo = b.todo /\ c.fills = b.fills /\ c.order = b.order /\ c.qty = b.qty
          /\ c.pass = b.pass
      BY <1>1, <2>0 DEF BotFields
    <2>4. Row(c) = r  BY <2>3 DEF Row
    <2>5. ProcOk(c)  BY <1>1, <1>2, <2>3 DEF ProcOk, InPlace
    <2>6. me = "panel" => OnPanel(c)  BY <1>3, <2>3 DEF OnPanel
    <2>7. ASSUME ~seen.torn  PROVE r.qty = SoldQty(r.order) /\ HandOk(c)'
      <3>1. HandOk(b)  BY <1>1, <2>7
      <3>2. \A o \in DOMAIN c.fills : Read(c, o)  BY <3>1, <2>3 DEF HandOk, Read
      <3>3. \A o \in DOMAIN c.fills : Read(c, o)'  BY <3>2, <1>1 DEF Read, SoldQty
      <3>4. Row(c) \in sells'  BY <2>1, <2>4
      <3>5. r.qty = SoldQty(r.order)  BY <3>1, <1>1, <2>1 DEF HandOk
      <3> QED BY <3>3, <3>4, <3>5, <2>3 DEF HandOk
    <2> HIDE DEF r
    <2> QED BY <1>1, <2>1, <2>2, <2>5, <2>6, <2>7, ExactBooked
  <1> QED BY <1>4, <1>5

LEMMA CloseTradeExact ==
    ASSUME BooksInv, BooksInv', ExactInv, CloseTrade
    PROVE  ExactInv'
  <1> DEFINE b == bot["scan"]
             r == Row(b)
             known == \E s \in sells : s.order = b.order /\ s.key = b.key
  <1>0. "scan" \in Procs /\ "scan" # "panel"  BY DEF Procs
  <1> PICK c : c = [b EXCEPT !.at = "note"]  OBVIOUS
  <1>1. /\ b.at = "close" /\ UNCHANGED <<sold, legs, seen>>
        /\ ProcOk(b) /\ (~seen.torn => RowsExact /\ HandOk(b)) /\ DOMAIN b = BotFields
        /\ bot' = [bot EXCEPT !["scan"] = c]
        /\ sells' = IF known THEN sells ELSE sells \cup {r}
    BY <1>0, KnownOk DEF CloseTrade, At, exchange, ledger, Calm, Go, Row
  <1>2. b.work = "close"  BY <1>1 DEF ProcOk, InPlace, Rest
  <1>3. r.order = b.order /\ r.key = b.key /\ r.qty = b.qty  BY DEF Row
  <1>4. \A s \in sells : DOMAIN s = DOMAIN r /\ DOMAIN r = {"order", "key", "qty"}
    BY DEF BooksInv, Records, Sale, Row
  <1> HIDE DEF b
  <1>5. /\ c.at = "note" /\ c.work = b.work /\ c.gap = b.gap /\ c.cap = b.cap /\ c.key = b.key
        /\ c.todo = b.todo /\ c.fills = b.fills /\ c.order = b.order /\ c.qty = b.qty
        /\ c.pass = b.pass
    BY <1>1 DEF BotFields
  <1>6. Row(c) = r  BY <1>5 DEF Row
  <1>7. ProcOk(c)  BY <1>1, <1>2, <1>5 DEF ProcOk, InPlace
  <1>8. ASSUME ~seen.torn  PROVE b.qty = SoldQty(b.order) /\ \A o \in DOMAIN c.fills : Read(c, o)
    BY <1>8, <1>1, <1>5 DEF HandOk, Read
  <1>9. CASE known
    <2>1. sells' = sells  BY <1>9, <1>1
    <2>2. ASSUME ~seen.torn  PROVE HandOk(c)
      <3>1. PICK s \in sells : s.order = b.order /\ s.key = b.key  BY <1>9
      <3>2. s.qty = SoldQty(s.order)  BY <1>1, <2>2 DEF RowsExact
      <3>3. s \in Sale  BY DEF BooksInv, Records
      <3>4. s = r  BY <3>1, <3>2, <3>3, <1>8, <2>2 DEF Sale, Row
      <3> QED BY <3>4, <1>5, <1>6, <1>8, <2>2 DEF HandOk
    <2>3. \A l \in DOMAIN Legs : legs'[l].order \in {0, legs[l].order}  BY <1>1
    <2> QED BY <1>0, <1>1, <1>7, <2>1, <2>2, <2>3, ExactMoves
  <1>10. CASE ~known
    <2>1. sells' = sells \cup {r}  BY <1>10, <1>1
    <2>2. \A s \in sells : ~(s.order = r.order /\ s.key = r.key)  BY <1>10, <1>3
    <2>3. Legless(r.order)  BY <1>1, <1>2, <1>3 DEF ProcOk
    <2>4. ASSUME ~seen.torn  PROVE r.qty = SoldQty(r.order) /\ HandOk(c)'
      <3>1. \A o \in DOMAIN c.fills : Read(c, o)'  BY <1>8, <2>4, <1>1 DEF Read, SoldQty
      <3>2. Row(c) \in sells'  BY <2>1, <1>6
      <3> QED BY <3>1, <3>2, <1>3, <1>5, <1>8, <2>4 DEF HandOk
    <2> HIDE DEF r
    <2> QED BY <1>0, <1>1, <1>7, <2>1, <2>2, <2>3, <2>4, ExactBooked
  <1> QED BY <1>9, <1>10

-----------------------------------------------------------------------------
(* The steps that sell                                                      *)

\* A new order disturbs neither what a process knows ...
LEMMA NewOrderKnown ==
    ASSUME BooksInv, NEW f \in Fill, sold' = Append(sold, f), UNCHANGED sells,
           \A l \in DOMAIN Legs : legs'[l].order \in {0, legs[l].order, Len(sold) + 1},
           NEW b, BotOk(b, Len(sold)), ProcOk(b)
    PROVE  ProcOk(b)' /\ (HandOk(b) => HandOk(b)')
  <1>1. /\ Len(sold) \in Nat /\ \A o \in 1 .. Len(sold) : sold'[o] = sold[o]
    BY DEF BooksInv, Quantities
  <1>2. \A o \in 1 .. Len(sold) : SoldQty(o)' = SoldQty(o)  BY <1>1 DEF SoldQty
  <1>3. b.order \in 0 .. Len(sold) /\ DOMAIN b.fills \subseteq 1 .. Len(sold)
        /\ (b.at \in Busy => b.order \in 1 .. Len(sold))
    <2>1. Len(b.fills) \in Nat /\ DOMAIN b.fills = 1 .. Len(b.fills) /\ Len(b.fills) <= Len(sold)
      BY DEF BotOk
    <2> QED BY <2>1, <1>1 DEF BotOk
  <1>4. ASSUME b.work = "close"  PROVE Legless(b.order)'
    <2>1. b.at \in Busy  BY <1>4 DEF ProcOk, InPlace, Busy, Rest
    <2>2. b.order \in 1 .. Len(sold)  BY <2>1, <1>3
    <2>3. Legless(b.order)  BY <1>4 DEF ProcOk
    <2>4. b.order # 0 /\ b.order # Len(sold) + 1  BY <2>2, <1>1
    <2> QED BY <2>3, <2>4 DEF Legless
  <1>5. ProcOk(b)'  BY <1>4 DEF ProcOk
  <1>6. ASSUME HandOk(b)  PROVE HandOk(b)'
    <2>1. ASSUME NEW o \in DOMAIN b.fills  PROVE Read(b, o)'
      <3>1. Read(b, o) /\ o \in 1 .. Len(sold)  BY <1>3, <1>6 DEF HandOk
      <3> QED BY <3>1, <1>1, <1>2 DEF Read
    <2>2. ASSUME b.at \in {"add", "close"}  PROVE (b.qty = SoldQty(b.order))'
      <3>1. b.order \in 1 .. Len(sold)  BY <2>2, <1>3 DEF Busy
      <3> QED BY <3>1, <2>2, <1>2, <1>6 DEF HandOk
    <2> QED BY <2>1, <2>2, <1>6 DEF HandOk
  <1> QED BY <1>5, <1>6

\* ... nor the rows.
LEMMA NewOrderBooked ==
    ASSUME BooksInv, ExactInv, NEW f \in Fill, f.old = 0, sold' = Append(sold, f), UNCHANGED sells,
           \A l \in DOMAIN Legs : legs'[l].order \in {0, legs[l].order, Len(sold) + 1}
    PROVE  Keyed' /\ (RowsExact => RowsExact')
  <1>1. /\ Len(sold) \in Nat /\ \A o \in 1 .. Len(sold) : sold'[o] = sold[o]
        /\ Orders = 1 .. Len(sold) /\ Orders' = 1 .. (Len(sold) + 1) /\ sold'[Len(sold) + 1] = f
    BY DEF BooksInv, Quantities, Orders
  <1>2. \A o \in 1 .. Len(sold) : SoldQty(o)' = SoldQty(o)  BY <1>1 DEF SoldQty
  <1>3. \A s \in sells : s.order \in 1 .. Len(sold)  BY <1>1 DEF BooksInv, Records, Sale
  <1>4. ASSUME NEW s \in sells, s.key = "client"  PROVE Legless(s.order)'
    <2>1. Legless(s.order)  BY <1>4 DEF ExactInv, Keyed
    <2>2. s.order # 0 /\ s.order # Len(sold) + 1  BY <1>1, <1>3
    <2> QED BY <2>1, <2>2 DEF Legless
  <1>5. Keyed'  BY <1>4 DEF ExactInv, Keyed
  <1>6. RowsExact => RowsExact'
    <2> SUFFICES ASSUME RowsExact PROVE RowsExact'  OBVIOUS
    <2>1. \A s \in sells' : s.qty = SoldQty(s.order)'  BY <1>2, <1>3 DEF RowsExact
    <2>2. ASSUME NEW o \in Orders'  PROVE sold'[o].old = 0 \/ sold'[o].new = 0
      <3>1. CASE o = Len(sold) + 1  BY <3>1, <1>1
      <3>2. CASE o # Len(sold) + 1
        <4>1. o \in Orders  BY <3>2, <1>1
        <4> QED BY <4>1, <1>1 DEF RowsExact
      <3> QED BY <3>1, <3>2
    <2> QED BY <2>1, <2>2 DEF RowsExact
  <1> QED BY <1>5, <1>6

\* A process takes up a place after such an order.
LEMMA ExactSold ==
    ASSUME BooksInv, ExactInv, NEW me \in Procs, NEW c, bot' = [bot EXCEPT ![me] = c],
           NEW f \in Fill, f.old = 0, sold' = Append(sold, f), UNCHANGED sells,
           \A l \in DOMAIN Legs : legs'[l].order \in {0, legs[l].order, Len(sold) + 1},
           me = "panel" => OnPanel(c), ProcOk(c)', ~seen'.torn => ~seen.torn /\ HandOk(c)'
    PROVE  ExactInv'
  <1>0. /\ bot'[me] = c /\ \A p \in Procs \ {me} : bot'[p] = bot[p]
        /\ DOMAIN bot = Procs /\ me \in Procs /\ "panel" \in Procs
    BY DEF BooksInv, BotsOk, Procs
  <1>1. OnPanel(bot["panel"])'
    <2>1. CASE me = "panel"  BY <2>1, <1>0 DEF OnPanel
    <2>2. CASE me # "panel"  BY <2>2, <1>0 DEF OnPanel, ExactInv
    <2> QED BY <2>1, <2>2
  <1>2. Keyed' /\ (RowsExact => RowsExact')  BY NewOrderBooked
  <1>3. ASSUME NEW p \in Procs
        PROVE  ProcOk(bot[p])' /\ (~seen'.torn => HandOk(bot[p])')
    <2>1. PICK b : b = bot'[p]  OBVIOUS
    <2>2. ProcOk(b)' /\ (~seen'.torn => HandOk(b)')
      <3>1. CASE p = me  BY <3>1, <2>1, <1>0
      <3>2. CASE p # me
        <4>1. b = bot[p]  BY <3>2, <2>1, <1>0
        <4>2. BotOk(b, Len(sold)) /\ ProcOk(b) /\ (~seen.torn => HandOk(b))  BY <4>1, KnownOk
        <4>3. ProcOk(b)' /\ (HandOk(b) => HandOk(b)')  BY <4>2, NewOrderKnown
        <4> QED BY <4>2, <4>3
      <3> QED BY <3>1, <3>2
    <2> QED BY <2>1, <2>2 DEF ProcOk, HandOk, Read, SoldQty, Legless
  <1> QED BY <1>1, <1>2, <1>3 DEF ExactInv

LEMMA SoldAll ==
    ASSUME BooksInv, SellAll
    PROVE  /\ [old |-> 0, new |-> held, loss |-> TRUE] \in Fill
           /\ held \in Nat /\ held > 0 /\ held' = 0
           /\ \A l \in DOMAIN Legs : legs'[l].order = 0 /\ legs'[l].left = 0
           /\ sold' = Append(sold, [old |-> 0, new |-> held, loss |-> TRUE])
           /\ Len(sold) \in Nat /\ Len(sold') = Len(sold) + 1
           /\ sold'[Len(sold) + 1] = [old |-> 0, new |-> held, loss |-> TRUE]
           /\ Orders' = 1 .. (Len(sold) + 1)
  BY DEF BooksInv, Quantities, SellAll, Fill, NoLegs, Orders

LEMMA ExitExact ==
    ASSUME NEW me \in Procs, BooksInv, BooksInv', ExactInv, Exit(me)
    PROVE  ExactInv'
  <1>0. SellAll /\ UNCHANGED sells  BY DEF Exit, ledger
  <1>1. ProcOk(bot[me]) /\ DOMAIN bot[me] = BotFields  BY KnownOk
  <1>2. bot[me].work = "drift" /\ bot[me].at \in {"ready", "rest"} /\ (~seen.torn => HandOk(bot[me]))
    BY <1>1, KnownOk DEF Exit, At, ProcOk, InPlace, Rest
  <1>3. PICK b : b = bot[me]  OBVIOUS
  <1>4. PICK c : c = [b EXCEPT !.at = "fills"]  OBVIOUS
  <1>5. /\ c.at = "fills" /\ c.work = "drift" /\ c.gap = b.gap /\ c.cap = b.cap /\ c.key = b.key
        /\ c.todo = b.todo /\ c.fills = b.fills /\ c.pass = b.pass
    BY <1>1, <1>2, <1>3, <1>4 DEF BotFields
  <1>6. bot' = [bot EXCEPT ![me] = c]  BY <1>3, <1>4 DEF Exit, Go
  <1>7. ProcOk(c)  BY <1>1, <1>2, <1>3, <1>5 DEF ProcOk, InPlace
  <1>8. OnPanel(c)  BY <1>5 DEF OnPanel
  <1>9. BotOk(c, Len(sold))
    <2>1. BotOk(b, Len(sold))  BY <1>3, KnownOk
    <2> QED BY <2>1, <1>4 DEF BotOk, BotFields, Busy
  <1>10. ~seen.torn => HandOk(c)
    <2>1. ~seen.torn => HandOk(b)  BY <1>2, <1>3
    <2>2. b.work = "drift"  BY <1>2, <1>3
    <2> QED BY <2>1, <2>2, <1>5 DEF HandOk, Read, InHand
  <1>11. seen'.torn = seen.torn  BY DEF Exit, BooksInv, Records, SeenFields
  <1>12. \A l \in DOMAIN Legs : legs'[l].order \in {0, legs[l].order, Len(sold) + 1}
    BY <1>0, SoldAll
  <1>13. PICK f \in Fill : f.old = 0 /\ sold' = Append(sold, f)  BY <1>0, SoldAll
  <1>14. ProcOk(c)' /\ (HandOk(c) => HandOk(c)')  BY <1>0, <1>7, <1>9, <1>12, <1>13, NewOrderKnown
  <1> QED BY <1>0, <1>6, <1>8, <1>10, <1>11, <1>12, <1>13, <1>14, ExactSold

LEMMA CloseExact ==
    ASSUME NEW key \in Keys, BooksInv, BooksInv', ExactInv, Close(key)
    PROVE  ExactInv'
  <1>0. SellAll /\ UNCHANGED <<sells, row>>  BY DEF Close, ledger
  <1> DEFINE f == [old |-> 0, new |-> held, loss |-> TRUE]
  <1>1. PICK c : /\ bot' = [bot EXCEPT !["scan"] = c]
                 /\ c = [Rest EXCEPT !.at = "close", !.work = "close", !.order = Len(sold'),
                                     !.key = key, !.qty = row]
    BY DEF Close
  <1>2. /\ c.at = "close" /\ c.work = "close" /\ c.gap = 0 /\ c.cap = 0 /\ c.fills = <<>>
        /\ c.order = Len(sold) + 1 /\ c.qty = row /\ DOMAIN c.fills = {}
    BY <1>0, <1>1, SoldAll DEF Rest
  <1>3. Legless(c.order)'
    <2>1. \A l \in DOMAIN Legs : legs'[l].order = 0 /\ Len(sold) \in Nat  BY <1>0, SoldAll
    <2> QED BY <2>1, <1>2 DEF Legless
  <1>4. ProcOk(c)'  BY <1>2, <1>3 DEF ProcOk, InPlace
  <1>5. ASSUME ~seen'.torn  PROVE ~seen.torn /\ HandOk(c)'
    <2>1. ~seen.torn /\ row = held  BY <1>5 DEF Close, BooksInv, Records, SeenFields
    <2>2. SoldQty(c.order)' = held
      <3>1. sold'[c.order] = f /\ held \in Nat  BY <1>0, <1>2, SoldAll
      <3>2. f.old = 0 /\ f.new = held  OBVIOUS
      <3> QED BY <3>1, <3>2 DEF SoldQty
    <2>3. HandOk(c)'  BY <2>1, <2>2, <1>2 DEF HandOk, InHand
    <2> QED BY <2>1, <2>3
  <1>6. \A l \in DOMAIN Legs : legs'[l].order \in {0, legs[l].order, Len(sold) + 1}
    BY <1>0, SoldAll
  <1>7. PICK g \in Fill : g.old = 0 /\ sold' = Append(sold, g)  BY <1>0, SoldAll
  <1>8. "scan" \in Procs /\ "scan" # "panel"  BY DEF Procs
  <1> HIDE DEF f
  <1> QED BY <1>0, <1>1, <1>4, <1>5, <1>6, <1>7, <1>8, ExactSold

\* A leg sells a part of what is held, under an order of its own or a new one.
LEMMA LegSold ==
    ASSUME NEW l \in DOMAIN Legs, BooksInv, LegFills(l)
    PROVE  /\ UNCHANGED <<bought, sells, row, snap, events, shadow, cool, bot, buys>>
           /\ DOMAIN legs' = DOMAIN Legs
           /\ \A m \in DOMAIN Legs \ {l} : legs'[m].order = legs[m].order
           /\ \E q \in Nat \ {0} : 
                /\ held' = held - q
                /\ legs[l].order = 0 =>
                     /\ legs'[l].order = Len(sold) + 1
                     /\ \E f \in Fill : f.old = 0 /\ f.new = q /\ sold' = Append(sold, f)
                /\ legs[l].order # 0 =>
                     /\ legs'[l].order = legs[l].order
                     /\ legs[l].order \in Orders /\ DOMAIN sold' = DOMAIN sold
                     /\ sold'[legs[l].order].old = sold[legs[l].order].old
                     /\ sold'[legs[l].order].new = sold[legs[l].order].new + q
                     /\ \A p \in Orders \ {legs[l].order} : sold'[p] = sold[p]
  <1>1. legs \in [DOMAIN Legs -> [left : Nat, order : 0 .. Len(sold)]]
        /\ sold \in Seq(Fill) /\ Len(sold) \in Nat /\ held \in Nat /\ Orders = 1 .. Len(sold)
    BY DEF BooksInv, Quantities, Orders
  <1>2. legs[l].left \in Nat /\ legs[l].order \in 0 .. Len(sold)  BY <1>1
  <1>3. Part \in Nat  BY BooksAssumption
  <1>4. PICK q \in {Part, legs[l].left} :
          LET o == legs[l].order
              fill == [old |-> 0, new |-> q, loss |-> l \in Stops]
          IN  /\ 0 < q /\ q <= legs[l].left
              /\ sold' = IF o = 0 THEN Append(sold, fill) ELSE [sold EXCEPT ![o].new = @ + q]
              /\ legs' = [legs EXCEPT ![l] = [left |-> @.left - q,
                                              order |-> IF o = 0 THEN Len(sold) + 1 ELSE o]]
              /\ held' = held - q
    BY Zenon DEF LegFills
  <1>5. q \in Nat \ {0} /\ held' = held - q  BY <1>2, <1>3, <1>4
  <1> DEFINE o == legs[l].order
  <1>6. PICK k : k = IF o = 0 THEN Len(sold) + 1 ELSE o  OBVIOUS
  <1>7. legs' = [legs EXCEPT ![l] = [left |-> legs[l].left - q, order |-> k]]
    BY Zenon, <1>4, <1>6
  <1>8. /\ DOMAIN legs' = DOMAIN Legs /\ legs'[l].order = k
        /\ \A m \in DOMAIN Legs \ {l} : legs'[m].order = legs[m].order
    BY <1>1, <1>7
  <1>9. ASSUME o = 0
        PROVE  legs'[l].order = Len(sold) + 1
               /\ \E f \in Fill : f.old = 0 /\ f.new = q /\ sold' = Append(sold, f)
    <2> DEFINE f == [old |-> 0, new |-> q, loss |-> l \in Stops]
    <2>1. f \in Fill /\ f.old = 0 /\ f.new = q  BY <1>5 DEF Fill
    <2>2. sold' = Append(sold, f)  BY <1>9, <1>4
    <2> HIDE DEF f
    <2> QED BY <2>1, <2>2, <1>6, <1>8, <1>9
  <1>10. ASSUME o # 0
         PROVE  /\ legs'[l].order = o /\ o \in Orders /\ DOMAIN sold' = DOMAIN sold
                /\ sold'[o].old = sold[o].old /\ sold'[o].new = sold[o].new + q
                /\ \A p \in Orders \ {o} : sold'[p] = sold[p]
    <2>1. sold[o] \in Fill /\ o \in Orders  BY <1>1, <1>2, <1>10
    <2>2. PICK a \in Nat : a = sold[o].new + q  BY <2>1, <1>5 DEF Fill
    <2>3. sold' = [sold EXCEPT ![o] = [sold[o] EXCEPT !.new = a]]
      <3>1. sold' = [sold EXCEPT ![o].new = @ + q]  BY <1>10, <1>4
      <3>2. sold' = [sold EXCEPT ![o] = [sold[o] EXCEPT !.new = sold[o].new + q]]  BY <3>1
      <3> QED BY <3>2, <2>2
    <2>4. sold'[o] = [sold[o] EXCEPT !.new = a] /\ DOMAIN sold' = DOMAIN sold
          /\ \A p \in Orders \ {o} : sold'[p] = sold[p]
      BY <2>1, <2>3 DEF Orders
    <2>5. sold'[o].old = sold[o].old /\ sold'[o].new = a  BY <2>1, <2>4 DEF Fill
    <2> QED BY <2>1, <2>2, <2>4, <2>5, <1>6, <1>8, <1>10
  <1>11. UNCHANGED <<bought, sells, row, snap, events, shadow, cool, bot, buys>>
    BY DEF LegFills, ledger, log
  <1> QED BY <1>5, <1>8, <1>9, <1>10, <1>11

\* The BUY row makes every sale an old one.
LEMMA BuyRecorded ==
    ASSUME BooksInv, RecordBuy
    PROVE  /\ DOMAIN sold' = DOMAIN sold /\ Len(sold') = Len(sold)
           /\ \A o \in Orders : /\ sold'[o].old = SoldQty(o) /\ sold'[o].new = 0
                                /\ sold'[o].old >= sold[o].old
                                /\ SoldQty(o)' = SoldQty(o)
  <1>1. sold \in Seq(Fill) /\ Orders = 1 .. Len(sold) /\ Len(sold) \in Nat
    BY OrdersFinite DEF BooksInv, Quantities
  <1>2. sold' = [o \in Orders |-> [sold[o] EXCEPT !.old = @ + sold[o].new, !.new = 0]]
    BY Zenon DEF RecordBuy
  <1>3. DOMAIN sold' = DOMAIN sold  BY Zenon, <1>2 DEF Orders
  <1>4. sold' \in Seq(Fill)
    <2>1. BooksInv'  BY RecordBuyKeeps
    <2> QED BY <2>1 DEF BooksInv, Quantities
  <1>5. Len(sold') = Len(sold)
    <2>1. DOMAIN sold' = 1 .. Len(sold') /\ Len(sold') \in Nat  BY <1>4
    <2> QED BY <2>1, <1>1, <1>3
  <1>6. ASSUME NEW o \in Orders
        PROVE  /\ sold'[o].old = SoldQty(o) /\ sold'[o].new = 0
               /\ sold'[o].old >= sold[o].old /\ SoldQty(o)' = SoldQty(o)
    <2>1. sold[o] \in Fill  BY <1>1
    <2>2. sold'[o] = [sold[o] EXCEPT !.old = @ + sold[o].new, !.new = 0]  BY Zenon, <1>2
    <2>3. PICK a \in Nat : a = sold[o].old + sold[o].new  BY <2>1 DEF Fill
    <2>4. sold'[o] = [sold[o] EXCEPT !.old = a, !.new = 0]  BY <2>1, <2>2, <2>3
    <2>5. sold'[o].old = a /\ sold'[o].new = 0  BY <2>1, <2>4 DEF Fill
    <2>6. a = SoldQty(o) /\ a >= sold[o].old  BY <2>1, <2>3 DEF SoldQty, Fill
    <2>7. SoldQty(o)' = a + 0
      <3>1. PICK p : p = o  OBVIOUS
      <3>2. SoldQty(p)' = a + 0  BY <3>1, <2>5 DEF SoldQty
      <3> QED BY <3>1, <3>2 
    <2> QED BY <2>3, <2>5, <2>6, <2>7
  <1> QED BY <1>3, <1>5, <1>6

LEMMA LegFillsExact ==
    ASSUME NEW l \in DOMAIN Legs, BooksInv, BooksInv', ExactInv, LegFills(l)
    PROVE  ExactInv'
  <1> DEFINE o == legs[l].order
  <1>1. UNCHANGED <<sells, bot>> /\ DOMAIN legs' = DOMAIN Legs
        /\ \A m \in DOMAIN Legs \ {l} : legs'[m].order = legs[m].order
    BY LegSold
  <1>2. ASSUME NEW p \in Procs
        PROVE  /\ BotOk(bot[p], Len(sold)) /\ ProcOk(bot[p]) /\ (~seen.torn => RowsExact /\ HandOk(bot[p]))
               /\ bot'[p] = bot[p]
    BY <1>1, KnownOk
  <1>3. CASE o = 0
    <2>1. PICK f \in Fill : f.old = 0 /\ sold' = Append(sold, f)  BY <1>3, LegSold
    <2>2. legs'[l].order = Len(sold) + 1  BY <1>3, LegSold
    <2>3. \A m \in DOMAIN Legs : legs'[m].order \in {0, legs[m].order, Len(sold) + 1}
      BY <1>1, <2>2
    <2>4. ~seen'.torn => ~seen.torn  BY DEF LegFills, BooksInv, Records, SeenFields
    <2>5. Keyed' /\ (RowsExact => RowsExact')  BY <2>1, <2>3, <1>1, NewOrderBooked
    <2>6. ASSUME NEW p \in Procs
          PROVE  ProcOk(bot[p])' /\ (~seen'.torn => RowsExact /\ HandOk(bot[p])')
      <3>1. PICK b : b = bot[p]  OBVIOUS
      <3>2. BotOk(b, Len(sold)) /\ ProcOk(b) /\ (~seen.torn => RowsExact /\ HandOk(b))  BY <3>1, <1>2
      <3>3. ProcOk(b)' /\ (HandOk(b) => HandOk(b)')  BY <3>2, <2>1, <2>3, <1>1, NewOrderKnown
      <3>4. b = bot'[p]  BY <3>1, <1>2
      <3> QED BY <3>2, <3>3, <3>4, <2>4 DEF ProcOk, HandOk, Read, SoldQty, Legless
    <2>7. OnPanel(bot["panel"])'  BY <1>1 DEF ExactInv, OnPanel
    <2>8. "scan" \in Procs  BY DEF Procs
    <2>9. ~seen'.torn => RowsExact' /\ \A p \in Procs : HandOk(bot[p])'  BY Zenon, <2>5, <2>6, <2>8
    <2> QED BY Zenon, <2>5, <2>6, <2>7, <2>9 DEF ExactInv
  <1>4. CASE o # 0
    <2>1. /\ legs'[l].order = o /\ o \in Orders /\ DOMAIN sold' = DOMAIN sold
          /\ sold'[o].old = sold[o].old
          /\ \A p \in Orders \ {o} : sold'[p] = sold[p]
      BY <1>4, LegSold
    <2>2. \A m \in DOMAIN Legs : legs'[m].order = legs[m].order  BY <1>1, <2>1
    <2>3. Keyed'  BY <1>1, <2>2 DEF ExactInv, Keyed, Legless
    <2>4. ASSUME NEW p \in Procs  PROVE ProcOk(bot[p])'
      BY <1>2, <2>2 DEF ProcOk, Legless
    <2>5. ASSUME ~seen'.torn
          PROVE  /\ ~seen.torn /\ ~Booked(o) /\ sold[o].old <= 0
                 /\ \A p \in Procs : bot[p].order # o /\ o \notin DOMAIN bot[p].fills
      <3>1. PICK t : t = (seen.torn \/ (o # 0 /\ (Booked(o) \/ sold[o].old > 0
                         \/ \E p \in Procs : bot[p].order = o \/ o \in DOMAIN bot[p].fills)))
        OBVIOUS
      <3>2. seen' = [seen EXCEPT !.calm = 0, !.torn = t]  BY Zenon, <3>1 DEF LegFills
      <3>3. seen'.torn = t  BY <3>2 DEF BooksInv, Records, SeenFields
      <3>4. ~t  BY Zenon, <2>5, <3>3
      <3>5. ~seen.torn /\ ~Booked(o) /\ ~(sold[o].old > 0)
            /\ \A p \in Procs : bot[p].order # o /\ o \notin DOMAIN bot[p].fills
        BY Zenon, <1>4, <3>1, <3>4
      <3>6. sold[o] \in Fill  BY <2>1, OrdersFinite
      <3> QED BY <3>5, <3>6 DEF Fill
    <2>6. ASSUME ~seen'.torn  PROVE RowsExact'
      <3>1. RowsExact /\ Orders' = Orders  BY <2>1, <2>5, <2>6 DEF ExactInv, Orders
      <3>2. sold[o] \in Fill  BY <2>1, OrdersFinite
      <3>3. sold'[o].old = 0  BY <3>2, <2>1, <2>5, <2>6 DEF Fill
      <3>4. ASSUME NEW s \in sells  PROVE s.qty = SoldQty(s.order)'
        <4>1. s \in Sale /\ s.order \in Orders
          <5>1. IsFiniteSet(sells)  BY DEF ExactInv, Keyed
          <5> QED BY <5>1, RowsFinite DEF BooksInv, Records
        <4>2. s.order # o
          <5>1. s.key = "order" => s.order # o  BY <2>5, <2>6 DEF Booked
          <5>2. s.key = "client" => s.order # o  BY DEF ExactInv, Keyed, Legless
          <5> QED BY <4>1, <5>1, <5>2 DEF Sale, Keys
        <4>3. sold'[s.order] = sold[s.order]  BY <4>1, <4>2, <2>1
        <4> QED BY <4>3, <3>1 DEF RowsExact, SoldQty
      <3> QED BY <3>1, <3>3, <3>4, <2>1, <1>1 DEF RowsExact
    <2>7. ASSUME ~seen'.torn, NEW p \in Procs  PROVE HandOk(bot[p])'
      <3>1. PICK b : b = bot[p] /\ b = bot'[p]  BY <1>2
      <3>2. HandOk(b) /\ BotOk(b, Len(sold)) /\ b.order # o /\ o \notin DOMAIN b.fills
        BY <2>5, <2>7, <3>1, <1>2
      <3>3. Orders = 1 .. Len(sold) /\ Len(sold) \in Nat  BY OrdersFinite
      <3>4. ASSUME NEW k \in DOMAIN b.fills  PROVE Read(b, k)'
        <4>1. k \in Orders /\ k # o  BY <3>2, <3>3 DEF BotOk
        <4> QED BY <4>1, <3>2, <2>1 DEF HandOk, Read, SoldQty
      <3>5. ASSUME b.at \in {"add", "close"}  PROVE (b.qty = SoldQty(b.order))'
        <4>1. b.order \in Orders  BY <3>2, <3>3, <3>5 DEF BotOk, Busy
        <4> QED BY <4>1, <3>2, <3>5, <2>1 DEF HandOk, SoldQty
      <3>6. HandOk(b)'  BY <3>2, <3>4, <3>5, <1>1 DEF HandOk
      <3> QED BY <3>1, <3>6 DEF HandOk, Read, SoldQty
    <2> QED BY <1>1, <2>3, <2>4, <2>6, <2>7 DEF ExactInv, OnPanel
  <1> QED BY <1>3, <1>4

LEMMA RecordBuyExact ==
    ASSUME BooksInv, BooksInv', ExactInv, RecordBuy
    PROVE  ExactInv'
  <1>0. "scan" \in Procs /\ "panel" \in Procs  BY DEF Procs
  <1>1. /\ UNCHANGED <<sells, legs, seen>> /\ At("scan", "bought")
        /\ bot' = [bot EXCEPT !["scan"].at = "boughtRow"]
    BY DEF RecordBuy, Calm, Go
  <1>2. /\ \A o \in Orders : /\ sold'[o].new = 0 /\ sold'[o].old >= sold[o].old
                             /\ SoldQty(o)' = SoldQty(o)
        /\ Orders' = Orders
    BY BuyRecorded DEF Orders
  <1>3. ASSUME NEW p \in Procs
        PROVE  /\ BotOk(bot[p], Len(sold)) /\ ProcOk(bot[p]) /\ DOMAIN bot[p] = BotFields
               /\ (~seen.torn => RowsExact /\ HandOk(bot[p])) /\ DOMAIN bot = Procs
    BY KnownOk
  <1>4. Keyed'  BY <1>1 DEF ExactInv, Keyed, Legless
  <1>5. ~seen'.torn => RowsExact'
    <2> SUFFICES ASSUME ~seen'.torn PROVE RowsExact'  OBVIOUS
    <2>1. RowsExact  BY <1>0, <1>1, <1>3
    <2>2. \A s \in sells : s.order \in Orders
      <3>1. IsFiniteSet(sells)  BY DEF ExactInv, Keyed
      <3> QED BY <3>1, RowsFinite
    <2>3. \A s \in sells : s.qty = SoldQty(s.order)'  BY <2>1, <2>2, <1>2 DEF RowsExact
    <2> QED BY <2>3, <1>1, <1>2 DEF RowsExact
  <1>6. ASSUME NEW b, BotOk(b, Len(sold)), HandOk(b)  PROVE HandOk(b)'
    <2>1. Orders = 1 .. Len(sold) /\ Len(sold) \in Nat  BY OrdersFinite
    <2>2. ASSUME NEW o \in DOMAIN b.fills  PROVE Read(b, o)'
      <3>1. o \in Orders /\ Len(b.fills) \in Nat /\ b.fills[o] \in Fill  BY <1>6, <2>1 DEF BotOk
      <3>2. sold[o] \in Fill /\ sold'[o] \in Fill
        <4>1. \A p \in Orders : sold'[p] \in Fill
          <5>1. (sold \in Seq(Fill))'  BY DEF BooksInv, Quantities
          <5>2. DOMAIN sold' = Orders  BY <1>2 DEF Orders
          <5> QED BY <5>1, <5>2
        <4> QED BY <3>1, <1>2, <4>1, OrdersFinite
      <3>3. sold'[o].old >= sold[o].old /\ SoldQty(o)' = SoldQty(o)  BY <3>1, <1>2
      <3>4. Read(b, o)  BY <1>6 DEF HandOk
      <3> DEFINE f == b.fills[o]
      <3>5. f.old <= sold'[o].old  BY <3>1, <3>2, <3>3, <3>4 DEF Read, Fill
      <3> QED BY <3>3, <3>4, <3>5 DEF Read
    <2>3. ASSUME b.at \in {"add", "close"}  PROVE (b.qty = SoldQty(b.order))'
      <3>1. b.order \in Orders  BY <1>6, <2>1, <2>3 DEF BotOk, Busy
      <3> QED BY <3>1, <1>6, <2>3, <1>2 DEF HandOk
    <2> QED BY <2>2, <2>3, <1>1, <1>6 DEF HandOk
  <1>7. PICK b, c : b = bot["scan"] /\ c = [b EXCEPT !.at = "boughtRow"]  OBVIOUS
  <1>8. /\ c.at = "boughtRow" /\ c.work = b.work /\ c.gap = b.gap /\ c.cap = b.cap /\ c.key = b.key
        /\ c.todo = b.todo /\ c.fills = b.fills /\ c.pass = b.pass /\ c.order = b.order
    BY <1>0, <1>3, <1>7 DEF BotFields
  <1>9. b.work = "drift"  BY <1>0, <1>1, <1>3, <1>7 DEF At, ProcOk, InPlace, Rest
  <1>10. ProcOk(c)  BY <1>0, <1>3, <1>7, <1>8, <1>9 DEF ProcOk, InPlace
  <1>11. ~seen.torn => HandOk(c)  BY <1>0, <1>3, <1>7, <1>8, <1>9 DEF HandOk, Read, InHand
  <1>12. BotOk(c, Len(sold))
    <2>1. BotOk(b, Len(sold))  BY <1>0, <1>3, <1>7
    <2> QED BY <2>1, <1>7 DEF BotOk, BotFields, Busy
  <1>13. ASSUME NEW p \in Procs
         PROVE  ProcOk(bot[p])' /\ (~seen'.torn => HandOk(bot[p])')
    <2>1. PICK d : d = bot'[p]  OBVIOUS
    <2>2. BotOk(d, Len(sold)) /\ ProcOk(d) /\ (~seen.torn => HandOk(d))
      <3>1. CASE p = "scan"
        <4>1. d = c  BY <3>1, <2>1, <1>0, <1>1, <1>3, <1>7
        <4> QED BY <4>1, <1>10, <1>11, <1>12
      <3>2. CASE p # "scan"
        <4>1. d = bot[p]  BY <3>2, <2>1, <1>1, <1>3
        <4> QED BY <4>1, <1>3
      <3> QED BY <3>1, <3>2
    <2>3. ProcOk(d)'  BY <2>2, <1>1 DEF ProcOk, Legless
    <2>4. ~seen'.torn => HandOk(d)'  BY <2>2, <1>1, <1>6
    <2> QED BY <2>1, <2>3, <2>4 DEF ProcOk, HandOk, Read, SoldQty, Legless
  <1>14. OnPanel(bot["panel"])'  BY <1>0, <1>1, <1>3 DEF ExactInv, OnPanel
  <1> QED BY <1>4, <1>5, <1>13, <1>14 DEF ExactInv

-----------------------------------------------------------------------------
(* Every order at what it sold, always                                      *)

LEMMA ExactStart == Init => ExactInv
  <1> SUFFICES ASSUME Init PROVE ExactInv  OBVIOUS
  <1>1. \A p \in Procs : bot[p] = Rest  BY DEF Init
  <1>2. ProcOk(Rest) /\ HandOk(Rest)  BY IdleOk, RestAt
  <1>3. OnPanel(Rest)  BY DEF OnPanel, Rest
  <1>4. sells = {} /\ IsFiniteSet(sells) /\ sold = <<>> /\ Orders = {}
    BY FS_EmptySet DEF Init, Orders
  <1>5. Keyed /\ RowsExact  BY <1>4 DEF Keyed, RowsExact
  <1>6. "panel" \in Procs  BY DEF Procs
  <1> QED BY <1>1, <1>2, <1>3, <1>5, <1>6 DEF ExactInv

LEMMA StepExact ==
    ASSUME NEW me \in Procs, BooksInv, BooksInv', ExactInv, Step(me)
    PROVE  ExactInv'
BY CheckEventExact, AppendEventExact, AddTradeExact, NoteLossExact, CompareExact, FetchExact,
   NextLegExact, TrimExact, FetchFillsExact, NextOrderExact, FixRowExact, FillsDoneExact DEF Step

LEMMA ExactKept == BooksInv /\ BooksInv' /\ ExactInv /\ [Next]_vars => ExactInv'
  <1> SUFFICES ASSUME BooksInv, BooksInv', ExactInv, [Next]_vars PROVE ExactInv'  OBVIOUS
  <1>0. "scan" \in Procs /\ "panel" \in Procs /\ "order" \in Keys /\ "client" \in Keys
    BY DEF Procs, Keys
  <1>1. CASE Step("scan") \/ Step("panel")  BY <1>0, <1>1, StepExact
  <1>2. CASE Sync \/ Buy \/ RecordBuy \/ LogBuy
    BY <1>2, SyncExact, BuyExact, RecordBuyExact, LogBuyExact
  <1>3. CASE Close("order") \/ Close("client") \/ CloseTrade \/ CloseRow
    BY <1>0, <1>3, CloseExact, CloseTradeExact, CloseRowExact
  <1>4. CASE Exit("scan") \/ Exit("panel")  BY <1>0, <1>4, ExitExact
  <1>5. CASE Market  BY <1>5, LegFillsExact DEF Market
  <1>6. CASE \E p \in Procs : Unreadable(p) \/ Dies(p)  BY <1>6, UnreadableExact, DiesExact
  <1>7. CASE UNCHANGED vars
    <2>1. UNCHANGED <<sold, legs, sells, bot, seen>>
      BY <1>7 DEF vars, exchange, ledger
    <2>2. Keyed'  BY <2>1 DEF ExactInv, Keyed, Legless
    <2>3. RowsExact => RowsExact'  BY <2>1 DEF RowsExact, SoldQty, Orders
    <2>4. \A p \in Procs : ProcOk(bot[p])'  BY <2>1 DEF ExactInv, ProcOk, Legless
    <2>5. ~seen'.torn => \A p \in Procs : HandOk(bot[p])'
      BY <2>1 DEF ExactInv, HandOk, Read, SoldQty
    <2>6. OnPanel(bot["panel"])'  BY <2>1 DEF ExactInv, OnPanel
    <2>7. ~seen'.torn => RowsExact'  BY <2>1, <2>3 DEF ExactInv
    <2> QED BY Zenon, <2>2, <2>4, <2>5, <2>6, <2>7 DEF ExactInv
  <1> QED BY <1>1, <1>2, <1>3, <1>4, <1>5, <1>6, <1>7 DEF Next, Scan, Panel

LEMMA ExactAlways == Spec => [](BooksInv /\ ExactInv)
BY ExactStart, ExactKept, BooksStart, BooksKept, PTL DEF Spec

\* Whatever sells and whoever books it, in any order of their steps and however
\* often a process dies: an order whose fills nobody has read before their end
\* is in the ledger at what it sold, and unless its seller and the reconciler
\* both booked it, the ledger has no more sales than were made.
THEOREM SalesBookedOnce == Spec => []BookedAsSold
  <1>1. BooksInv /\ ExactInv => BookedAsSold
    <2> SUFFICES ASSUME BooksInv, ExactInv PROVE BookedAsSold  OBVIOUS
    <2>1. ~seen.torn => RowsExact  BY DEF ExactInv
    <2>2. Keyed  BY DEF ExactInv
    <2>3. Proper => AllBooked <= AllSold  BY <2>1, <2>2, LedgerSplits DEF Proper
    <2>4. ~seen.torn => \A s \in sells : s.qty = SoldQty(s.order)  BY <2>1 DEF RowsExact
    <2> QED BY <2>3, <2>4 DEF BookedAsSold
  <1> QED BY <1>1, ExactAlways, PTL

-----------------------------------------------------------------------------
(* What was bought is held or sold                                          *)

\* The places of a reconciling process.
Places == {"event", "append", "add", "note", "drop", "ready", "fetch", "leg", "trim", "fills",
           "order", "fix"}

LEMMA NextPlace ==
    ASSUME NEW b, NEW counted \in BOOLEAN, NEW n \in Nat, BotOk(b, n)
    PROVE  Next1(b, counted).at \in {"ready", "leg", "fix", "order"}
  <1>1. CASE b.work = "close"  BY <1>1 DEF Next1, Rest
  <1>2. CASE b.work # "close"
    <2> DEFINE d == [b EXCEPT !.todo = @ \ {b.order}, !.order = 0, !.qty = 0]
    <2>1. DOMAIN d = BotFields  BY DEF BotOk
    <2>2. b.work = "drift" => Next1(b, counted) = [d EXCEPT !.at = "leg", !.gap = @ - b.qty,
                                !.cap = IF counted THEN @ - b.qty ELSE @]
      BY <1>2 DEF Next1
    <2>3. b.work # "drift" => Next1(b, counted) = [d EXCEPT !.at = IF counted THEN "fix" ELSE "order"]
      BY <1>2 DEF Next1
    <2> HIDE DEF d
    <2>4. b.work = "drift" => Next1(b, counted).at = "leg"  BY <2>1, <2>2 DEF BotFields
    <2>5. b.work # "drift" => Next1(b, counted).at \in {"fix", "order"}  BY <2>1, <2>3 DEF BotFields
    <2> QED BY <2>4, <2>5
  <1> QED BY <1>1, <1>2

\* What a scan makes of the account.
LEMMA Compared ==
    ASSUME NEW me \in Procs, BooksInv, Compare(me)
    PROVE  LET c == bot'["scan"]
               main == row > 0 /\ Significant(Net - held, held)
               pathB == row = 0 /\ snap /\ held = 0 /\ Net > 0
               pathC == ~main /\ ~pathB /\ Net > 0 /\ Significant(Net - held, held)
           IN  /\ me = "scan" /\ bot' = [bot EXCEPT !["scan"] = c]
               /\ c.work = "drift" /\ c.ex = held /\ c.gap = Net - held /\ c.cap = Net - held
               /\ c.pass = 1 /\ c.todo = {} /\ c.fills = <<>> /\ c.order = 0 /\ c.qty = 0
               /\ c.at \in {"fetch", "trim"}
               /\ c.at = "fetch" <=> main \/ pathB \/ pathC
               /\ c.pre <=> main \/ pathC
               /\ c.main <=> main
  <1> DEFINE gap == Net - held
             main == row > 0 /\ Significant(gap, held)
             pathB == row = 0 /\ snap /\ held = 0 /\ Net > 0
             pathC == ~main /\ ~pathB /\ Net > 0 /\ Significant(gap, held)
             a == IF main \/ pathB \/ pathC THEN "fetch" ELSE "trim"
             m == main
             e == main \/ pathC
             c == [Rest EXCEPT !.at = a, !.ex = held, !.gap = gap, !.cap = gap,
                               !.main = m, !.pre = e]
  <1>1. me = "scan" /\ bot' = [bot EXCEPT !["scan"] = c]  BY DEF Compare
  <1>2. a \in {"fetch", "trim"} /\ (a = "fetch" <=> main \/ pathB \/ pathC)  OBVIOUS
  <1>3. m <=> main  OBVIOUS
  <1>4. e <=> main \/ pathC  OBVIOUS
  <1>5. /\ c.at = a /\ c.work = "drift" /\ c.ex = held /\ c.gap = gap /\ c.cap = gap
        /\ c.pass = 1 /\ c.todo = {} /\ c.fills = <<>> /\ c.order = 0 /\ c.qty = 0
        /\ c.main = m /\ c.pre = e
    <2> HIDE DEF a, gap, m, e, main, pathC
    <2> QED BY DEF Rest
  <1>6. bot'["scan"] = c
    <2> HIDE DEF c
    <2> QED BY <1>1 DEF BooksInv, BotsOk, Procs
  <1> HIDE DEF c, a, m, e
  <1> QED BY <1>1, <1>2, <1>3, <1>4, <1>5, <1>6

\* Reconciling sells nothing, and moves one process from place to place.
LEMMA StepMoves ==
    ASSUME NEW me \in Procs, BooksInv, Step(me)
    PROVE  /\ UNCHANGED <<held, legs, sold, bought, buys, troubles>>
           /\ bot[me].at \in Places /\ bot'[me].at \in Places \cup {"rest"}
           /\ \A p \in Procs \ {me} : bot'[p] = bot[p]
           /\ seen'.died = seen.died /\ seen'.torn = seen.torn /\ seen'.overlap = seen.overlap
           /\ seen'.panel = seen.panel
  <1>0. /\ BotOk(bot[me], Len(sold)) /\ Len(sold) \in Nat /\ DOMAIN bot = Procs /\ DOMAIN seen = SeenFields
        /\ DOMAIN bot[me] = BotFields
    BY DEF BooksInv, BotsOk, Quantities, Records, BotOk
  <1>1. CASE CheckEvent(me)
    <2>1. bot'[me].at \in Places
      <3>1. CASE bot'[me] = Next1(bot[me], bot[me].work # "backfill")
        BY <3>1, <1>0, NextPlace DEF Places
      <3>2. CASE bot'[me] = [bot[me] EXCEPT !.at = "append"]  BY <3>2, <1>0 DEF Places, BotFields
      <3> QED BY <3>1, <3>2, <1>1, <1>0 DEF CheckEvent
    <2> QED BY <1>0, <1>1, <2>1 DEF CheckEvent, At, exchange, ledger, Calm, Places
  <1>2. CASE AppendEvent(me)
    <2>1. bot'[me] = Next1(bot[me], TRUE)  BY <1>0, <1>2 DEF AppendEvent
    <2>2. bot'[me].at \in Places  BY <1>0, <2>1, NextPlace DEF Places
    <2> QED BY <1>0, <1>2, <2>2 DEF AppendEvent, At, exchange, ledger, Calm, Places
  <1>3. CASE AddTrade(me)
    <2>1. bot'[me].at \in Places
      <3>1. CASE bot' = [bot EXCEPT ![me] = Next1(bot[me], FALSE)]
        BY <3>1, <1>0, NextPlace DEF Places
      <3>2. CASE Go(me, "note")  BY <3>2, <1>0 DEF Places, BotFields, Go
      <3> QED BY <3>1, <3>2, <1>3 DEF AddTrade
    <2>2. \A p \in Procs \ {me} : bot'[p] = bot[p]  BY <1>0, <1>3 DEF AddTrade, Go
    <2> QED BY <1>0, <1>3, <2>1, <2>2 DEF AddTrade, At, exchange, Calm, Places
  <1>4. CASE NoteLoss(me)
    BY <1>0, <1>4 DEF NoteLoss, At, Go, exchange, ledger, Calm, Places, BotFields
  <1>5. CASE Compare(me)
    <2>1. bot'[me].at \in {"fetch", "trim"} /\ \A p \in Procs \ {me} : bot'[p] = bot[p]
      <3>1. me = "scan" /\ bot'["scan"].at \in {"fetch", "trim"}
            /\ bot' = [bot EXCEPT !["scan"] = bot'["scan"]]
        BY <1>5, Compared
      <3>2. PICK c : c = bot'["scan"]  OBVIOUS
      <3>3. bot' = [bot EXCEPT !["scan"] = c] /\ c.at \in {"fetch", "trim"}  BY <3>1, <3>2
      <3> QED BY <3>1, <3>3, <1>0
    <2>2. /\ seen'.died = seen.died /\ seen'.torn = seen.torn /\ seen'.overlap = seen.overlap
          /\ seen'.panel = seen.panel
      BY <1>0, <1>5 DEF Compare, SeenFields
    <2>3. UNCHANGED <<held, legs, sold, bought, buys, troubles>> /\ bot[me].at \in Places
      BY <1>5 DEF Compare, At, exchange, ledger, Places
    <2> QED BY <2>1, <2>2, <2>3 DEF Places
  <1>6. CASE Fetch(me)
    <2>1. PICK u, t : bot' = [bot EXCEPT ![me].at = "leg", ![me].fills = u, ![me].todo = t]
      BY <1>6 DEF Fetch
    <2>2. bot'[me].at = "leg" /\ \A p \in Procs \ {me} : bot'[p] = bot[p]
      BY <2>1, <1>0 DEF BotFields
    <2> QED BY <2>2, <1>6 DEF Fetch, At, exchange, ledger, Calm, Places
  <1>7. CASE NextLeg(me)
    <2>1. NextPass(bot[me]).at \in {"leg", "trim"}
      <3>1. bot[me].at = "leg"  BY <1>7 DEF NextLeg, At
      <3>2. PICK t : t = Older(bot[me].fills)  OBVIOUS
      <3> QED BY <3>1, <3>2, <1>0 DEF NextPass, BotFields
    <2>2. PICK c : bot' = [bot EXCEPT ![me] = c] /\
                   (c = NextPass(bot[me]) \/
                    \E o, q, t : c = [bot[me] EXCEPT !.at = "add", !.order = o, !.qty = q, !.todo = t])
      BY <1>7 DEF NextLeg
    <2>3. c.at \in {"leg", "trim", "add"}  BY <2>1, <2>2, <1>0 DEF BotFields
    <2>4. bot'[me] = c /\ \A p \in Procs \ {me} : bot'[p] = bot[p]  BY <2>2, <1>0
    <2> QED BY <2>3, <2>4, <1>7 DEF NextLeg, At, exchange, ledger, Calm, Places
  <1>8. CASE Trim(me)
    BY <1>0, <1>8 DEF Trim, At, exchange, ledger, Calm, Places, Rest
  <1>9. CASE FetchFills(me)
    <2>1. PICK x, f, t : bot' = [bot EXCEPT ![me] = [Rest EXCEPT
                  !.at = "order", !.work = "full", !.ex = x, !.fills = f, !.todo = t]]
      BY <1>9 DEF FetchFills
    <2>2. bot'[me].at = "order" /\ \A p \in Procs \ {me} : bot'[p] = bot[p]  BY <2>1, <1>0 DEF Rest
    <2> QED BY <2>2, <1>9 DEF FetchFills, At, exchange, ledger, Calm, Places
  <1>10. CASE NextOrder(me)
    <2>1. PICK c : bot' = [bot EXCEPT ![me] = c] /\
                   (c = [bot[me] EXCEPT !.todo = {}] \/
                    \E o, q, w, a : /\ a \in {"event", "add"}
                                    /\ c = [bot[me] EXCEPT !.order = o, !.qty = q,
                                              !.todo = {p \in @ : p >= o}, !.work = w, !.at = a])
      BY <1>10 DEF NextOrder
    <2>2. c.at \in {"order", "event", "add"}
      <3>1. bot[me].at = "order"  BY <1>10 DEF NextOrder, At
      <3> QED BY <3>1, <2>1, <1>0 DEF BotFields
    <2>3. bot'[me] = c /\ \A p \in Procs \ {me} : bot'[p] = bot[p]  BY <2>1, <1>0
    <2> QED BY <2>2, <2>3, <1>10 DEF NextOrder, At, exchange, ledger, Calm, Places
  <1>11. CASE FixRow(me)
    BY <1>0, <1>11 DEF FixRow, At, Go, exchange, ledger, Calm, Places, BotFields
  <1>12. CASE FillsDone(me)
    BY <1>0, <1>12 DEF FillsDone, At, exchange, ledger, Calm, Places, Rest
  <1> QED BY <1>1, <1>2, <1>3, <1>4, <1>5, <1>6, <1>7, <1>8, <1>9, <1>10, <1>11, <1>12 DEF Step

LEMMA BalanceStays ==
    ASSUME Balance, UNCHANGED <<held, sold, bought>>,
           "bought" \in seen.died => "bought" \in seen'.died,
           At("scan", "bought")' <=> At("scan", "bought")
    PROVE  Balance'
  <1>1. AllSold' = AllSold  BY DEF AllSold, Orders, SoldQty
  <1>2. Unrecorded' = Unrecorded  BY DEF Unrecorded
  <1> QED BY <1>1, <1>2 DEF Balance

LEMMA BalanceStep ==
    ASSUME NEW me \in Procs, BooksInv, Balance, Step(me)
    PROVE  Balance'
  <1>1. At("scan", "bought")' <=> At("scan", "bought")
    <2>1. CASE me = "scan"  BY <2>1, StepMoves DEF At, Places
    <2>2. CASE me # "scan"
      <3>1. bot'["scan"] = bot["scan"]  BY <2>2, StepMoves DEF Procs
      <3> QED BY <3>1 DEF At
    <2> QED BY <2>1, <2>2
  <1> QED BY <1>1, StepMoves, BalanceStays

LEMMA BalanceSale ==
    ASSUME BooksInv, BooksInv', Balance, SellAll, UNCHANGED bought, seen'.died = seen.died,
           ~At("scan", "bought"), ~At("scan", "bought")'
    PROVE  Balance'
  <1> DEFINE f == [old |-> 0, new |-> held, loss |-> TRUE]
  <1>1. f \in Fill /\ sold' = Append(sold, f) /\ held \in Nat /\ held' = 0 /\ f.old + f.new = held
    BY SoldAll
  <1> HIDE DEF f
  <1>2. AllSold' = AllSold + held  BY <1>1, OneMoreSold
  <1>3. AllSold \in Nat /\ bought \in Nat  BY OrdersFinite DEF BooksInv, Quantities
  <1>4. Unrecorded = 0 /\ Unrecorded' = 0  BY DEF Unrecorded
  <1> QED BY <1>1, <1>2, <1>3, <1>4 DEF Balance

LEMMA BalanceKept == BooksInv /\ BooksInv' /\ ExactInv /\ Balance /\ [Next]_vars => Balance'
  <1> SUFFICES ASSUME BooksInv, BooksInv', ExactInv, Balance, [Next]_vars PROVE Balance'  OBVIOUS
  <1>0. /\ "scan" \in Procs /\ "panel" \in Procs /\ DOMAIN bot = Procs /\ DOMAIN seen = SeenFields
        /\ \A p \in Procs : DOMAIN bot[p] = BotFields
        /\ Size \in Nat /\ bought \in Nat /\ held \in Nat /\ AllSold \in Nat
    BY SizeNat, OrdersFinite DEF Procs, BooksInv, BotsOk, Records, BotOk, Quantities
  <1>1. CASE Step("scan") \/ Step("panel")  BY <1>0, <1>1, BalanceStep
  <1>2. CASE Sync
    <2>1. /\ UNCHANGED <<held, sold, bought>> /\ seen'.died = seen.died
          /\ ~At("scan", "bought") /\ ~At("scan", "bought")'
      BY <1>0, <1>2 DEF Sync, At, Go, exchange, ledger, SeenFields, BotFields
    <2> QED BY <2>1, BalanceStays
  <1>3. CASE Buy
    <2>1. /\ UNCHANGED <<sold, bought, seen>> /\ held = 0 /\ held' = Size
          /\ ~At("scan", "bought") /\ At("scan", "bought")'
      BY <1>0, <1>3 DEF Buy, At, Go, ledger, Calm, BotFields
    <2>2. AllSold' = AllSold  BY <2>1 DEF AllSold, Orders, SoldQty
    <2>3. Unrecorded = 0 /\ Unrecorded' = Size  BY <2>1 DEF Unrecorded, Size
    <2> QED BY <2>1, <2>2, <2>3, <1>0 DEF Balance
  <1>4. CASE RecordBuy
    <2>1. /\ UNCHANGED <<held, seen>> /\ bought' = bought + Size
          /\ At("scan", "bought") /\ ~At("scan", "bought")'
      BY <1>0, <1>4 DEF RecordBuy, At, Go, Calm, BotFields
    <2>2. AllSold' = AllSold
      <3>1. DOMAIN sold' = DOMAIN sold /\ \A o \in Orders : SoldQty(o)' = SoldQty(o)
        BY <1>4, BuyRecorded
      <3> QED BY <3>1, SameSold
    <2>3. Unrecorded = Size /\ Unrecorded' = 0  BY <2>1 DEF Unrecorded
    <2> QED BY <2>1, <2>2, <2>3, <1>0 DEF Balance
  <1>5. CASE LogBuy
    <2>1. /\ UNCHANGED <<held, sold, bought, seen>>
          /\ ~At("scan", "bought") /\ ~At("scan", "bought")'
      BY <1>0, <1>5 DEF LogBuy, At, Go, exchange, ledger, Calm, BotFields
    <2> QED BY <2>1, BalanceStays
  <1>6. CASE Close("order") \/ Close("client")
    <2>1. PICK key \in Keys : Close(key)  BY <1>6 DEF Keys
    <2>2. SellAll /\ UNCHANGED bought /\ seen'.died = seen.died /\ ~At("scan", "bought")
      BY <1>0, <2>1 DEF Close, At, ledger, SeenFields
    <2>3. ~At("scan", "bought")'
      <3>1. PICK n, q : bot' = [bot EXCEPT !["scan"] = [Rest EXCEPT !.at = "close", !.work = "close",
                  !.order = n, !.key = key, !.qty = q]]
        BY <2>1 DEF Close
      <3> QED BY <3>1, <1>0 DEF At, Rest
    <2> QED BY <2>2, <2>3, BalanceSale
  <1>7. CASE CloseTrade \/ CloseRow
    <2>1. /\ UNCHANGED <<held, sold, bought, seen>>
          /\ ~At("scan", "bought") /\ ~At("scan", "bought")'
      BY <1>0, <1>7 DEF CloseTrade, CloseRow, At, Go, exchange, ledger, Calm, BotFields
    <2> QED BY <2>1, BalanceStays
  <1>8. CASE Exit("scan") \/ Exit("panel")
    <2>1. PICK me \in Procs : Exit(me)  BY <1>0, <1>8
    <2>2. SellAll /\ UNCHANGED bought /\ seen'.died = seen.died
      BY <1>0, <2>1 DEF Exit, ledger, SeenFields
    <2>3. CASE me = "scan"
      <3>1. ~At("scan", "bought") /\ ~At("scan", "bought")'
        BY <1>0, <2>1, <2>3 DEF Exit, At, Go, BotFields
      <3> QED BY <3>1, <2>2, BalanceSale
    <2>4. CASE me # "scan"
      <3>1. At("scan", "bought")' <=> At("scan", "bought")
        BY <1>0, <2>1, <2>4 DEF Exit, At, Go
      <3>2. Unrecorded' = Unrecorded  BY <3>1 DEF Unrecorded
      <3> DEFINE f == [old |-> 0, new |-> held, loss |-> TRUE]
      <3>3. f \in Fill /\ sold' = Append(sold, f) /\ held' = 0 /\ f.old + f.new = held
        BY <2>2, SoldAll
      <3> HIDE DEF f
      <3>4. AllSold' = AllSold + held  BY <3>3, OneMoreSold
      <3>5. Unrecorded \in Nat  BY <1>0 DEF Unrecorded
      <3> QED BY <2>2, <3>2, <3>3, <3>4, <3>5, <1>0 DEF Balance
    <2> QED BY <2>3, <2>4
  <1>9. CASE Market
    <2>1. PICK l \in DOMAIN Legs : LegFills(l)  BY <1>9 DEF Market
    <2>2. UNCHANGED <<bought, bot>>  BY <2>1, LegSold
    <2>3. seen'.died = seen.died  BY <1>0, <2>1 DEF LegFills, SeenFields
    <2>4. Unrecorded' = Unrecorded /\ Unrecorded \in Nat  BY <2>2, <1>0 DEF Unrecorded, At
    <2>5. \E q \in Nat : held' = held - q /\ AllSold' = AllSold + q
      <3>1. CASE legs[l].order = 0
        <4>1. PICK q \in Nat, f \in Fill :
                held' = held - q /\ f.old = 0 /\ f.new = q /\ sold' = Append(sold, f)
          BY <2>1, <3>1, LegSold
        <4>2. AllSold' = AllSold + (f.old + f.new)  BY <4>1, OneMoreSold
        <4> QED BY <4>1, <4>2
      <3>2. CASE legs[l].order # 0
        <4>0. PICK o : o = legs[l].order  OBVIOUS
        <4>1. PICK q \in Nat : /\ held' = held - q /\ o \in Orders /\ DOMAIN sold' = DOMAIN sold
                               /\ sold'[o].old = sold[o].old /\ sold'[o].new = sold[o].new + q
                               /\ \A p \in Orders \ {o} : sold'[p] = sold[p]
          BY <2>1, <3>2, <4>0, LegSold
        <4>2. sold[o] \in Fill  BY <4>1, OrdersFinite
        <4>3. SoldQty(o)' = SoldQty(o) + q  BY <4>1, <4>2 DEF SoldQty, Fill
        <4>4. \A p \in Orders \ {o} : SoldQty(p)' = SoldQty(p)  BY <4>1 DEF SoldQty
        <4>5. AllSold' = AllSold + q  BY <4>1, <4>3, <4>4, MoreSold
        <4> QED BY <4>1, <4>5
      <3> QED BY <3>1, <3>2
    <2>6. PICK q \in Nat : held' = held - q /\ AllSold' = AllSold + q  BY <2>5
    <2> QED BY <2>2, <2>3, <2>4, <2>6, <1>0 DEF Balance
  <1>10. CASE \E p \in Procs : Unreadable(p) \/ Dies(p)
    <2>1. PICK p \in Procs : Unreadable(p) \/ Dies(p)  BY <1>10
    <2>2. CASE Unreadable(p)
      <3>1. UNCHANGED <<held, sold, bought>> /\ seen'.died = seen.died
        BY <1>0, <2>2 DEF Unreadable, exchange, ledger, SeenFields
      <3>2. /\ bot[p].at \in {"ready", "fetch", "fills"} /\ bot'[p].at \in {"trim", "fills", "rest"}
            /\ \A r \in Procs \ {p} : bot'[r] = bot[r]
        BY <1>0, <2>2 DEF Unreadable, Rest, BotFields
      <3>3. At("scan", "bought")' <=> At("scan", "bought")
        <4>1. CASE p = "scan"  BY <4>1, <3>2 DEF At
        <4>2. CASE p # "scan"
          <5>1. bot'["scan"] = bot["scan"]  BY <4>2, <3>2, <1>0
          <5> QED BY <5>1 DEF At
        <4> QED BY <4>1, <4>2
      <3> QED BY <3>1, <3>3, BalanceStays
    <2>3. CASE Dies(p)
      <3>1. UNCHANGED <<held, sold, bought>> /\ seen'.died = seen.died \cup {bot[p].at}
            /\ bot' = [bot EXCEPT ![p] = Rest]
        BY <1>0, <2>3 DEF Dies, exchange, ledger, SeenFields
      <3>2. CASE p = "scan" /\ bot[p].at = "bought"
        BY <3>1, <3>2 DEF Balance
      <3>3. CASE ~(p = "scan" /\ bot[p].at = "bought")
        <4>1. At("scan", "bought")' <=> At("scan", "bought")
          <5>1. CASE p = "scan"  BY <5>1, <3>1, <3>3, <1>0 DEF At, Rest
          <5>2. CASE p # "scan"
            <6>1. bot'["scan"] = bot["scan"]  BY <5>2, <3>1, <1>0
            <6> QED BY <6>1 DEF At
          <5> QED BY <5>1, <5>2
        <4> QED BY <4>1, <3>1, BalanceStays
      <3> QED BY <3>2, <3>3
    <2> QED BY <2>1, <2>2, <2>3
  <1>11. CASE UNCHANGED vars
    <2>1. UNCHANGED <<held, sold, bought, seen, bot>>  BY <1>11 DEF vars, exchange, ledger
    <2> QED BY <2>1, BalanceStays DEF At
  <1> QED BY <1>1, <1>2, <1>3, <1>4, <1>5, <1>6, <1>7, <1>8, <1>9, <1>10, <1>11 DEF Next, Scan, Panel

LEMMA BalanceStart == Init => Balance
  <1> SUFFICES ASSUME Init PROVE Balance  OBVIOUS
  <1>1. bot["scan"] = Rest /\ held = 0 /\ bought = 0 /\ sold = <<>>  BY DEF Init, Procs
  <1>2. Unrecorded = 0  BY <1>1 DEF Unrecorded, At, Rest
  <1>3. Orders = {}  BY <1>1 DEF Orders
  <1>4. AllSold = 0
    <2>1. BooksInv  BY BooksStart
    <2>2. AllSold = SumFunctionOnSet(Sq, Orders)  BY <2>1, OrdersFinite
    <2> QED BY <1>3, <2>2, SumEmpty
  <1> QED BY <1>1, <1>2, <1>4 DEF Balance

-----------------------------------------------------------------------------
(* What a step makes of what a process knows                                *)

LEMMA NextFields ==
    ASSUME NEW b, NEW counted \in BOOLEAN, NEW n \in Nat, BotOk(b, n)
    PROVE  LET c == Next1(b, counted)
           IN  /\ b.work = "close" => c = [Rest EXCEPT !.at = "ready"]
               /\ b.work # "close" =>
                    /\ c.work = b.work /\ c.ex = b.ex /\ c.pre = b.pre /\ c.pass = b.pass
                    /\ c.fills = b.fills /\ c.todo = b.todo \ {b.order} /\ c.order = 0
                    /\ c.key = b.key /\ c.qty = 0 /\ c.main = b.main
               /\ b.work = "drift" =>
                    /\ c.at = "leg" /\ c.gap = b.gap - b.qty
                    /\ c.cap = IF counted THEN b.cap - b.qty ELSE b.cap
               /\ b.work \in {"full", "backfill"} => c.at = IF counted THEN "fix" ELSE "order"
  <1> DEFINE c == Next1(b, counted)
             d == [b EXCEPT !.todo = @ \ {b.order}, !.order = 0, !.qty = 0]
  <1>0. DOMAIN b = BotFields /\ b.work \in Work  BY DEF BotOk
  <1>1. CASE b.work = "close"
    <2>1. c = [Rest EXCEPT !.at = "ready"]  BY <1>1 DEF Next1
    <2> QED BY <1>1, <2>1
  <1>2. CASE b.work # "close"
    <2>1. /\ d.at = b.at /\ d.work = b.work /\ d.ex = b.ex /\ d.pre = b.pre /\ d.pass = b.pass
          /\ d.fills = b.fills /\ d.todo = b.todo \ {b.order} /\ d.order = 0 /\ d.gap = b.gap
          /\ d.cap = b.cap /\ d.key = b.key /\ d.qty = 0 /\ d.main = b.main /\ DOMAIN d = BotFields
      BY <1>0 DEF BotFields
    <2>2. b.work = "drift" =>
            c = [d EXCEPT !.at = "leg", !.gap = @ - b.qty, !.cap = IF counted THEN @ - b.qty ELSE @]
      BY <1>2 DEF Next1
    <2>3. b.work # "drift" => c = [d EXCEPT !.at = IF counted THEN "fix" ELSE "order"]
      BY <1>2 DEF Next1
    <2> HIDE DEF c, d
    <2>4. CASE b.work = "drift"
      <3>1. PICK x, y : x = b.gap - b.qty /\ y = (IF counted THEN b.cap - b.qty ELSE b.cap)
        OBVIOUS
      <3>2. c = [d EXCEPT !.at = "leg", !.gap = x, !.cap = y]
        BY <2>1, <2>2, <2>4, <3>1 DEF BotFields
      <3>3. /\ c.at = "leg" /\ c.gap = x /\ c.cap = y
            /\ c.work = d.work /\ c.ex = d.ex /\ c.pre = d.pre /\ c.pass = d.pass
            /\ c.fills = d.fills /\ c.todo = d.todo /\ c.order = d.order
            /\ c.key = d.key /\ c.qty = d.qty /\ c.main = d.main
        BY <2>1, <3>2 DEF BotFields
      <3> QED BY <2>1, <2>4, <3>1, <3>3 DEF c
    <2>5. CASE b.work # "drift"
      <3>1. /\ c.at = IF counted THEN "fix" ELSE "order"
            /\ c.work = d.work /\ c.ex = d.ex /\ c.pre = d.pre /\ c.pass = d.pass
            /\ c.fills = d.fills /\ c.todo = d.todo /\ c.order = d.order
            /\ c.key = d.key /\ c.qty = d.qty /\ c.main = d.main
        BY <2>1, <2>3, <2>5 DEF BotFields
      <3> QED BY <1>2, <2>1, <2>5, <3>1 DEF c
    <2> QED BY <2>4, <2>5
  <1> QED BY <1>1, <1>2

\* A change of place changes nothing else.
LEMMA GoFields ==
    ASSUME NEW me \in Procs, NEW a, BooksInv, Go(me, a)
    PROVE  LET b == bot[me]
               c == bot'[me]
           IN  /\ bot' = [bot EXCEPT ![me] = c] /\ c.at = a
               /\ c.work = b.work /\ c.ex = b.ex /\ c.pre = b.pre /\ c.pass = b.pass
               /\ c.fills = b.fills /\ c.todo = b.todo /\ c.order = b.order /\ c.gap = b.gap
               /\ c.cap = b.cap /\ c.key = b.key /\ c.qty = b.qty /\ c.main = b.main
BY DEF Go, BooksInv, BotsOk, BotOk, BotFields

LEMMA FetchFields ==
    ASSUME NEW me \in Procs, BooksInv, Fetch(me)
    PROVE  LET b == bot[me]
               c == bot'[me]
           IN  /\ bot' = [bot EXCEPT ![me] = c] /\ c.at = "leg"
               /\ c.fills = Unbooked /\ c.todo = Newer(Unbooked)
               /\ c.work = b.work /\ c.ex = b.ex /\ c.pre = b.pre /\ c.pass = b.pass
               /\ c.order = b.order /\ c.gap = b.gap
               /\ c.cap = b.cap /\ c.key = b.key /\ c.qty = b.qty /\ c.main = b.main
  <1>1. PICK u, t : u = Unbooked /\ t = Newer(Unbooked)  OBVIOUS
  <1>2. bot' = [bot EXCEPT ![me].at = "leg", ![me].fills = u, ![me].todo = t]
    BY <1>1 DEF Fetch
  <1> QED BY <1>1, <1>2 DEF BooksInv, BotsOk, BotOk, BotFields

LEMMA PassFields ==
    ASSUME NEW b, NEW n \in Nat, BotOk(b, n)
    PROVE  LET c == NextPass(b)
               more == b.pass = 1 /\ b.pre /\ b.cap > 0
           IN  /\ c.work = b.work /\ c.ex = b.ex /\ c.pre = b.pre
               /\ c.order = b.order /\ c.cap = b.cap /\ c.key = b.key /\ c.qty = b.qty
               /\ c.main = b.main
               /\ more => /\ c.at = b.at /\ c.fills = b.fills
                          /\ c.pass = 2 /\ c.gap = b.cap /\ c.todo = Older(b.fills)
               /\ ~more => c.at = "trim"
  <1>1. PICK t : t = Older(b.fills)  OBVIOUS
  <1>2. NextPass(b) = IF b.pass = 1 /\ b.pre /\ b.cap > 0
      THEN [b EXCEPT !.pass = 2, !.gap = b.cap, !.todo = t]
      ELSE [b EXCEPT !.at = "trim", !.todo = {}, !.fills = <<>>]
    BY <1>1 DEF NextPass
  <1>3. PICK d, e : /\ d = [b EXCEPT !.pass = 2, !.gap = b.cap, !.todo = t]
                    /\ e = [b EXCEPT !.at = "trim", !.todo = {}, !.fills = <<>>]
    OBVIOUS
  <1>4. /\ d.work = b.work /\ d.ex = b.ex /\ d.pre = b.pre
        /\ d.order = b.order /\ d.cap = b.cap /\ d.key = b.key /\ d.qty = b.qty
        /\ d.main = b.main /\ d.at = b.at /\ d.fills = b.fills /\ d.pass = 2 /\ d.gap = b.cap
        /\ d.todo = t
    BY <1>3 DEF BotOk, BotFields
  <1>5. /\ e.work = b.work /\ e.ex = b.ex /\ e.pre = b.pre
        /\ e.order = b.order /\ e.cap = b.cap /\ e.key = b.key /\ e.qty = b.qty
        /\ e.main = b.main /\ e.at = "trim"
    BY <1>3 DEF BotOk, BotFields
  <1>6. CASE b.pass = 1 /\ b.pre /\ b.cap > 0
    <2>1. NextPass(b) = d  BY <1>2, <1>3, <1>6
    <2> QED BY <2>1, <1>1, <1>4, <1>6
  <1>7. CASE ~(b.pass = 1 /\ b.pre /\ b.cap > 0)
    <2>1. NextPass(b) = e  BY <1>2, <1>3, <1>7
    <2> QED BY <2>1, <1>5, <1>7
  <1> QED BY <1>6, <1>7

\* The orders of a pass that may be booked.
Fitting(b) == {o \in b.todo : ~Booked(o) /\ Fits(Qty(b, o), b.gap)}

LEMMA LegPicked ==
    ASSUME NEW me \in Procs, BooksInv, NextLeg(me)
    PROVE  LET b == bot[me]
               c == bot'[me]
           IN  /\ b.at = "leg" /\ bot' = [bot EXCEPT ![me] = c]
               /\ UNCHANGED <<exchange, ledger, row, snap, log, cool, buys, troubles, seen>>
               /\ \/ (Fitting(b) = {} \/ b.gap <= 0) /\ c = NextPass(b)
                  \/ /\ ~(b.gap <= 0) /\ c.at = "add" /\ c.order \in Fitting(b)
                     /\ c.qty = Qty(b, c.order) /\ c.todo = Fitting(b)
                     /\ c.work = b.work /\ c.ex = b.ex /\ c.pre = b.pre /\ c.pass = b.pass
                     /\ c.fills = b.fills /\ c.gap = b.gap /\ c.cap = b.cap /\ c.key = b.key
                     /\ c.main = b.main
  <1>1. PICK b : b = bot[me]  OBVIOUS
  <1>2. PICK t : t = Fitting(b)  OBVIOUS
  <1>3. PICK o, q : o = Min(t) /\ q = Qty(b, Min(t))  OBVIOUS
  <1>4. PICK c : c = [b EXCEPT !.at = "add", !.order = o, !.qty = q, !.todo = t]  OBVIOUS
  <1>5. bot' = [bot EXCEPT ![me] = IF t = {} \/ b.gap <= 0 THEN NextPass(b) ELSE c]
    BY <1>1, <1>2, <1>3, <1>4 DEF NextLeg, Fitting
  <1>6. DOMAIN b = BotFields /\ DOMAIN bot = Procs /\ b.todo \subseteq 1 .. Len(b.fills)
        /\ Len(b.fills) \in Nat
    BY <1>1 DEF BooksInv, BotsOk, BotOk
  <1>7. b.at = "leg" /\ UNCHANGED <<exchange, ledger, row, snap, log, cool, buys, troubles, seen>>
    BY <1>1 DEF NextLeg, At, Calm
  <1>8. CASE t = {} \/ b.gap <= 0
    <2>1. bot'[me] = NextPass(b) /\ bot' = [bot EXCEPT ![me] = bot'[me]]  BY <1>5, <1>6, <1>8
    <2> QED BY <2>1, <1>1, <1>2, <1>7, <1>8
  <1>9. CASE ~(t = {} \/ b.gap <= 0)
    <2>1. bot'[me] = c /\ bot' = [bot EXCEPT ![me] = bot'[me]]  BY <1>5, <1>6, <1>9
    <2>2. t \in SUBSET Nat /\ t # {}  BY <1>2, <1>6, <1>9 DEF Fitting
    <2>3. o \in t  BY <2>2, <1>3, MinIn
    <2>4. /\ c.at = "add" /\ c.order = o /\ c.qty = q /\ c.todo = t
          /\ c.work = b.work /\ c.ex = b.ex /\ c.pre = b.pre /\ c.pass = b.pass
          /\ c.fills = b.fills /\ c.gap = b.gap /\ c.cap = b.cap /\ c.key = b.key
          /\ c.main = b.main
      BY <1>4, <1>6 DEF BotFields
    <2> QED BY <2>1, <2>3, <2>4, <1>1, <1>2, <1>3, <1>7, <1>9
  <1> QED BY <1>8, <1>9

LEMMA OrderPicked ==
    ASSUME NEW me \in Procs, BooksInv, NextOrder(me)
    PROVE  LET b == bot[me]
               c == bot'[me]
           IN  /\ b.at = "order" /\ bot' = [bot EXCEPT ![me] = c]
               /\ UNCHANGED <<exchange, ledger, row, snap, log, cool, buys, troubles, seen>>
               /\ c.ex = b.ex /\ c.pre = b.pre /\ c.pass = b.pass
               /\ c.fills = b.fills /\ c.gap = b.gap /\ c.cap = b.cap /\ c.key = b.key
               /\ c.main = b.main
               /\ \/ c.at = "order" /\ c.todo = {} /\ c.work = b.work /\ c.qty = b.qty
                     /\ c.order = b.order
                  \/ /\ c.order \in b.todo /\ ~LeftAlone(b, c.order) /\ c.qty = b.fills[c.order].new
                     /\ c.todo \subseteq b.todo
                     /\ Booked(c.order) => c.work = "backfill" /\ c.at = "event"
                     /\ ~Booked(c.order) => c.work = "full" /\ c.at = "add"
  <1>1. PICK b : b = bot[me]  OBVIOUS
  <1>2. PICK t : t = {o \in b.todo : ~LeftAlone(b, o)}  OBVIOUS
  <1>3. PICK o : o = Min(t)  OBVIOUS
  <1>4. PICK q, r, w, a : /\ q = b.fills[o].new /\ r = {p \in b.todo : p >= o}
                          /\ w = (IF Booked(o) THEN "backfill" ELSE "full")
                          /\ a = (IF Booked(o) THEN "event" ELSE "add")
    OBVIOUS
  <1>5. DOMAIN b = BotFields /\ DOMAIN bot = Procs /\ b.todo \subseteq 1 .. Len(b.fills)
        /\ Len(b.fills) \in Nat
    BY <1>1 DEF BooksInv, BotsOk, BotOk
  <1>6. PICK c, d : /\ d = [b EXCEPT !.todo = {}]
                    /\ c = [b EXCEPT !.order = o, !.qty = q, !.todo = r, !.work = w, !.at = a]
    OBVIOUS
  <1>7. bot' = [bot EXCEPT ![me] = IF t = {} THEN d ELSE c]
    <2>1. bot' = [bot EXCEPT ![me] =
             IF t = {} THEN [b EXCEPT !.todo = {}]
             ELSE [b EXCEPT !.order = o, !.qty = b.fills[o].new, !.todo = {p \in @ : p >= o},
                            !.work = IF Booked(o) THEN "backfill" ELSE "full",
                            !.at = IF Booked(o) THEN "event" ELSE "add"]]
      BY <1>1, <1>2, <1>3 DEF NextOrder
    <2>2. [b EXCEPT !.order = o, !.qty = b.fills[o].new, !.todo = {p \in @ : p >= o},
                    !.work = IF Booked(o) THEN "backfill" ELSE "full",
                    !.at = IF Booked(o) THEN "event" ELSE "add"] = c
      BY <1>4, <1>5, <1>6 DEF BotFields
    <2> QED BY <2>1, <2>2, <1>6
  <1>8. b.at = "order" /\ UNCHANGED <<exchange, ledger, row, snap, log, cool, buys, troubles, seen>>
    BY <1>1 DEF NextOrder, At, Calm
  <1>9. CASE t = {}
    <2>1. bot'[me] = d /\ bot' = [bot EXCEPT ![me] = bot'[me]]  BY <1>5, <1>7, <1>9
    <2>2. /\ d.at = b.at /\ d.todo = {} /\ d.work = b.work /\ d.ex = b.ex /\ d.pre = b.pre
          /\ d.pass = b.pass /\ d.fills = b.fills /\ d.gap = b.gap /\ d.cap = b.cap
          /\ d.key = b.key /\ d.main = b.main /\ d.qty = b.qty /\ d.order = b.order
      BY <1>5, <1>6 DEF BotFields
    <2> QED BY <2>1, <2>2, <1>1, <1>8
  <1>10. CASE t # {}
    <2>1. bot'[me] = c /\ bot' = [bot EXCEPT ![me] = bot'[me]]  BY <1>5, <1>7, <1>10
    <2>2. t \in SUBSET Nat  BY <1>2, <1>5
    <2>3. o \in t  BY <2>2, <1>3, <1>10, MinIn
    <2>4. /\ c.order = o /\ c.qty = q /\ c.todo = r /\ c.work = w /\ c.at = a
          /\ c.ex = b.ex /\ c.pre = b.pre /\ c.pass = b.pass
          /\ c.fills = b.fills /\ c.gap = b.gap /\ c.cap = b.cap /\ c.key = b.key
          /\ c.main = b.main
      BY <1>5, <1>6 DEF BotFields
    <2> QED BY <2>1, <2>3, <2>4, <1>1, <1>2, <1>4, <1>8
  <1> QED BY <1>9, <1>10

-----------------------------------------------------------------------------
(* No booking beyond the gap                                                *)

LEMMA RestGap == GapOk(Rest)
BY DEF GapOk, Rest

LEMMA SameNet ==
    ASSUME UNCHANGED <<bought, sells>>
    PROVE  Net' = Net
BY DEF Net, AllBooked

\* While only one reads the gap, it is enough to look at the one that moves.
LEMMA GapMoves ==
    ASSUME BooksInv, GapInv, NEW me \in Procs, NEW c, bot' = [bot EXCEPT ![me] = c],
           ~seen'.overlap => /\ ~seen.overlap
                             /\ bot[me] # Rest \/ \A p \in Procs \ {me} : bot[p] = Rest
                             /\ GapOk(c)'
    PROVE  GapInv'
  <1> SUFFICES ASSUME ~seen'.overlap PROVE Alone' /\ \A p \in Procs : GapOk(bot[p])'
    BY DEF GapInv
  <1>1. Alone  BY DEF GapInv
  <1>2. \A p \in Procs \ {me} : bot[p] = Rest  BY <1>1 DEF Alone, Procs
  <1>3. bot'[me] = c /\ \A p \in Procs \ {me} : bot'[p] = Rest
    BY <1>2 DEF BooksInv, BotsOk
  <1>4. Alone'  BY <1>3 DEF Alone, Procs
  <1>5. GapOk(Rest)'  BY DEF GapOk, Rest
  <1>6. ASSUME NEW p \in Procs  PROVE GapOk(bot[p])'
    <2>1. PICK b : b = bot'[p]  OBVIOUS
    <2>2. b = c \/ b = Rest  BY <2>1, <1>3
    <2>3. GapOk(b)'
      <3>1. CASE b = c  BY <3>1
      <3>2. CASE b = Rest  BY <3>2, <1>5
      <3> QED BY <2>2, <3>1, <3>2
    <2> QED BY <2>1, <2>3 DEF GapOk, Net, AllBooked
  <1> QED BY <1>4, <1>6

\* A process without an order in hand and out of the loop has no gap to keep to.
LEMMA FreeGap ==
    ASSUME NEW c, c.at \notin {"fetch", "leg", "add", "note", "event", "append"} \/
                  (c.work # "drift" /\ c.at \notin {"add", "note"}) \/
                  (c.work = "close" /\ c.at # "add")
    PROVE  GapOk(c) /\ GapOk(c)'
BY DEF GapOk

\* What the numbers of a process are.
LEMMA Numbers ==
    ASSUME BooksInv, ExactInv, NEW p \in Procs
    PROVE  /\ bot[p].gap \in Int /\ bot[p].cap \in Int /\ bot[p].ex \in Nat /\ bot[p].qty \in Nat
           /\ Net \in Int /\ held \in Nat /\ BotOk(bot[p], Len(sold)) /\ Len(sold) \in Nat
           /\ bot[p].work \in Work /\ ProcOk(bot[p]) /\ DOMAIN bot = Procs /\ DOMAIN seen = SeenFields
           /\ DOMAIN bot[p] = BotFields
  <1>1. IsFiniteSet(sells)  BY DEF ExactInv, Keyed
  <1> QED BY <1>1, RowsFinite, KnownOk DEF BotOk, ProcOk, BooksInv, Records

LEMMA NextGap ==
    ASSUME NEW me \in Procs, BooksInv, ExactInv, GapOk(bot[me]), NEW counted \in BOOLEAN,
           \/ bot[me].at \in {"note", "event", "append"} /\ (bot[me].work = "drift" => counted)
           \/ bot[me].at = "add" /\ ~counted
    PROVE  GapOk(Next1(bot[me], counted))
  <1>1. PICK b : b = bot[me]  OBVIOUS
  <1>2. PICK c : c = Next1(b, counted)  OBVIOUS
  <1>3. b.gap \in Int /\ b.cap \in Int /\ b.qty \in Nat /\ b.ex \in Nat /\ Net \in Int
        /\ b.work \in Work /\ BotOk(b, Len(sold)) /\ Len(sold) \in Nat
    BY <1>1, Numbers
  <1>4. CASE b.work = "close"
    <2>1. c = [Rest EXCEPT !.at = "ready"]  BY <1>2, <1>3, <1>4, NextFields
    <2>2. c.at = "ready"  BY <2>1 DEF Rest
    <2> QED BY <2>2, <1>1, <1>2, FreeGap
  <1>5. CASE b.work \in {"full", "backfill"}
    <2>1. c.at \in {"fix", "order"}  BY <1>2, <1>3, <1>5, NextFields
    <2> QED BY <2>1, <1>1, <1>2, FreeGap
  <1>6. CASE b.work = "drift"
    <2>1. /\ c.at = "leg" /\ c.work = "drift" /\ c.ex = b.ex /\ c.gap = b.gap - b.qty
          /\ c.cap = IF counted THEN b.cap - b.qty ELSE b.cap
      BY <1>2, <1>3, <1>6, NextFields
    <2>2. GapOk(b)  BY <1>1
    <2>3. b.gap - b.qty <= Net - b.ex
      BY <1>1, <1>3, <1>6, <2>2 DEF GapOk
    <2>4. c.cap <= Net - b.ex
      BY <1>1, <1>3, <1>6, <2>1, <2>2 DEF GapOk
    <2> QED BY <2>1, <2>3, <2>4, <1>1, <1>2 DEF GapOk
  <1> QED BY <1>3, <1>4, <1>5, <1>6 DEF Work

LEMMA AddGap ==
    ASSUME NEW me \in Procs, BooksInv, BooksInv', ExactInv, GapInv, AddTrade(me)
    PROVE  GapInv'
  <1>0. PICK b, c : b = bot[me] /\ c = bot'[me]  OBVIOUS
  <1>1. /\ b.at = "add" /\ b # Rest /\ seen' = seen /\ bought' = bought
        /\ b.gap \in Int /\ b.cap \in Int /\ b.qty \in Nat /\ b.ex \in Nat /\ Net \in Int
        /\ b.work \in {"drift", "full"} /\ DOMAIN bot = Procs
    BY <1>0, Numbers DEF AddTrade, At, Calm, Rest, ProcOk, InPlace
  <1>2. ~seen.overlap => GapOk(b)  BY <1>0 DEF GapInv
  <1>3. CASE Booked(bot[me].order)
    <2>1. c = Next1(b, FALSE) /\ bot' = [bot EXCEPT ![me] = c] /\ sells' = sells
      BY <1>0, <1>1, <1>3 DEF AddTrade
    <2>2. Net' = Net  BY <1>1, <2>1, SameNet
    <2>3. ~seen.overlap => GapOk(c)  BY <1>0, <1>1, <1>2, <2>1, NextGap
    <2>4. ~seen.overlap => GapOk(c)'  BY <2>2, <2>3 DEF GapOk
    <2> QED BY <1>0, <1>1, <2>1, <2>4, GapMoves
  <1>4. CASE ~Booked(bot[me].order)
    <2>1. PICK r : r = [order |-> b.order, key |-> "order", qty |-> b.qty]  OBVIOUS
    <2>2. sells' = sells \cup {r} /\ Go(me, "note") /\ r.qty = b.qty
      BY <1>0, <1>4, <2>1 DEF AddTrade
    <2>3. r \notin sells  BY <1>0, <1>4, <2>1 DEF Booked
    <2>4. IsFiniteSet(sells)  BY DEF ExactInv, Keyed
    <2>5. AllBooked' = AllBooked + b.qty  BY <2>2, <2>3, <2>4, OneMoreBooked
    <2>6. Net' = Net - b.qty
      <3>1. AllBooked \in Nat /\ bought \in Nat  BY <2>4, RowsFinite
      <3> QED BY <3>1, <2>5, <1>1 DEF Net
    <2>7. /\ bot' = [bot EXCEPT ![me] = c] /\ c.at = "note" /\ c.work = b.work /\ c.ex = b.ex
          /\ c.gap = b.gap /\ c.cap = b.cap /\ c.qty = b.qty
      BY <2>2, <1>0, GoFields
    <2>8. ASSUME ~seen.overlap  PROVE GapOk(c)'
      <3>1. CASE b.work = "drift"
        <4>1. b.gap <= Net - b.ex /\ b.cap <= Net - b.ex /\ 100 * b.qty <= 105 * b.gap
          BY <1>1, <1>2, <2>8, <3>1 DEF GapOk, Fits
        <4>2. b.gap - b.qty <= Net' - b.ex /\ b.cap - b.qty <= Net' - b.ex  BY <4>1, <2>6, <1>1
        <4>3. 100 * (b.ex - Net') <= 5 * b.qty  BY <4>1, <2>6, <1>1
        <4> QED BY <4>2, <4>3, <3>1, <2>7 DEF GapOk
      <3>2. CASE b.work = "full"
        <4>1. 100 * b.qty <= 105 * Net  BY <1>1, <1>2, <2>8, <3>2 DEF GapOk, Fits
        <4>2. 100 * (0 - Net') <= 5 * b.qty  BY <4>1, <2>6, <1>1
        <4> QED BY <4>2, <3>2, <2>7 DEF GapOk
      <3> QED BY <3>1, <3>2, <1>1
    <2> QED BY <1>0, <1>1, <2>7, <2>8, GapMoves
  <1> QED BY <1>3, <1>4

LEMMA StepGap ==
    ASSUME NEW me \in Procs, BooksInv, BooksInv', ExactInv, GapInv, Step(me)
    PROVE  GapInv'
  <1>0. PICK b, c : b = bot[me] /\ c = bot'[me]  OBVIOUS
  <1>1. /\ b.at \in Places /\ b # Rest /\ seen'.overlap = seen.overlap
        /\ b.gap \in Int /\ b.cap \in Int /\ b.qty \in Nat /\ b.ex \in Nat /\ Net \in Int
        /\ b.work \in Work /\ DOMAIN bot = Procs /\ ProcOk(b) /\ BotOk(b, Len(sold)) /\ Len(sold) \in Nat
    BY <1>0, Numbers, StepMoves DEF Places, Rest
  <1>2. ~seen.overlap => GapOk(b)  BY <1>0 DEF GapInv
  <1>3. ASSUME UNCHANGED <<bought, sells>>, bot' = [bot EXCEPT ![me] = c], ~seen.overlap => GapOk(c)
        PROVE  GapInv'
    <2>1. Net' = Net  BY <1>3, SameNet
    <2>2. ~seen.overlap => GapOk(c)'  BY <1>3, <2>1 DEF GapOk
    <2> QED BY <1>0, <1>1, <1>3, <2>2, GapMoves
  <1>4. CASE CheckEvent(me)
    <2>1. b.at = "event" /\ UNCHANGED <<bought, sells>> /\ bot' = [bot EXCEPT ![me] = c]
          /\ c \in {Next1(b, b.work # "backfill"), [b EXCEPT !.at = "append"]}
      BY <1>0, <1>1, <1>4 DEF CheckEvent, At, ledger
    <2>2. ~seen.overlap => GapOk(c)
      <3>1. CASE c = Next1(b, b.work # "backfill")  BY <3>1, <1>0, <1>2, <2>1, NextGap
      <3>2. CASE c = [b EXCEPT !.at = "append"]
        <4>1. c.at = "append" /\ c.work = b.work /\ c.ex = b.ex /\ c.gap = b.gap /\ c.cap = b.cap
              /\ c.qty = b.qty
          BY <3>2, <1>1 DEF BotOk, BotFields
        <4> QED BY <4>1, <1>2, <2>1 DEF GapOk
      <3> QED BY <2>1, <3>1, <3>2
    <2> QED BY <1>3, <2>1, <2>2
  <1>5. CASE AppendEvent(me)
    <2>1. b.at = "append" /\ UNCHANGED <<bought, sells>> /\ bot' = [bot EXCEPT ![me] = c]
          /\ c = Next1(b, TRUE)
      BY <1>0, <1>1, <1>5 DEF AppendEvent, At, ledger
    <2>2. ~seen.overlap => GapOk(c)  BY <1>0, <1>2, <2>1, NextGap
    <2> QED BY <1>3, <2>1, <2>2
  <1>6. CASE AddTrade(me)  BY <1>6, AddGap
  <1>7. CASE NoteLoss(me)
    <2>1. PICK a \in {"drop", "event"} : Go(me, a)  BY <1>7 DEF NoteLoss
    <2>2. b.at = "note" /\ UNCHANGED <<bought, sells>>  BY <1>0, <1>7 DEF NoteLoss, At, ledger
    <2>3. /\ bot' = [bot EXCEPT ![me] = c] /\ c.at = a /\ c.work = b.work /\ c.ex = b.ex
          /\ c.gap = b.gap /\ c.cap = b.cap /\ c.qty = b.qty
      BY <2>1, <1>0, GoFields
    <2>4. ~seen.overlap => GapOk(c)  BY <1>2, <2>2, <2>3 DEF GapOk
    <2> QED BY <1>3, <2>2, <2>3, <2>4
  <1>8. CASE Compare(me)
    <2>1. /\ me = "scan" /\ bot' = [bot EXCEPT !["scan"] = c] /\ c.work = "drift" /\ c.ex = held
          /\ c.gap = Net - held /\ c.cap = Net - held /\ c.at \in {"fetch", "trim"}
      BY <1>0, <1>8, Compared
    <2>2. UNCHANGED <<bought, sells>>  BY <1>8 DEF Compare, ledger
    <2>3. held \in Nat  BY <1>0, Numbers
    <2>4. GapOk(c)  BY <2>1, <2>3, <1>1 DEF GapOk
    <2> QED BY <1>3, <2>1, <2>2, <2>4
  <1>9. CASE Fetch(me)
    <2>1. /\ bot' = [bot EXCEPT ![me] = c] /\ c.at = "leg" /\ c.work = b.work /\ c.ex = b.ex
          /\ c.gap = b.gap /\ c.cap = b.cap /\ c.qty = b.qty
      BY <1>0, <1>9, FetchFields
    <2>2. b.at = "fetch" /\ UNCHANGED <<bought, sells>>  BY <1>0, <1>9 DEF Fetch, At, ledger
    <2>3. ~seen.overlap => GapOk(c)  BY <1>2, <2>1, <2>2 DEF GapOk
    <2> QED BY <1>3, <2>1, <2>2, <2>3
  <1>10. CASE NextLeg(me)
    <2>1. b.at = "leg" /\ bot' = [bot EXCEPT ![me] = c] /\ UNCHANGED <<bought, sells>>
      BY <1>0, <1>10, LegPicked DEF ledger
    <2>2. b.work = "drift"  BY <2>1, <1>1 DEF ProcOk, InPlace, Rest
    <2>3. ~seen.overlap => GapOk(c)
      <3>1. CASE c = NextPass(b)
        <4>1. /\ c.work = b.work /\ c.ex = b.ex /\ c.cap = b.cap
              /\ (c.at = "leg" /\ c.gap = b.cap) \/ c.at = "trim"
          BY <3>1, <1>1, <2>1, PassFields
        <4> QED BY <4>1, <1>2, <2>1, <2>2 DEF GapOk
      <3>2. CASE c # NextPass(b)
        <4>1. /\ c.at = "add" /\ c.order \in Fitting(b)
              /\ c.qty = Qty(b, c.order) /\ c.work = b.work /\ c.ex = b.ex
              /\ c.gap = b.gap /\ c.cap = b.cap
          BY <3>2, <1>0, <1>10, LegPicked
        <4>2. Fits(c.qty, b.gap)  BY <4>1 DEF Fitting
        <4> QED BY <4>1, <4>2, <1>2, <2>1, <2>2 DEF GapOk
      <3> QED BY <3>1, <3>2
    <2> QED BY <1>3, <2>1, <2>3
  <1>11. CASE Trim(me)
    <2>1. UNCHANGED <<bought, sells>> /\ bot' = [bot EXCEPT ![me] = c] /\ c.at = "fills"
      BY <1>0, <1>1, <1>11 DEF Trim, ledger, Rest
    <2> QED BY <1>3, <2>1, FreeGap
  <1>12. CASE FetchFills(me)
    <2>1. c.at = "order" /\ c.work = "full" /\ bot' = [bot EXCEPT ![me] = c] /\ UNCHANGED <<bought, sells>>
      <3>1. PICK x, f, t : bot' = [bot EXCEPT ![me] = [Rest EXCEPT
                    !.at = "order", !.work = "full", !.ex = x, !.fills = f, !.todo = t]]
        BY <1>12 DEF FetchFills
      <3> QED BY <3>1, <1>0, <1>1, <1>12 DEF FetchFills, Rest, ledger
    <2> QED BY <1>3, <2>1, FreeGap
  <1>13. CASE NextOrder(me)
    <2>1. b.at = "order" /\ bot' = [bot EXCEPT ![me] = c] /\ UNCHANGED <<bought, sells>>
      BY <1>0, <1>13, OrderPicked DEF ledger
    <2>2. GapOk(c)
      <3>1. CASE c.at = "order"  BY <3>1, FreeGap
      <3>2. CASE c.at # "order"
        <4>1. /\ c.order \in b.todo /\ ~LeftAlone(b, c.order) /\ c.qty = b.fills[c.order].new
              /\ Booked(c.order) => c.work = "backfill" /\ c.at = "event"
              /\ ~Booked(c.order) => c.work = "full" /\ c.at = "add"
          BY <3>2, <1>0, <1>13, OrderPicked
        <4>2. CASE Booked(c.order)  BY <4>1, <4>2, FreeGap
        <4>3. CASE ~Booked(c.order)
          <5>1. Fits(c.qty, Net)  BY <4>1, <4>3 DEF LeftAlone
          <5> QED BY <4>1, <4>3, <5>1 DEF GapOk
        <4> QED BY <4>2, <4>3
      <3> QED BY <3>1, <3>2
    <2> QED BY <1>3, <2>1, <2>2
  <1>14. CASE FixRow(me)
    <2>1. bot' = [bot EXCEPT ![me] = c] /\ c.at = "order" /\ UNCHANGED <<bought, sells>>
      BY <1>0, <1>14, GoFields DEF FixRow, ledger
    <2> QED BY <1>3, <2>1, FreeGap
  <1>15. CASE FillsDone(me)
    <2>1. bot' = [bot EXCEPT ![me] = c] /\ c.at = "rest" /\ UNCHANGED <<bought, sells>>
      BY <1>0, <1>1, <1>15 DEF FillsDone, ledger, Rest
    <2> QED BY <1>3, <2>1, FreeGap
  <1> QED BY <1>4, <1>5, <1>6, <1>7, <1>8, <1>9, <1>10, <1>11, <1>12, <1>13, <1>14, <1>15 DEF Step

\* The steps of the scan between its rounds.
LEMMA BuyMoves ==
    ASSUME BooksInv, Buy \/ RecordBuy \/ LogBuy
    PROVE  /\ bot["scan"] # Rest /\ seen' = seen
           /\ \E a \in {"ready", "bought", "boughtRow"} : Go("scan", a)
  <1>1. bot["scan"].at # "rest"
    <2>1. Buy => bot["scan"].at = "ready"  BY Zenon DEF Buy, At
    <2>2. RecordBuy => bot["scan"].at = "bought"  BY Zenon DEF RecordBuy, At
    <2>3. LogBuy => bot["scan"].at = "boughtRow"  BY Zenon DEF LogBuy, At
    <2> QED BY <2>1, <2>2, <2>3
  <1>2. seen' = seen  BY DEF Buy, RecordBuy, LogBuy, Calm
  <1>3. \E a \in {"ready", "bought", "boughtRow"} : Go("scan", a)
    BY DEF Buy, RecordBuy, LogBuy
  <1> QED BY <1>1, <1>2, <1>3 DEF Rest

LEMMA ExitMoves ==
    ASSUME NEW me \in Procs, BooksInv, Exit(me)
    PROVE  /\ Go(me, "fills") /\ SellAll /\ UNCHANGED <<bought, sells, row, snap, events, shadow, cool, buys>>
           /\ bot[me].at = IF me = "scan" THEN "ready" ELSE "rest"
           /\ me = "scan" => bot["scan"] # Rest /\ (seen'.overlap <=> seen.overlap)
           /\ me = "panel" => (seen'.overlap <=> seen.overlap \/ bot["scan"] # Rest)
           /\ seen'.calm = 0 /\ seen'.died = seen.died /\ seen'.torn = seen.torn
  <1>1. PICK x, y : /\ x = (seen.panel \/ me = "panel")
                    /\ y = (seen.overlap \/ (me = "panel" /\ bot["scan"] # Rest))
    OBVIOUS
  <1>2. seen' = [seen EXCEPT !.calm = 0, !.panel = x, !.overlap = y]
    BY Zenon, <1>1 DEF Exit
  <1>3. seen'.overlap = y /\ seen'.calm = 0 /\ seen'.died = seen.died /\ seen'.torn = seen.torn
    BY <1>2 DEF BooksInv, Records, SeenFields
  <1>4. me = "scan" => ~(me = "panel")  OBVIOUS
  <1>5. seen'.overlap <=> (seen.overlap \/ (me = "panel" /\ bot["scan"] # Rest))
    BY Zenon, <1>1, <1>3
  <1>6. bot[me].at = IF me = "scan" THEN "ready" ELSE "rest"  BY Zenon DEF Exit, At
  <1>7. me = "scan" => bot["scan"] # Rest  BY <1>6 DEF Rest
  <1> QED BY <1>3, <1>4, <1>5, <1>6, <1>7 DEF Exit, ledger, log

\* A failed read leaves the step out; a death leaves everything.
LEMMA FailFields ==
    ASSUME NEW me \in Procs, BooksInv, Unreadable(me) \/ Dies(me)
    PROVE  LET b == bot[me]
               c == bot'[me]
           IN  /\ bot' = [bot EXCEPT ![me] = c] /\ b # Rest
               /\ UNCHANGED <<held, legs, sold, bought, sells, row, snap, events, shadow, cool, buys>>
               /\ seen'.calm = 0 /\ seen'.overlap = seen.overlap /\ seen'.torn = seen.torn
               /\ Unreadable(me) =>
                    /\ seen'.died = seen.died
                    /\ \/ b.at = "fetch" /\ c.at = "trim" /\ c.work = b.work
                       \/ b.at = "ready" /\ c = [Rest EXCEPT !.at = "fills"]
                       \/ b.at = "fills" /\ c = Rest
               /\ Dies(me) => seen'.died = seen.died \cup {b.at} /\ c = Rest
               /\ c.at \in {"trim", "fills", "rest"}
  <1>0. PICK b, c : b = bot[me] /\ c = bot'[me]  OBVIOUS
  <1>1. DOMAIN bot = Procs /\ DOMAIN b = BotFields /\ DOMAIN seen = SeenFields
    BY <1>0 DEF BooksInv, BotsOk, BotOk, Records
  <1>2. UNCHANGED <<held, legs, sold, bought, sells, row, snap, events, shadow, cool, buys>>
    BY DEF Unreadable, Dies, exchange, ledger, log
  <1>3. CASE Unreadable(me)
    <2>1. b.at \in {"ready", "fetch", "fills"}  BY <1>0, <1>3 DEF Unreadable
    <2>2. seen' = [seen EXCEPT !.calm = 0]  BY <1>3 DEF Unreadable
    <2>3. /\ seen'.calm = 0 /\ seen'.died = seen.died /\ seen'.overlap = seen.overlap
          /\ seen'.torn = seen.torn
      BY <2>2, <1>1 DEF SeenFields
    <2>4. PICK d, e : d = [b EXCEPT !.at = "trim", !.main = FALSE] /\ e = [Rest EXCEPT !.at = "fills"]
      OBVIOUS
    <2>5. bot' = [bot EXCEPT ![me] = IF b.at = "fetch" THEN d ELSE IF b.at = "ready" THEN e ELSE Rest]
      BY Zenon, <1>0, <1>3, <2>4 DEF Unreadable
    <2>6. c = IF b.at = "fetch" THEN d ELSE IF b.at = "ready" THEN e ELSE Rest
      BY <1>0, <1>1, <2>5
    <2>7. bot' = [bot EXCEPT ![me] = c]  BY <2>5, <2>6
    <2>8. d.at = "trim" /\ d.work = b.work  BY <1>1, <2>4 DEF BotFields
    <2>9. e.at = "fills" /\ Rest.at = "rest"  BY <2>4 DEF Rest
    <2>10. Dies(me) => seen'.died = seen.died \cup {b.at} /\ c = Rest
      <3> SUFFICES ASSUME Dies(me) PROVE seen'.died = seen.died \cup {b.at} /\ c = Rest  OBVIOUS
      <3>1. bot' = [bot EXCEPT ![me] = Rest] /\ seen' = [seen EXCEPT !.calm = 0, !.died = seen.died \cup {b.at}]
        BY <1>0 DEF Dies
      <3> QED BY <3>1, <1>0, <1>1 DEF SeenFields
    <2>11. b # Rest  BY <2>1, <2>9
    <2> QED BY <1>0, <1>2, <2>1, <2>3, <2>4, <2>6, <2>7, <2>8, <2>9, <2>10, <2>11
  <1>4. CASE Dies(me) /\ ~Unreadable(me)
    <2>1. bot' = [bot EXCEPT ![me] = Rest] /\ seen' = [seen EXCEPT !.calm = 0, !.died = seen.died \cup {b.at}]
          /\ b # Rest
      BY <1>0, <1>4 DEF Dies
    <2>2. /\ seen'.calm = 0 /\ seen'.died = seen.died \cup {b.at} /\ seen'.overlap = seen.overlap
          /\ seen'.torn = seen.torn
      BY <2>1, <1>1 DEF SeenFields
    <2>3. c = Rest /\ c.at = "rest" /\ bot' = [bot EXCEPT ![me] = c]  BY <1>0, <1>1, <2>1 DEF Rest
    <2> QED BY <1>0, <1>2, <1>4, <2>1, <2>2, <2>3
  <1> QED BY <1>3, <1>4

LEMMA GapKept == BooksInv /\ BooksInv' /\ ExactInv /\ GapInv /\ [Next]_vars => GapInv'
  <1> SUFFICES ASSUME BooksInv, BooksInv', ExactInv, GapInv, [Next]_vars PROVE GapInv'  OBVIOUS
  <1>0. /\ "scan" \in Procs /\ "panel" \in Procs /\ DOMAIN bot = Procs /\ DOMAIN seen = SeenFields
        /\ \A p \in Procs : DOMAIN bot[p] = BotFields
        /\ \A p \in Procs \ {"scan"} : p = "panel" 
        /\ \A p \in Procs \ {"panel"} : p = "scan"
    BY DEF Procs, BooksInv, BotsOk, Records, BotOk
  <1>1. CASE Step("scan") \/ Step("panel")  BY <1>0, <1>1, StepGap
  <1>2. ASSUME NEW me \in Procs, NEW c, bot' = [bot EXCEPT ![me] = c],
               c.at \notin {"fetch", "leg", "add", "note", "event", "append"} \/
               (c.work = "close" /\ c.at # "add"),
               ~seen'.overlap => /\ ~seen.overlap
                                 /\ bot[me] # Rest \/ \A p \in Procs \ {me} : bot[p] = Rest
        PROVE  GapInv'
    <2>1. GapOk(c)'  BY <1>2, FreeGap
    <2> QED BY <1>2, <2>1, GapMoves
  <1>3. CASE Sync
    <2>1. PICK c : c = bot'["scan"]  OBVIOUS
    <2>2. bot' = [bot EXCEPT !["scan"] = c] /\ c.at = "ready"  BY <1>0, <1>3, <2>1, GoFields DEF Sync
    <2>3. ~seen'.overlap => ~seen.overlap /\ bot["panel"] = Rest  BY <1>0, <1>3 DEF Sync, SeenFields
    <2> QED BY <1>0, <1>2, <2>2, <2>3
  <1>4. CASE Buy \/ RecordBuy \/ LogBuy
    <2>1. PICK a \in {"ready", "bought", "boughtRow"} : Go("scan", a)
      BY <1>4, BuyMoves
    <2>2. PICK c : c = bot'["scan"]  OBVIOUS
    <2>3. bot' = [bot EXCEPT !["scan"] = c] /\ c.at = a  BY <1>0, <2>1, <2>2, GoFields
    <2>4. bot["scan"] # Rest /\ seen' = seen  BY <1>4, BuyMoves
    <2> QED BY <1>0, <1>2, <2>3, <2>4
  <1>5. CASE Close("order") \/ Close("client")
    <2>1. PICK key \in Keys : Close(key)  BY <1>5 DEF Keys
    <2>2. PICK c : /\ bot' = [bot EXCEPT !["scan"] = c]
                   /\ c = [Rest EXCEPT !.at = "close", !.work = "close", !.order = Len(sold'),
                                       !.key = key, !.qty = row]
      BY <2>1 DEF Close
    <2>3. c.at = "close"  BY <2>2 DEF Rest
    <2>4. bot["scan"] # Rest /\ seen'.overlap = seen.overlap
      BY <1>0, <2>1 DEF Close, At, Rest, SeenFields
    <2> QED BY <1>0, <1>2, <2>2, <2>3, <2>4
  <1>6. CASE CloseTrade \/ CloseRow
    <2>1. PICK a \in {"note", "event"} : Go("scan", a)
      BY <1>6 DEF CloseTrade, CloseRow
    <2>2. PICK c : c = bot'["scan"]  OBVIOUS
    <2>3. bot' = [bot EXCEPT !["scan"] = c] /\ c.at = a /\ c.work = bot["scan"].work
      BY <1>0, <2>1, <2>2, GoFields
    <2>4. bot["scan"] # Rest /\ seen' = seen /\ bot["scan"].at \in {"close", "drop"}
      BY <1>6 DEF CloseTrade, CloseRow, At, Calm, Rest
    <2>5. bot["scan"].work = "close"
      <3>1. ProcOk(bot["scan"])  BY <1>0, Numbers
      <3> QED BY <2>4, <3>1 DEF ProcOk, InPlace, Rest
    <2> QED BY <1>0, <1>2, <2>3, <2>4, <2>5
  <1>7. CASE Exit("scan") \/ Exit("panel")
    <2>1. PICK me \in Procs : Exit(me)  BY <1>0, <1>7
    <2>2. PICK c : c = bot'[me]  OBVIOUS
    <2>3. bot' = [bot EXCEPT ![me] = c] /\ c.at = "fills"  BY <2>1, <2>2, ExitMoves, GoFields
    <2>4. ~seen'.overlap => ~seen.overlap /\ (bot[me] # Rest \/ \A p \in Procs \ {me} : bot[p] = Rest)
      <3>1. CASE me = "scan"  BY <1>0, <2>1, <3>1, ExitMoves
      <3>2. CASE me = "panel"  BY <1>0, <2>1, <3>2, ExitMoves
      <3> QED BY <3>1, <3>2 DEF Procs
    <2> QED BY <1>2, <2>3, <2>4
  <1>8. CASE Market
    <2>1. PICK l \in DOMAIN Legs : LegFills(l)  BY <1>8 DEF Market
    <2>2. UNCHANGED <<bought, sells, bot>>  BY <2>1, LegSold
    <2>3. seen'.overlap = seen.overlap  BY <1>0, <2>1 DEF LegFills, SeenFields
    <2>4. Net' = Net  BY <2>2, SameNet
    <2> QED BY <2>2, <2>3, <2>4 DEF GapInv, Alone, GapOk
  <1>9. CASE \E p \in Procs : Unreadable(p) \/ Dies(p)
    <2>1. PICK p \in Procs : Unreadable(p) \/ Dies(p)  BY <1>9
    <2>2. PICK c : c = bot'[p]  OBVIOUS
    <2>3. bot' = [bot EXCEPT ![p] = c] /\ c.at \in {"trim", "fills", "rest"}
      BY <2>1, <2>2, FailFields
    <2>4. bot[p] # Rest /\ seen'.overlap = seen.overlap
      BY <2>1, FailFields
    <2> QED BY <1>2, <2>3, <2>4
  <1>10. CASE UNCHANGED vars
    <2>1. UNCHANGED <<bought, sells, bot, seen>>  BY <1>10 DEF vars, ledger
    <2>2. Net' = Net  BY <2>1, SameNet
    <2> QED BY <2>1, <2>2 DEF GapInv, Alone, GapOk
  <1> QED BY <1>1, <1>3, <1>4, <1>5, <1>6, <1>7, <1>8, <1>9, <1>10 DEF Next, Scan, Panel

LEMMA GapStart == Init => GapInv
  <1> SUFFICES ASSUME Init PROVE GapInv  OBVIOUS
  <1>1. \A p \in Procs : bot[p] = Rest  BY DEF Init
  <1> QED BY <1>1, RestGap DEF GapInv, Alone, Procs

LEMMA GapAlways == Spec => [](BooksInv /\ ExactInv /\ GapInv)
BY GapStart, GapKept, ExactStart, ExactKept, BooksStart, BooksKept, PTL DEF Spec

\* However many orders wait and whichever of them are booked first: as long as
\* no two processes read the same gap, no booking goes further beyond it than
\* the 5% of its order that the code allows.
THEOREM BookingStopsAtTheGap == Spec => []StopsAtTheGap
  <1>1. BooksInv /\ ExactInv /\ GapInv => StopsAtTheGap
    BY DEF GapInv, GapOk, StopsAtTheGap, At
  <1> QED BY <1>1, GapAlways, PTL

\* Both together: nothing is in the ledger that was not sold, and no booking
\* takes what belongs to another, whoever books beside whom.
THEOREM NothingOverbooked == Spec => []NeverOverbooked
  <1>1. BookedAsSold /\ StopsAtTheGap => NeverOverbooked  BY DEF NeverOverbooked
  <1> QED BY <1>1, SalesBookedOnce, BookingStopsAtTheGap, PTL

-----------------------------------------------------------------------------
(* The event log follows the trades table                                   *)

\* What was torn, booked twice or dead stays so.
LEMMA ProperBack ==
    ASSUME sells \subseteq sells', seen.torn => seen'.torn
    PROVE  Proper' => Proper
  <1>1. Twice => Twice'
    <2> SUFFICES ASSUME Twice PROVE Twice'  OBVIOUS
    <2>1. PICK s \in sells, t \in sells : s.order = t.order /\ s.key # t.key  BY DEF Twice
    <2>2. s \in sells' /\ t \in sells'  BY <2>1
    <2> QED BY <2>1, <2>2 DEF Twice
  <1> QED BY <1>1 DEF Proper

LEMMA UndisturbedBack ==
    ASSUME sells \subseteq sells', seen.torn => seen'.torn, seen.overlap => seen'.overlap,
           seen.died \subseteq seen'.died
    PROVE  Undisturbed' => Undisturbed
BY ProperBack DEF Undisturbed

\* A step that neither books nor logs, and keeps what is in hand.
LEMMA LogMoves ==
    ASSUME BooksInv, LogInv, NEW me \in Procs, NEW c, bot' = [bot EXCEPT ![me] = c],
           UNCHANGED <<bought, sells, events, shadow>>, Undisturbed' => Undisturbed,
           Undisturbed' => Unlogged' = Unlogged,
           InHand(bot[me]) => InHand(c) /\ Row(c) = Row(bot[me]),
           InHand(c) => InHand(bot[me]),
           Undisturbed' => LogOk(c)
    PROVE  LogInv'
  <1> SUFFICES ASSUME Undisturbed' PROVE Logged'  BY DEF LogInv
  <1>1. Logged  BY DEF LogInv
  <1>2. bot'[me] = c /\ \A p \in Procs \ {me} : bot'[p] = bot[p]
    BY DEF BooksInv, BotsOk
  <1>3. Net' = Net  BY SameNet
  <1>4. \A p \in Procs : InHand(bot'[p]) <=> InHand(bot[p])
    <2>1. InHand(c) <=> InHand(bot[me])  OBVIOUS
    <2> QED BY Zenon, <1>2, <2>1
  <1>5. \A p \in Procs : InHand(bot[p]) => Row(bot'[p]) = Row(bot[p])
    BY Zenon, <1>2
  <1>6. \A p \in Procs : Pending(p)' = Pending(p)
    <2> SUFFICES ASSUME NEW p \in Procs PROVE Pending(p)' = Pending(p)  OBVIOUS
    <2>1. InHand(bot[p]) => bot'[p].qty = bot[p].qty
      BY <1>5 DEF Row
    <2>2. InHand(bot'[p]) <=> InHand(bot[p])  BY <1>4
    <2> QED BY <2>1, <2>2 DEF Pending
  <1>7. \A s \in sells : \/ <<s.order, s.key>> \in events
                         \/ \E p \in Procs : InHand(bot'[p]) /\ Row(bot'[p]) = s
    BY <1>1, <1>4, <1>5 DEF Logged
  <1>8. \A p \in Procs : LogOk(bot'[p])
    BY <1>1, <1>2 DEF Logged
  <1>9. \A p \in Procs : LogOk(bot[p])'
    BY <1>8 DEF LogOk
  <1>10. (shadow + Unlogged)' = Net' + Pending("scan")' + Pending("panel")'
    BY <1>1, <1>3, <1>6 DEF Logged, Procs
  <1> QED BY <1>1, <1>7, <1>9, <1>10 DEF Logged

\* A process without an order in hand that is not in its loop over the fills.
LEMMA FreeLog ==
    ASSUME NEW c, c.work \in {"drift", "close"}, c.at \notin {"note", "drop", "event", "append", "close"}
    PROVE  LogOk(c) /\ ~InHand(c)
BY DEF LogOk, InHand

LEMMA RestLog == LogOk(Rest) /\ ~InHand(Rest) /\ Rest.at = "rest"
BY DEF LogOk, InHand, Rest

LEMMA PendingInt ==
    ASSUME BooksInv
    PROVE  \A p \in Procs : Pending(p) \in Int
  <1> SUFFICES ASSUME NEW p \in Procs PROVE Pending(p) \in Int  OBVIOUS
  <1>1. bot[p].qty \in Nat  BY DEF BooksInv, BotsOk, BotOk
  <1> QED BY <1>1 DEF Pending

\* The other process rests while this one is at work.
LEMMA OtherRests ==
    ASSUME BooksInv, GapInv, ~seen.overlap, NEW me \in Procs, bot[me] # Rest
    PROVE  /\ \A p \in Procs \ {me} : bot[p] = Rest
           /\ Pending("scan") + Pending("panel") = Pending(me) + 0
           /\ me = "panel" => Unlogged = 0 /\ Unrecorded = 0
  <1>1. Alone  BY DEF GapInv
  <1>2. \A p \in Procs \ {me} : bot[p] = Rest  BY <1>1 DEF Alone, Procs
  <1>3. \A p \in Procs \ {me} : Pending(p) = 0  BY <1>2, RestLog DEF Pending
  <1>4. \A p \in Procs : Pending(p) \in Int  BY PendingInt
  <1>5. me = "panel" => bot["scan"].at = "rest"  BY <1>2, RestLog DEF Procs
  <1>6. me = "panel" => Unlogged = 0 /\ Unrecorded = 0  BY <1>5 DEF Unlogged, Unrecorded, At
  <1>7. Pending("scan") + Pending("panel") = Pending(me) + 0  BY <1>3, <1>4 DEF Procs
  <1> QED BY <1>2, <1>6, <1>7

LEMMA MaxOfNat ==
    ASSUME NEW q \in Nat
    PROVE  Max({0, q}) = q
BY DEF Max

LEMMA AppendLog ==
    ASSUME NEW me \in Procs, BooksInv, BooksInv', ExactInv, GapInv, Balance, LogInv, AppendEvent(me)
    PROVE  LogInv'
  <1>0. PICK b, c : b = bot[me] /\ c = bot'[me]  OBVIOUS
  <1>1. /\ UNCHANGED <<sells, bought, held, sold, seen>> /\ b.at = "append" /\ b # Rest
        /\ bot' = [bot EXCEPT ![me] = Next1(b, TRUE)]
        /\ events' = events \cup {<<b.order, b.key>>} /\ shadow' = Max({0, shadow - b.qty})
        /\ shadow \in Nat /\ b.qty \in Nat
    BY <1>0, RestLog DEF AppendEvent, At, Calm, ledger, exchange, BooksInv, Quantities, BotsOk, BotOk
  <1>2. Undisturbed' => Undisturbed  BY <1>1, UndisturbedBack
  <1> SUFFICES ASSUME Undisturbed, Undisturbed' PROVE Logged'  BY <1>2 DEF LogInv
  <1>3. Logged /\ ~seen.overlap /\ seen.died = {} /\ Proper  BY DEF LogInv, Undisturbed
  <1>4. /\ \A p \in Procs \ {me} : bot[p] = Rest
        /\ Pending("scan") + Pending("panel") = Pending(me) + 0 /\ (me = "panel" => Unlogged = 0 /\ Unrecorded = 0)
    BY <1>0, <1>1, <1>3, OtherRests
  <1>5. /\ bot'[me] = c /\ c = Next1(b, TRUE) /\ \A p \in Procs \ {me} : bot'[p] = Rest
    BY <1>0, <1>1, <1>4 DEF BooksInv, BotsOk
  <1>6. LogOk(b) /\ b.work # "backfill" /\ InHand(b)
    BY <1>0, <1>1, <1>3 DEF Logged, LogOk, InHand
  <1>7. Len(sold) \in Nat /\ BotOk(b, Len(sold)) /\ ProcOk(b) /\ b.work \in Work /\ bot[me].at = "append"
    BY <1>0, <1>1, Numbers DEF ProcOk
  <1>8. /\ c.at \in {"ready", "leg", "fix", "order"}
        /\ c.work # "backfill"
        /\ c.work = "full" => b.work = "full" /\ c.todo = b.todo \ {b.order}
    <2>0. c = Next1(b, TRUE) /\ Len(sold) \in Nat /\ BotOk(b, Len(sold))  BY Zenon, <1>5, <1>7
    <2>1. c.at \in {"ready", "leg", "fix", "order"}  BY <2>0, NextPlace
    <2>2. CASE b.work = "close"
      <3>1. c = [Rest EXCEPT !.at = "ready"]  BY <2>0, <2>2, NextFields
      <3>2. c.work = "drift"  BY <3>1 DEF Rest
      <3> QED BY <2>1, <3>2
    <2>3. CASE b.work # "close"
      <3>1. c.work = b.work /\ c.todo = b.todo \ {b.order}  BY <2>0, <2>3, NextFields
      <3> QED BY <2>1, <3>1, <1>6
    <2> QED BY <2>2, <2>3
  <1>9. ~InHand(c) /\ Pending(me) = b.qty
    BY <1>0, <1>6, <1>8 DEF InHand, Pending
  <1>10. Pending("scan")' = 0 /\ Pending("panel")' = 0
    <2>1. Pending(me)' = 0  BY <1>5, <1>9 DEF Pending
    <2>2. \A p \in Procs \ {me} : Pending(p)' = 0  BY <1>5, RestLog DEF Pending
    <2> QED BY <2>1, <2>2 DEF Procs
  <1>11. Unlogged = 0 /\ Unrecorded = 0 /\ Unlogged' = 0
    <2>1. me = "scan" => Unlogged = 0 /\ Unrecorded = 0 /\ Unlogged' = 0
      BY <1>0, <1>1, <1>5, <1>8 DEF Unlogged, Unrecorded, At
    <2>2. me = "panel" => Unlogged' = 0
      <3>1. me = "panel" => bot'["scan"] = Rest  BY <1>5 DEF Procs
      <3> QED BY <3>1, RestLog DEF Unlogged, At
    <2> QED BY <2>1, <2>2, <1>4 DEF Procs
  <1>12. Net' = Net /\ Net \in Int
    BY <1>1, SameNet, Numbers
  <1>13. Net >= 0
    <2>1. held + AllSold = bought  BY <1>3, <1>11, OrdersFinite DEF Balance, BooksInv, Quantities
    <2>2. AllBooked <= AllSold  BY <1>3, LedgerSplits DEF Proper, ExactInv
    <2>3. IsFiniteSet(sells)  BY DEF ExactInv, Keyed
    <2>4. AllBooked \in Nat /\ held \in Nat /\ AllSold \in Nat /\ Net = bought - AllBooked
      BY <2>3, RowsFinite, OrdersFinite
    <2> QED BY <2>1, <2>2, <2>4
  <1>14. shadow = Net + b.qty
    <2>1. shadow + 0 = Net + Pending("scan") + Pending("panel")  BY <1>3, <1>11 DEF Logged
    <2>2. Pending("scan") \in Int /\ Pending("panel") \in Int  BY PendingInt DEF Procs
    <2>3. Pending("scan") + Pending("panel") = b.qty + 0  BY <1>4, <1>9
    <2> QED BY <2>1, <2>2, <2>3, <1>1, <1>12
  <1>15. shadow' = Net
    <2>1. shadow - b.qty \in Int /\ shadow - b.qty = Net  BY <1>1, <1>12, <1>14
    <2>2. Net \in Nat  BY <1>12, <1>13
    <2>3. shadow' = Max({0, Net})  BY <1>1, <2>1
    <2> QED BY <2>2, <2>3, MaxOfNat
  <1>16. (shadow + Unlogged)' = Net' + Pending("scan")' + Pending("panel")'
    BY <1>10, <1>11, <1>12, <1>15
  <1>17. \A e \in events' : \E s \in sells' : e = <<s.order, s.key>>
    <2>1. Row(b) \in sells
      BY <1>0, <1>3, <1>6 DEF ExactInv, HandOk, Proper
    <2>2. Row(b).order = b.order /\ Row(b).key = b.key  BY DEF Row
    <2> QED BY <2>1, <2>2, <1>1, <1>3 DEF Logged
  <1>18. \A s \in sells' : \/ <<s.order, s.key>> \in events'
                           \/ \E p \in Procs : InHand(bot'[p]) /\ Row(bot'[p]) = s
    <2> SUFFICES ASSUME NEW s \in sells, <<s.order, s.key>> \notin events PROVE <<s.order, s.key>> \in events'
      BY <1>1
    <2>1. PICK p \in Procs : InHand(bot[p]) /\ Row(bot[p]) = s  BY <1>3 DEF Logged
    <2>2. p = me  BY <2>1, <1>4, RestLog
    <2>3. s.order = b.order /\ s.key = b.key  BY <2>1, <2>2, <1>0 DEF Row
    <2> QED BY <2>3, <1>1
  <1>19. LogOk(c)'
    <2>1. c.work = "full" => \A o \in c.todo : <<o, "order">> \notin events'
      <3> SUFFICES ASSUME c.work = "full", NEW o \in c.todo PROVE <<o, "order">> \notin events'  OBVIOUS
      <3>1. o \in b.todo /\ o # b.order /\ b.work = "full"  BY <1>8
      <3>2. <<o, "order">> \notin events  BY <3>1, <1>6 DEF LogOk
      <3> QED BY <3>1, <3>2, <1>1
    <2> QED BY <2>1, <1>8, <1>9 DEF LogOk
  <1>20. \A p \in Procs : LogOk(bot[p])'
    <2>1. LogOk(Rest)'  BY DEF LogOk, InHand, Rest
    <2> QED BY Zenon, <2>1, <1>19, <1>5
  <1> QED BY <1>16, <1>17, <1>18, <1>20 DEF Logged

\* A row is written and its order in hand.
LEMMA BookLog ==
    ASSUME NEW me \in Procs, NEW r, BooksInv, BooksInv', ExactInv, GapInv, LogInv,
           Go(me, "note"), bot[me].at \in {"add", "close"}, Row(bot[me]) = r, bot[me].work # "backfill",
           sells' = sells \cup {r}, \A s \in sells : ~(s.order = r.order /\ s.key = r.key),
           UNCHANGED <<bought, events, shadow, seen>>
    PROVE  LogInv'
  <1>0. PICK b, c : b = bot[me] /\ c = bot'[me]  OBVIOUS
  <1>1. b # Rest /\ b.qty \in Nat /\ r.order = b.order /\ r.key = b.key /\ r.qty = b.qty
    BY <1>0, RestLog DEF BooksInv, BotsOk, BotOk, Row
  <1>2. Undisturbed' => Undisturbed  BY UndisturbedBack
  <1> SUFFICES ASSUME Undisturbed, Undisturbed' PROVE Logged'  BY <1>2 DEF LogInv
  <1>3. Logged /\ ~seen.overlap  BY DEF LogInv, Undisturbed
  <1>4. /\ \A p \in Procs \ {me} : bot[p] = Rest
        /\ Pending("scan") + Pending("panel") = Pending(me) + 0 /\ (me = "panel" => Unlogged = 0)
    BY <1>0, <1>1, <1>3, OtherRests
  <1>5. /\ bot' = [bot EXCEPT ![me] = c] /\ c.at = "note" /\ c.work = b.work /\ c.order = b.order
        /\ c.key = b.key /\ c.qty = b.qty /\ c.todo = b.todo
    BY <1>0, GoFields
  <1>6. bot'[me] = c /\ \A p \in Procs \ {me} : bot'[p] = Rest
    BY <1>4, <1>5 DEF BooksInv, BotsOk
  <1>7. ~InHand(b) /\ InHand(c) /\ Row(c) = r
    BY <1>0, <1>5 DEF InHand, Row
  <1>8. LogOk(b)  BY <1>0, <1>3 DEF Logged
  <1>9. Pending(me) = 0 /\ Pending(me)' = b.qty /\ \A p \in Procs \ {me} : Pending(p)' = 0
    BY <1>0, <1>5, <1>6, <1>7, RestLog DEF Pending
  <1>10. Pending("scan")' + Pending("panel")' = b.qty
    BY <1>1, <1>9 DEF Procs
  <1>11. Unlogged = 0 /\ Unlogged' = 0
    <2>1. me = "scan" => Unlogged = 0 /\ Unlogged' = 0
      BY <1>0, <1>5, <1>6 DEF Unlogged, At
    <2>2. me = "panel" => Unlogged' = 0
      <3>1. me = "panel" => bot'["scan"] = Rest  BY <1>6 DEF Procs
      <3> QED BY <3>1, RestLog DEF Unlogged, At
    <2> QED BY <2>1, <2>2, <1>4 DEF Procs
  <1>12. Net' = Net - b.qty /\ Net \in Int
    <2>1. IsFiniteSet(sells)  BY DEF ExactInv, Keyed
    <2>2. r \notin sells  OBVIOUS
    <2>3. AllBooked' = AllBooked + b.qty  BY <2>1, <2>2, <1>1, OneMoreBooked
    <2>4. AllBooked \in Nat /\ bought \in Nat  BY <2>1, RowsFinite
    <2> QED BY <1>1, <2>3, <2>4 DEF Net
  <1>13. (shadow + Unlogged)' = Net' + Pending("scan")' + Pending("panel")'
    <2>1. shadow + 0 = Net  
      <3>1. shadow \in Nat  BY DEF BooksInv, Quantities
      <3>2. \A p \in Procs : Pending(p) \in Int  BY PendingInt
      <3> QED BY <3>1, <3>2, <1>3, <1>4, <1>9, <1>11, <1>12 DEF Logged, Procs
    <2>2. Pending("scan")' \in Int /\ Pending("panel")' \in Int
      BY <1>1, <1>9 DEF Procs
    <2> QED BY <2>1, <2>2, <1>1, <1>10, <1>11, <1>12
  <1>14. \A e \in events' : \E s \in sells' : e = <<s.order, s.key>>
    BY <1>3 DEF Logged
  <1>15. <<b.order, b.key>> \notin events
    BY <1>1, <1>3 DEF Logged
  <1>16. \A s \in sells' : \/ <<s.order, s.key>> \in events'
                           \/ \E p \in Procs : InHand(bot'[p]) /\ Row(bot'[p]) = s
    <2> SUFFICES ASSUME NEW s \in sells', <<s.order, s.key>> \notin events
                 PROVE  \E p \in Procs : InHand(bot'[p]) /\ Row(bot'[p]) = s
      OBVIOUS
    <2>1. CASE s = r  BY <2>1, <1>6, <1>7
    <2>2. CASE s \in sells
      <3>1. PICK p \in Procs : InHand(bot[p]) /\ Row(bot[p]) = s  BY <2>2, <1>3 DEF Logged
      <3> QED BY <3>1, <1>0, <1>4, <1>7, RestLog
    <2> QED BY <2>1, <2>2
  <1>17. LogOk(c)'
    BY <1>0, <1>5, <1>8, <1>15 DEF LogOk
  <1>18. \A p \in Procs : LogOk(bot[p])'
    <2>1. LogOk(Rest)'  BY DEF LogOk, InHand, Rest
    <2> QED BY Zenon, <2>1, <1>17, <1>6
  <1> QED BY <1>13, <1>14, <1>16, <1>18 DEF Logged

LEMMA StepLog ==
    ASSUME NEW me \in Procs, BooksInv, BooksInv', ExactInv, GapInv, Balance, LogInv, Step(me)
    PROVE  LogInv'
  <1>0. PICK b, c : b = bot[me] /\ c = bot'[me]  OBVIOUS
  <1>1. /\ b.at \in Places /\ b # Rest /\ seen'.died = seen.died /\ seen'.torn = seen.torn
        /\ seen'.overlap = seen.overlap
        /\ b.work \in Work /\ DOMAIN bot = Procs /\ ProcOk(b) /\ BotOk(b, Len(sold)) /\ Len(sold) \in Nat
        /\ DOMAIN b = BotFields
    BY <1>0, Numbers, StepMoves DEF Places, Rest
  <1>2. Unlogged' = Unlogged
    <2>1. At("scan", "boughtRow")' <=> At("scan", "boughtRow")
      <3>1. CASE me = "scan"
        <4>1. bot["scan"].at # "boughtRow" /\ bot'["scan"].at # "boughtRow"
          BY <3>1, <1>1, StepMoves DEF Places
        <4> QED BY <4>1 DEF At
      <3>2. CASE me # "scan"
        <4>1. bot'["scan"] = bot["scan"]  BY <3>2, StepMoves DEF Procs
        <4> QED BY <4>1 DEF At
      <3> QED BY <3>1, <3>2
    <2> QED BY <2>1 DEF Unlogged
  <1>3. Undisturbed => LogOk(b) /\ Logged  BY <1>0 DEF LogInv, Logged
  <1>4. ASSUME UNCHANGED <<bought, sells, events, shadow>>, bot' = [bot EXCEPT ![me] = c],
               InHand(b) => InHand(c) /\ Row(c) = Row(b), InHand(c) => InHand(b),
               Undisturbed => LogOk(c)
        PROVE  LogInv'
    <2>1. Undisturbed' => Undisturbed  BY <1>1, <1>4, UndisturbedBack
    <2> QED BY <1>0, <1>2, <1>4, <2>1, LogMoves
  <1>5. ASSUME UNCHANGED <<bought, sells, events, shadow>>, bot' = [bot EXCEPT ![me] = c],
               b.at \notin {"note", "drop", "event", "append"},
               c.work \in {"drift", "close"}, c.at \notin {"note", "drop", "event", "append", "close"}
        PROVE  LogInv'
    BY <1>4, <1>5, FreeLog DEF InHand
  <1>6. CASE CheckEvent(me)
    <2>1. /\ b.at = "event" /\ UNCHANGED <<bought, sells, events, shadow>>
          /\ bot' = [bot EXCEPT ![me] = c]
          /\ c = IF <<b.order, b.key>> \in events THEN Next1(b, b.work # "backfill")
                                                 ELSE [b EXCEPT !.at = "append"]
      BY <1>0, <1>1, <1>6 DEF CheckEvent, At, ledger, log
    <2>2. CASE Undisturbed
      <3>1. InHand(b) /\ <<b.order, b.key>> \notin events  BY <1>3, <2>1, <2>2 DEF LogOk, InHand
      <3>2. c.at = "append" /\ c.work = b.work /\ c.order = b.order /\ c.key = b.key /\ c.qty = b.qty
            /\ c.todo = b.todo
        BY <2>1, <3>1, <1>1 DEF BotFields
      <3>3. InHand(c) /\ Row(c) = Row(b) /\ LogOk(c)
        BY <3>1, <3>2, <1>3, <2>2 DEF InHand, Row, LogOk
      <3> QED BY <2>1, <3>1, <3>3, <1>4
    <2>3. CASE ~Undisturbed
      <3>1. ~Undisturbed'  BY <2>1, <2>3, <1>1, UndisturbedBack
      <3> QED BY <3>1 DEF LogInv
    <2> QED BY <2>2, <2>3
  <1>7. CASE AppendEvent(me)  BY <1>7, AppendLog
  <1>8. CASE AddTrade(me)
    <2>1. /\ b.at = "add" /\ b.work \in {"drift", "full"} /\ b.key = "order"
          /\ UNCHANGED <<bought, events, shadow, seen>>
      BY <1>0, <1>1, <1>8 DEF AddTrade, At, log, Calm, ProcOk, InPlace, Rest
    <2>2. CASE Booked(b.order)
      <3>1. c = Next1(b, FALSE) /\ bot' = [bot EXCEPT ![me] = c] /\ sells' = sells
        BY <1>0, <1>1, <1>8, <2>2 DEF AddTrade
      <3>2. /\ c.at \in {"leg", "order"} /\ c.work = b.work /\ c.todo = b.todo \ {b.order}
        BY <3>1, <2>1, <1>1, NextFields
      <3>3. ~InHand(b) /\ ~InHand(c)  BY <2>1, <3>2 DEF InHand
      <3>4. Undisturbed => LogOk(c)  BY <3>2, <3>3, <1>3, <2>1 DEF LogOk
      <3> QED BY <1>4, <2>1, <3>1, <3>3, <3>4
    <2>3. CASE ~Booked(b.order)
      <3>1. PICK r : r = [order |-> b.order, key |-> "order", qty |-> b.qty]  OBVIOUS
      <3>2. sells' = sells \cup {r} /\ Go(me, "note") /\ Row(b) = r
            /\ r.order = b.order /\ r.key = "order"
        BY <1>0, <1>8, <2>1, <2>3, <3>1 DEF AddTrade, Row
      <3>3. \A s \in sells : ~(s.order = r.order /\ s.key = r.key)
        BY <2>3, <3>2 DEF Booked
      <3> QED BY <1>0, <2>1, <3>2, <3>3, BookLog
    <2> QED BY <2>2, <2>3
  <1>9. CASE NoteLoss(me)
    <2>1. PICK a \in {"drop", "event"} : Go(me, a)  BY <1>9 DEF NoteLoss
    <2>2. b.at = "note" /\ UNCHANGED <<bought, sells, events, shadow>>
      BY <1>0, <1>9 DEF NoteLoss, At, ledger, log
    <2>3. /\ bot' = [bot EXCEPT ![me] = c] /\ c.at = a /\ c.work = b.work /\ c.order = b.order
          /\ c.key = b.key /\ c.qty = b.qty /\ c.todo = b.todo
      BY <2>1, <1>0, GoFields
    <2>4. b.work # "backfill"  BY <1>1, <2>2 DEF ProcOk, InPlace, Rest
    <2>5. InHand(b) /\ InHand(c) /\ Row(c) = Row(b)  BY <2>2, <2>3, <2>4 DEF InHand, Row
    <2>6. Undisturbed => LogOk(c)  BY <1>3, <2>2, <2>3, <2>5 DEF LogOk
    <2> QED BY <1>4, <2>2, <2>3, <2>5, <2>6
  <1>10. CASE Compare(me)
    <2>1. /\ me = "scan" /\ bot' = [bot EXCEPT !["scan"] = c] /\ c.work = "drift"
          /\ c.at \in {"fetch", "trim"}
      BY <1>0, <1>10, Compared
    <2>2. UNCHANGED <<bought, sells, events, shadow>> /\ b.at = "ready"
      BY <1>0, <1>10 DEF Compare, ledger, log, At
    <2> QED BY <1>5, <2>1, <2>2
  <1>11. CASE Fetch(me)
    <2>1. bot' = [bot EXCEPT ![me] = c] /\ c.at = "leg" /\ c.work = b.work
      BY <1>0, <1>11, FetchFields
    <2>2. b.at = "fetch" /\ UNCHANGED <<bought, sells, events, shadow>>
      BY <1>0, <1>11 DEF Fetch, At, ledger, log
    <2>3. b.work = "drift"  BY <2>2, <1>1 DEF ProcOk, InPlace, Rest
    <2> QED BY <1>5, <2>1, <2>2, <2>3
  <1>12. CASE NextLeg(me)
    <2>1. /\ b.at = "leg" /\ bot' = [bot EXCEPT ![me] = c]
          /\ UNCHANGED <<bought, sells, events, shadow>>
      BY <1>0, <1>12, LegPicked DEF ledger, log
    <2>2. b.work = "drift"  BY <2>1, <1>1 DEF ProcOk, InPlace, Rest
    <2>3. c.work = "drift" /\ c.at \in {"leg", "trim", "add"}
      <3>1. CASE c = NextPass(b)  BY <3>1, <2>1, <2>2, <1>1, PassFields
      <3>2. CASE c # NextPass(b)  BY <3>2, <2>2, <1>0, <1>12, LegPicked
      <3> QED BY <3>1, <3>2
    <2> QED BY <1>5, <2>1, <2>3
  <1>13. CASE Trim(me)
    <2>1. /\ b.at = "trim" /\ bot' = [bot EXCEPT ![me] = c] /\ c.at = "fills" /\ c.work = "drift"
          /\ UNCHANGED <<bought, sells, events, shadow>>
      BY <1>0, <1>1, <1>13 DEF Trim, At, ledger, log, Rest
    <2> QED BY <1>5, <2>1
  <1>14. CASE FetchFills(me)
    <2>1. /\ b.at = "fills" /\ bot' = [bot EXCEPT ![me] = c] /\ c.at = "order" /\ c.work = "full"
          /\ c.todo = {o \in Orders : <<o, "order">> \notin events}
          /\ UNCHANGED <<bought, sells, events, shadow>>
      <3>1. PICK x, f, t : /\ bot' = [bot EXCEPT ![me] =
                                  [Rest EXCEPT !.at = "order", !.work = "full", !.ex = x,
                                               !.fills = f, !.todo = t]]
                           /\ t = {o \in Orders : <<o, "order">> \notin events}
        BY <1>14 DEF FetchFills
      <3>2. c = [Rest EXCEPT !.at = "order", !.work = "full", !.ex = x, !.fills = f, !.todo = t]
        BY <3>1, <1>0, <1>1
      <3>3. c.at = "order" /\ c.work = "full" /\ c.todo = t  BY <3>2 DEF Rest
      <3>4. bot' = [bot EXCEPT ![me] = c]  BY <3>1, <3>2
      <3> QED BY <3>1, <3>3, <3>4, <1>0, <1>14 DEF FetchFills, At, ledger, log
    <2>2. ~InHand(b) /\ ~InHand(c) /\ LogOk(c)  BY <2>1 DEF InHand, LogOk
    <2> QED BY <1>4, <2>1, <2>2
  <1>15. CASE NextOrder(me)
    <2>1. /\ b.at = "order" /\ bot' = [bot EXCEPT ![me] = c]
          /\ UNCHANGED <<bought, sells, events, shadow, seen>>
      BY <1>0, <1>15, OrderPicked DEF ledger, log
    <2>2. CASE ~Undisturbed
      <3>1. ~Undisturbed'  BY <2>1, <2>2, UndisturbedBack
      <3> QED BY <3>1 DEF LogInv
    <2>3. CASE Undisturbed
      <3>1. LogOk(b) /\ Logged /\ ~seen.overlap  BY <1>3, <2>3 DEF Undisturbed
      <3>2. b.work = "full"
        <4>1. b.work \in {"full", "backfill"}  BY <1>1, <2>1 DEF ProcOk, InPlace, Rest
        <4> QED BY <4>1, <3>1 DEF LogOk
      <3>3. ~InHand(b)  BY <2>1 DEF InHand
      <3>4. CASE c.at = "order" /\ c.todo = {} /\ c.work = b.work
        <4>1. ~InHand(c) /\ LogOk(c)  BY <3>2, <3>4 DEF InHand, LogOk
        <4> QED BY <1>4, <2>1, <3>3, <4>1
      <3>5. CASE ~(c.at = "order" /\ c.todo = {} /\ c.work = b.work)
        <4>1. /\ c.order \in b.todo /\ c.todo \subseteq b.todo
              /\ ~Booked(c.order) => c.work = "full" /\ c.at = "add"
          BY <3>5, <1>0, <1>15, OrderPicked
        <4>2. ~Booked(c.order)
          <5> SUFFICES ASSUME NEW s \in sells, s.order = c.order, s.key = "order" PROVE FALSE
            BY DEF Booked
          <5>1. <<s.order, s.key>> \notin events  BY <4>1, <3>1, <3>2 DEF LogOk
          <5>2. PICK p \in Procs : InHand(bot[p])  BY <5>1, <3>1 DEF Logged
          <5>3. \A r \in Procs \ {me} : bot[r] = Rest  BY <1>0, <1>1, <3>1, OtherRests
          <5> QED BY <5>2, <5>3, <1>0, <3>3, RestLog
        <4>3. ~InHand(c) /\ LogOk(c)  BY <4>1, <4>2, <3>1, <3>2 DEF InHand, LogOk
        <4> QED BY <1>4, <2>1, <3>3, <4>3
      <3> QED BY <3>4, <3>5
    <2> QED BY <2>2, <2>3
  <1>16. CASE FixRow(me)
    <2>1. /\ bot' = [bot EXCEPT ![me] = c] /\ c.at = "order" /\ c.work = b.work /\ c.todo = b.todo
          /\ b.at = "fix" /\ UNCHANGED <<bought, sells, events, shadow>>
      BY <1>0, <1>16, GoFields DEF FixRow, At, ledger, log
    <2>2. ~InHand(b) /\ ~InHand(c)  BY <2>1 DEF InHand
    <2>3. Undisturbed => LogOk(c)  BY <1>3, <2>1, <2>2 DEF LogOk
    <2> QED BY <1>4, <2>1, <2>2, <2>3
  <1>17. CASE FillsDone(me)
    <2>1. /\ bot' = [bot EXCEPT ![me] = c] /\ c.at = "rest" /\ c.work = "drift" /\ b.at = "order"
          /\ UNCHANGED <<bought, sells, events, shadow>>
      BY <1>0, <1>1, <1>17 DEF FillsDone, At, ledger, log, Rest
    <2> QED BY <1>5, <2>1
  <1> QED BY <1>6, <1>7, <1>8, <1>9, <1>10, <1>11, <1>12, <1>13, <1>14, <1>15, <1>16, <1>17 DEF Step

LEMMA LogStays ==
    ASSUME LogInv, Undisturbed' => Undisturbed, UNCHANGED <<bought, sells, bot, events, shadow>>
    PROVE  LogInv'
  <1> SUFFICES ASSUME Undisturbed' PROVE Logged'  BY DEF LogInv
  <1>1. Logged  BY DEF LogInv
  <1>2. Net' = Net  BY SameNet
  <1>3. Unlogged' = Unlogged /\ Pending("scan")' = Pending("scan") /\ Pending("panel")' = Pending("panel")
    BY DEF Unlogged, Pending, At
  <1>4. \A p \in Procs : LogOk(bot[p])'  BY <1>1 DEF Logged, LogOk
  <1> QED BY <1>1, <1>2, <1>3, <1>4 DEF Logged

LEMMA LogKept ==
    BooksInv /\ BooksInv' /\ ExactInv /\ GapInv /\ Balance /\ LogInv /\ [Next]_vars => LogInv'
  <1> SUFFICES ASSUME BooksInv, BooksInv', ExactInv, GapInv, Balance, LogInv, [Next]_vars
               PROVE  LogInv'
    OBVIOUS
  <1>0. /\ "scan" \in Procs /\ "panel" \in Procs /\ DOMAIN bot = Procs /\ DOMAIN seen = SeenFields
        /\ \A p \in Procs : DOMAIN bot[p] = BotFields /\ ProcOk(bot[p])
        /\ Size \in Nat /\ bought \in Nat /\ shadow \in Nat /\ Len(sold) \in Nat
    BY SizeNat, Numbers DEF Procs, BooksInv, BotsOk, Records, BotOk, Quantities
  <1>1. CASE Step("scan") \/ Step("panel")  BY <1>0, <1>1, StepLog
  <1>2. ASSUME NEW me \in Procs, NEW c, bot' = [bot EXCEPT ![me] = c],
               UNCHANGED <<bought, sells, events, shadow>>,
               seen.torn => seen'.torn, seen.overlap => seen'.overlap, seen.died \subseteq seen'.died,
               bot[me].at \notin {"note", "drop", "event", "append", "boughtRow"},
               c.work \in {"drift", "close"},
               c.at \notin {"note", "drop", "event", "append", "close", "boughtRow"}
        PROVE  LogInv'
    <2>1. Undisturbed' => Undisturbed  BY <1>2, UndisturbedBack
    <2>2. LogOk(c) /\ ~InHand(c) /\ ~InHand(bot[me])  BY <1>2, FreeLog DEF InHand
    <2>3. At("scan", "boughtRow")' <=> At("scan", "boughtRow")
      <3>1. CASE me = "scan"  BY <3>1, <1>0, <1>2 DEF At
      <3>2. CASE me # "scan"
        <4>1. bot'["scan"] = bot["scan"]  BY <3>2, <1>0, <1>2
        <4> QED BY <4>1 DEF At
      <3> QED BY <3>1, <3>2
    <2>4. Unlogged' = Unlogged  BY <2>3 DEF Unlogged
    <2> QED BY <1>2, <2>1, <2>2, <2>4, LogMoves
  <1>3. ASSUME ~At("scan", "note"), bot["scan"].at \in {"bought", "boughtRow"},
               seen' = seen, UNCHANGED <<sells, events>>,
               NEW a \in {"ready", "boughtRow"}, Go("scan", a),
               Logged /\ ~seen.overlap => /\ shadow' + Unlogged' = Net' /\ Net' \in Int
                                           /\ bot["scan"].work = "drift"
        PROVE  LogInv'
    <2> SUFFICES ASSUME Undisturbed' PROVE Logged'  BY DEF LogInv
    <2>1. Undisturbed  BY <1>3, UndisturbedBack
    <2>2. Logged /\ ~seen.overlap  BY <2>1 DEF LogInv, Undisturbed
    <2>3. bot["scan"] # Rest  BY <1>3, RestLog
    <2>4. bot["panel"] = Rest  BY <1>0, <2>2, <2>3, OtherRests DEF Procs
    <2>5. PICK c : c = bot'["scan"]  OBVIOUS
    <2>6. bot' = [bot EXCEPT !["scan"] = c] /\ c.at = a /\ c.work = "drift"
      BY <1>0, <1>3, <2>2, <2>5, GoFields
    <2>7. \A p \in Procs : LogOk(bot'[p]) /\ ~InHand(bot'[p]) /\ ~InHand(bot[p])
      <3>1. LogOk(c) /\ ~InHand(c)  BY <1>3, <2>6, FreeLog
      <3>2. ~InHand(bot["scan"])  BY <1>3 DEF InHand
      <3> QED BY <1>0, <2>4, <2>6, <3>1, <3>2, RestLog DEF Procs
    <2>8. Pending("scan")' = 0 /\ Pending("panel")' = 0  BY <1>0, <2>7 DEF Pending
    <2>9. Net' \in Int  BY <1>3, <2>2
    <2>10. (shadow + Unlogged)' = Net' + Pending("scan")' + Pending("panel")'
      BY <1>3, <2>2, <2>8, <2>9
    <2>11. \A s \in sells : <<s.order, s.key>> \in events
      BY <2>2, <2>7 DEF Logged
    <2>12. \A p \in Procs : LogOk(bot[p])'
      BY <1>3, <2>7 DEF LogOk
    <2> QED BY <1>3, <2>2, <2>10, <2>11, <2>12 DEF Logged
  <1>4. ASSUME Logged, ~seen.overlap, bot["scan"].at \in {"bought", "boughtRow"}
        PROVE  shadow + Unlogged = Net + 0
    <2>1. bot["panel"] = Rest  BY <1>0, <1>4, RestLog, OtherRests DEF Procs
    <2>2. Pending("scan") = 0 /\ Pending("panel") = 0
      BY <1>4, <2>1, RestLog DEF Pending, InHand
    <2>3. Net \in Int  BY <1>0, Numbers
    <2> QED BY <1>4, <2>2, <2>3 DEF Logged
  <1>5. CASE Sync
    <2>1. PICK c : c = bot'["scan"]  OBVIOUS
    <2>2. /\ bot' = [bot EXCEPT !["scan"] = c] /\ c.at = "ready" /\ c.work = bot["scan"].work
          /\ bot["scan"].at = "rest"
      BY <1>0, <1>5, <2>1, GoFields DEF Sync, At
    <2>3. c.work = "drift"  BY <1>0, <2>2 DEF ProcOk, InPlace, Rest
    <2>4. /\ UNCHANGED <<bought, sells, events, shadow>>
          /\ seen'.torn = seen.torn /\ (seen.overlap => seen'.overlap) /\ seen'.died = seen.died
      BY <1>0, <1>5 DEF Sync, SeenFields, ledger, log
    <2> QED BY <1>0, <1>2, <2>2, <2>3, <2>4
  <1>6. CASE Buy
    <2>1. PICK c : c = bot'["scan"]  OBVIOUS
    <2>2. /\ bot' = [bot EXCEPT !["scan"] = c] /\ c.at = "bought" /\ c.work = bot["scan"].work
          /\ bot["scan"].at = "ready"
      BY <1>0, <1>6, <2>1, GoFields DEF Buy, At
    <2>3. c.work = "drift"  BY <1>0, <2>2 DEF ProcOk, InPlace, Rest
    <2>4. UNCHANGED <<bought, sells, events, shadow, seen>>
      BY <1>6 DEF Buy, ledger, log, Calm
    <2> QED BY <1>0, <1>2, <2>2, <2>3, <2>4
  <1>7. CASE RecordBuy
    <2>1. /\ bot["scan"].at = "bought" /\ Go("scan", "boughtRow") /\ bought' = bought + Size
          /\ UNCHANGED <<sells, events, shadow, seen>>
      BY <1>7 DEF RecordBuy, At, log, Calm
    <2>2. bot["scan"].work = "drift"  BY <1>0, <2>1 DEF ProcOk, InPlace, Rest
    <2>3. Unlogged = 0 /\ Unlogged' = Size
      BY <1>0, <2>1 DEF Unlogged, At, Go, BotFields, Size
    <2>4. Net' = Net + Size /\ Net \in Int
      <3>1. AllBooked' = AllBooked /\ AllBooked \in Nat
        <4>1. IsFiniteSet(sells)  BY DEF ExactInv, Keyed
        <4> QED BY <4>1, <2>1, RowsFinite DEF AllBooked
      <3> QED BY <3>1, <2>1, <1>0 DEF Net
    <2>5. Logged /\ ~seen.overlap => shadow' + Unlogged' = Net' /\ Net' \in Int
      BY <1>0, <1>4, <2>1, <2>3, <2>4
    <2> QED BY <1>3, <2>1, <2>2, <2>5 DEF At
  <1>8. CASE LogBuy
    <2>1. /\ bot["scan"].at = "boughtRow" /\ Go("scan", "ready") /\ shadow' = shadow + Size
          /\ UNCHANGED <<bought, sells, events, seen>>
      BY <1>8 DEF LogBuy, At, ledger, Calm
    <2>2. bot["scan"].work = "drift"  BY <1>0, <2>1 DEF ProcOk, InPlace, Rest
    <2>3. Unlogged = Size /\ Unlogged' = 0
      BY <1>0, <2>1 DEF Unlogged, At, Go, BotFields
    <2>4. Net' = Net /\ Net \in Int  BY <1>0, <2>1, SameNet, Numbers
    <2>5. Logged /\ ~seen.overlap => shadow' + Unlogged' = Net' /\ Net' \in Int
      BY <1>0, <1>4, <2>1, <2>3, <2>4
    <2> QED BY <1>3, <2>1, <2>2, <2>5 DEF At
  <1>9. CASE Close("order") \/ Close("client")
    <2>1. PICK key \in Keys : Close(key)  BY <1>9 DEF Keys
    <2>2. PICK c : /\ bot' = [bot EXCEPT !["scan"] = c]
                   /\ c = [Rest EXCEPT !.at = "close", !.work = "close", !.order = Len(sold'),
                                       !.key = key, !.qty = row]
      BY <2>1 DEF Close
    <2>3. c.at = "close" /\ c.work = "close" /\ c.order = Len(sold')  BY <2>2 DEF Rest
    <2>4. /\ bot["scan"].at = "ready" /\ UNCHANGED <<bought, sells, events, shadow>> /\ SellAll
          /\ (seen.torn => seen'.torn) /\ seen'.overlap = seen.overlap /\ seen'.died = seen.died
      <3>1. PICK t : t = (seen.torn \/ row # held)  OBVIOUS
      <3>2. seen' = [seen EXCEPT !.calm = 0, !.torn = t]  BY Zenon, <2>1, <3>1 DEF Close
      <3>3. seen'.torn = t /\ seen'.overlap = seen.overlap /\ seen'.died = seen.died
        BY <3>2, <1>0 DEF SeenFields
      <3>4. seen.torn => seen'.torn  BY Zenon, <3>1, <3>3
      <3> QED BY <3>3, <3>4, <2>1 DEF Close, At, ledger, log
    <2>5. Len(sold') = Len(sold) + 1  BY <2>4, SoldAll
    <2>6. \A s \in sells : s.order # c.order
      <3>1. \A s \in sells : s.order \in 1 .. Len(sold)
        <4>1. IsFiniteSet(sells)  BY DEF ExactInv, Keyed
        <4> QED BY <4>1, RowsFinite, OrdersFinite
      <3> QED BY <3>1, <2>3, <2>5, <1>0
    <2>7. LogOk(c) /\ ~InHand(c) /\ ~InHand(bot["scan"])  BY <2>3, <2>4, <2>6 DEF LogOk, InHand
    <2>8. Undisturbed' => Undisturbed  BY <2>4, UndisturbedBack
    <2>9. Unlogged' = Unlogged
      BY <1>0, <2>2, <2>3, <2>4 DEF Unlogged, At
    <2> QED BY <1>0, <2>2, <2>4, <2>7, <2>8, <2>9, LogMoves
  <1>10. CASE CloseTrade
    <2>0. PICK b : b = bot["scan"]  OBVIOUS
    <2>1. /\ b.at = "close" /\ Go("scan", "note")
          /\ UNCHANGED <<bought, events, shadow, seen>>
      BY <2>0, <1>10 DEF CloseTrade, At, log, Calm
    <2>2. b.work = "close"  BY <1>0, <2>0, <2>1 DEF ProcOk, InPlace, Rest
    <2>3. PICK r : r = [order |-> b.order, key |-> b.key, qty |-> b.qty]  OBVIOUS
    <2>4. Row(b) = r /\ r.order = b.order  BY <2>3 DEF Row
    <2>5. \/ \E s \in sells : s.order = b.order
          \/ sells' = sells \cup {r}
      BY <2>0, <2>3, <1>10 DEF CloseTrade
    <2>6. CASE \A s \in sells : s.order # b.order
      BY <1>0, <2>0, <2>1, <2>2, <2>4, <2>5, <2>6, BookLog
    <2>7. CASE \E s \in sells : s.order = b.order
      <3>1. ~Undisturbed
        <4> SUFFICES ASSUME Undisturbed PROVE FALSE  OBVIOUS
        <4>1. LogOk(b)  BY <2>0, <1>0 DEF LogInv, Logged
        <4> QED BY <4>1, <2>1, <2>7 DEF LogOk
      <3>2. sells \subseteq sells'
        BY <1>10 DEF CloseTrade
      <3>3. ~Undisturbed'  BY <2>1, <3>1, <3>2, UndisturbedBack
      <3> QED BY <3>3 DEF LogInv
    <2> QED BY <2>6, <2>7
  <1>11. CASE CloseRow
    <2>1. PICK b, c : b = bot["scan"] /\ c = bot'["scan"]  OBVIOUS
    <2>2. /\ b.at = "drop" /\ Go("scan", "event")
          /\ UNCHANGED <<bought, sells, events, shadow, seen>>
      BY <2>1, <1>11 DEF CloseRow, At, ledger, log, Calm
    <2>3. /\ bot' = [bot EXCEPT !["scan"] = c] /\ c.at = "event" /\ c.work = b.work /\ c.order = b.order
          /\ c.key = b.key /\ c.qty = b.qty /\ c.todo = b.todo
      BY <1>0, <2>1, <2>2, GoFields
    <2>4. b.work = "close"  BY <1>0, <2>1, <2>2 DEF ProcOk, InPlace, Rest
    <2>5. InHand(b) /\ InHand(c) /\ Row(c) = Row(b)  BY <2>2, <2>3, <2>4 DEF InHand, Row
    <2>6. Undisturbed' => Undisturbed  BY <2>2, UndisturbedBack
    <2>7. Undisturbed => LogOk(c)
      <3>1. Undisturbed => LogOk(b)  BY <2>1, <1>0 DEF LogInv, Logged
      <3> QED BY <3>1, <2>2, <2>3, <2>4, <2>5 DEF LogOk
    <2>8. Unlogged' = Unlogged  BY <1>0, <2>1, <2>2, <2>3 DEF Unlogged, At
    <2> QED BY <1>0, <2>1, <2>2, <2>3, <2>5, <2>6, <2>7, <2>8, LogMoves
  <1>12. CASE Exit("scan") \/ Exit("panel")
    <2>1. PICK me \in Procs : Exit(me)  BY <1>0, <1>12
    <2>2. PICK c : c = bot'[me]  OBVIOUS
    <2>3. bot' = [bot EXCEPT ![me] = c] /\ c.at = "fills" /\ c.work = bot[me].work
      BY <2>1, <2>2, ExitMoves, GoFields
    <2>4. bot[me].at \in {"ready", "rest"} /\ UNCHANGED <<bought, sells, events, shadow>>
      BY <2>1, ExitMoves
    <2>5. c.work = "drift"
      <3>1. ProcOk(bot[me])  BY <1>0
      <3> QED BY <3>1, <2>3, <2>4 DEF ProcOk, InPlace, Rest
    <2>6. seen'.torn = seen.torn /\ seen'.died = seen.died /\ (seen.overlap => seen'.overlap)
      <3>1. me = "scan" \/ me = "panel"  BY DEF Procs
      <3> QED BY Zenon, <2>1, <3>1, ExitMoves
    <2> QED BY <1>2, <2>3, <2>4, <2>5, <2>6
  <1>13. CASE Market
    <2>1. PICK l \in DOMAIN Legs : LegFills(l)  BY <1>13 DEF Market
    <2>2. UNCHANGED <<bought, sells, bot, events, shadow>>  BY <2>1, LegSold
    <2>3. (seen.torn => seen'.torn) /\ seen'.overlap = seen.overlap /\ seen'.died = seen.died
      <3>1. PICK t : /\ seen' = [seen EXCEPT !.calm = 0, !.torn = t] /\ (seen.torn => t)
        BY Zenon, <2>1 DEF LegFills
      <3> QED BY <3>1, <1>0 DEF SeenFields
    <2>4. Undisturbed' => Undisturbed  BY <2>2, <2>3, UndisturbedBack
    <2> QED BY <2>2, <2>4, LogStays
  <1>14. CASE \E p \in Procs : Unreadable(p) \/ Dies(p)
    <2>1. PICK p \in Procs : Unreadable(p) \/ Dies(p)  BY <1>14
    <2>2. CASE Dies(p)
      <3>1. seen'.died = seen.died \cup {bot[p].at}  BY <2>2, FailFields
      <3> QED BY <3>1 DEF LogInv, Undisturbed
    <2>3. CASE Unreadable(p)
      <3>1. PICK b, c : b = bot[p] /\ c = bot'[p]  OBVIOUS
      <3>2. /\ bot' = [bot EXCEPT ![p] = c] /\ UNCHANGED <<bought, sells, events, shadow>>
            /\ seen'.overlap = seen.overlap /\ seen'.torn = seen.torn /\ seen'.died = seen.died
            /\ \/ b.at = "fetch" /\ c.at = "trim" /\ c.work = b.work
               \/ b.at = "ready" /\ c = [Rest EXCEPT !.at = "fills"]
               \/ b.at = "fills" /\ c = Rest
        BY <2>3, <3>1, FailFields
      <3>3. b.at = "fetch" => b.work = "drift"
        BY <1>0, <3>1 DEF ProcOk, InPlace, Rest
      <3>4. c.work = "drift" /\ c.at \in {"trim", "fills", "rest"}
        BY <3>2, <3>3 DEF Rest
      <3>5. b.at \in {"fetch", "ready", "fills"}  BY <3>2
      <3> QED BY <1>2, <3>1, <3>2, <3>4, <3>5
    <2> QED BY <2>1, <2>2, <2>3
  <1>15. CASE UNCHANGED vars
    <2>1. UNCHANGED <<bought, sells, bot, events, shadow, seen>>  BY <1>15 DEF vars, ledger, log
    <2>2. Undisturbed' => Undisturbed  BY <2>1, UndisturbedBack
    <2> QED BY <2>1, <2>2, LogStays
  <1> QED BY <1>1, <1>5, <1>6, <1>7, <1>8, <1>9, <1>10, <1>11, <1>12, <1>13, <1>14, <1>15 DEF Next, Scan, Panel

LEMMA LogStart == Init => LogInv
  <1> SUFFICES ASSUME Init PROVE Logged  BY DEF LogInv
  <1>1. /\ \A p \in Procs : bot[p] = Rest
        /\ sells = {} /\ events = {} /\ shadow = 0 /\ bought = 0 /\ "scan" \in Procs /\ "panel" \in Procs
    BY DEF Init, Procs
  <1>2. Unlogged = 0 /\ Pending("scan") = 0 /\ Pending("panel") = 0
    BY <1>1, RestLog DEF Unlogged, Pending, At
  <1>3. Net = 0
    <2>1. BooksInv  BY BooksStart
    <2>2. IsFiniteSet(sells)  BY <1>1, FS_EmptySet
    <2>3. AllBooked = SumFunctionOnSet(Bq, sells) /\ Net = bought - AllBooked  BY <2>1, <2>2, RowsFinite
    <2>4. AllBooked = 0  BY <2>3, <1>1, SumEmpty
    <2> QED BY <1>1, <2>3, <2>4
  <1> QED BY <1>1, <1>2, <1>3, RestLog DEF Logged

LEMMA LogAlways == Spec => [](BooksInv /\ ExactInv /\ GapInv /\ Balance /\ LogInv)
BY LogStart, LogKept, BalanceStart, BalanceKept, GapStart, GapKept, ExactStart, ExactKept,
   BooksStart, BooksKept, PTL DEF Spec

\* The two books of one sale are written by different code, at different times,
\* and each is asked whether the order is new to it: still, at the end of a round,
\* the shadow position of the log is what the trades table says.
THEOREM ShadowPositionFollows == Spec => []ShadowFollows
  <1>1. BooksInv /\ ExactInv /\ GapInv /\ Balance /\ LogInv => ShadowFollows
    <2> SUFFICES ASSUME BooksInv, ExactInv, GapInv, LogInv, RoundOver, seen.died = {},
                        ~seen.overlap, Proper
                 PROVE  shadow = Net
      BY DEF ShadowFollows
    <2>1. Logged  BY DEF LogInv, Undisturbed
    <2>2. bot["scan"].at = "order" /\ "scan" \in Procs  BY DEF RoundOver, At, Procs
    <2>3. bot["panel"] = Rest  BY <2>2, OtherRests, RestLog DEF Procs
    <2>4. Unlogged = 0 /\ Pending("scan") = 0 /\ Pending("panel") = 0
      BY <2>2, <2>3, RestLog DEF Unlogged, Pending, At, InHand
    <2>5. Net \in Int /\ shadow \in Nat  BY <2>2, Numbers DEF BooksInv, Quantities
    <2> QED BY <2>1, <2>4, <2>5 DEF Logged
  <1> QED BY <1>1, LogAlways, PTL

-----------------------------------------------------------------------------
(* Two rounds book every sale                                               *)

LEMMA GoodBack ==
    ASSUME sells \subseteq sells', seen.torn => seen'.torn, seen.died \subseteq seen'.died
    PROVE  Good' => Good
BY ProperBack DEF Good

\* A smaller gap, or a larger holding, is no more significant.
LEMMA LessSignificant ==
    ASSUME NEW g \in Int, NEW h \in Int, NEW x \in Nat, NEW y \in Nat, g <= h, x >= y,
           Significant(g, x)
    PROVE  Significant(h, y)
BY DEF Significant

\* What the ledger is short of is what the orders without a row sold.
LEMMA GapSold ==
    ASSUME BooksInv, ExactInv, Balance, Good, bot["scan"].at # "bought"
    PROVE  /\ \A o \in Orders : Rowless(o) => SoldQty(o) <= Net - held
           /\ (\A o \in Orders : Rowless(o) => SoldQty(o) = 0) => Net - held = 0
  <1>1. Unrecorded = 0  BY DEF Unrecorded, At
  <1>2. IsFiniteSet(sells)  BY DEF ExactInv, Keyed
  <1>3. AllBooked \in Nat /\ held \in Nat /\ AllSold \in Nat /\ bought \in Nat /\ Net = bought - AllBooked
        /\ \A o \in Orders : SoldQty(o) \in Nat
    BY <1>2, RowsFinite, OrdersFinite
  <1>4. held + AllSold = bought  BY <1>1, <1>3 DEF Balance, Good
  <1>5. Net - held = AllSold - AllBooked  BY <1>3, <1>4
  <1>6. /\ \A o \in Orders : Rowless(o) => SoldQty(o) <= AllSold - AllBooked
        /\ (\A o \in Orders : Rowless(o) => SoldQty(o) = 0) => AllBooked = AllSold
    BY LedgerSplits DEF Good, Proper, ExactInv, Rowless
  <1> QED BY <1>3, <1>5, <1>6

\* Outside the loops: a round that goes on keeps what the last one left.
LEMMA AfterKept ==
    ASSUME BooksInv, After, Good' => Good, held \in Nat, held' = held, Gap \in Int, Gap' \in Int,
           Gap' <= Gap, seen'.calm = 2 => seen.calm = 2, snap' => snap
    PROVE  After'
  <1> SUFFICES ASSUME Good' PROVE /\ seen'.calm = 2 => ~Significant(Gap', held')
                                  /\ snap' /\ held' = 0 => Gap' <= 0
    BY DEF After
  <1>1. /\ seen.calm = 2 => ~Significant(Gap, held)
        /\ snap /\ held = 0 => Gap <= 0
    BY DEF After
  <1>2. seen'.calm = 2 => ~Significant(Gap', held')
    <2>1. PICK g, h : g = Gap' /\ h = Gap  OBVIOUS
    <2>2. Significant(g, held) => Significant(h, held)  BY <2>1, LessSignificant
    <2> QED BY <1>1, <2>1, <2>2
  <1>3. snap' /\ held' = 0 => Gap' <= 0  BY <1>1
  <1> QED BY <1>2, <1>3

\* The scan moves, between its loops, without selling.
LEMMA RoundGoes ==
    ASSUME BooksInv, RoundInv, NEW c, bot' = [bot EXCEPT !["scan"] = c],
           seen'.calm = seen.calm, Good' => Good,
           seen.calm > 0 /\ RoundAt(bot["scan"]) /\ bot["scan"].work # "close" => c.work # "close" /\ RoundAt(c)'
    PROVE  RoundInv'
  <1>1. bot'["scan"] = c /\ bot'["panel"] = bot["panel"]
    BY DEF BooksInv, BotsOk, Procs
  <1>2. RoundAt(c)' => RoundAt(bot["scan"])'
    <2>1. PICK d : d = bot'["scan"]  OBVIOUS
    <2>2. RoundAt(c)' => RoundAt(d)'  BY <1>1, <2>1
    <2> QED BY <2>1, <2>2 DEF RoundAt, Drift, Looping, Trimming, After, LoopGap, LoopPath, InLoop,
                              LoopFills, LoopTodo
  <1> QED BY <1>1, <1>2 DEF RoundInv

\* Rounds disturbed say nothing.
LEMMA RoundBroken ==
    ASSUME seen'.calm = 0
    PROVE  RoundInv'
BY DEF RoundInv

LEMMA CompareRound ==
    ASSUME BooksInv, BooksInv', ExactInv, Balance, RoundInv, Compare("scan")
    PROVE  RoundInv'
  <1>0. PICK c : c = bot'["scan"]  OBVIOUS
  <1> DEFINE main == row > 0 /\ Significant(Net - held, held)
             pathB == row = 0 /\ snap /\ held = 0 /\ Net > 0
             pathC == ~main /\ ~pathB /\ Net > 0 /\ Significant(Net - held, held)
  <1>1. /\ bot' = [bot EXCEPT !["scan"] = c]
        /\ c.work = "drift" /\ c.ex = held /\ c.gap = Net - held /\ c.cap = Net - held
        /\ c.pass = 1 /\ c.at \in {"fetch", "trim"}
    BY <1>0, Compared DEF Procs
  <1>2. (c.at = "fetch" <=> main \/ pathB \/ pathC) /\ (c.pre <=> main \/ pathC)
    BY Zenon, <1>0, Compared DEF Procs
  <1>3. /\ UNCHANGED <<held, row, snap, sold, bought, sells>> /\ bot["scan"].at = "ready"
        /\ DOMAIN seen = SeenFields /\ DOMAIN bot = Procs
    BY DEF Compare, exchange, ledger, At, BooksInv, Records, BotsOk
  <1>4. seen' = [seen EXCEPT !.calm = IF bot["panel"] = Rest THEN Min({seen.calm + 1, 2}) ELSE 0]
    BY DEF Compare
  <1>5. PICK k : k = IF bot["panel"] = Rest THEN Min({seen.calm + 1, 2}) ELSE 0  OBVIOUS
  <1>6. seen'.calm = k /\ seen'.torn = seen.torn /\ seen'.died = seen.died
    <2>1. seen' = [seen EXCEPT !.calm = k]  BY Zenon, <1>4, <1>5
    <2> QED BY <2>1, <1>3 DEF SeenFields
  <1>7. k \in 0 .. 2 /\ (k > 0 => bot["panel"] = Rest) /\ (k = 2 => seen.calm > 0)
    <2>1. seen.calm \in 0 .. 2  BY DEF RoundInv
    <2>2. CASE bot["panel"] = Rest
      <3>1. k = Min({seen.calm + 1, 2}) /\ seen.calm + 1 \in Nat /\ seen.calm + 1 >= 1
        BY <1>5, <2>1, <2>2
      <3>2. Min({seen.calm + 1, 2}) \in {seen.calm + 1, 2}
            /\ \A x \in {seen.calm + 1, 2} : Min({seen.calm + 1, 2}) <= x
        BY <3>1, MinIn
      <3>3. k \in {seen.calm + 1, 2} /\ k <= 2 /\ k <= seen.calm + 1
        BY <3>1, <3>2
      <3> QED BY <2>1, <2>2, <3>3
    <2>3. CASE bot["panel"] # Rest  BY <2>3, <1>5
    <2> QED BY <2>2, <2>3
  <1>8. Good' <=> Good
    BY <1>3, <1>6 DEF Good, Proper, Twice
  <1>9. bot'["scan"] = c /\ bot'["panel"] = bot["panel"]
    BY <1>1, <1>3 DEF Procs
  <1>10. Net' = Net /\ Net \in Int /\ held \in Nat /\ row \in Nat
    BY <1>3, SameNet, Numbers DEF Procs, BooksInv, Quantities
  <1>11. ASSUME k > 0, c.at = "fetch"  PROVE Looping(c)'
    <2>1. c.pre \/ row = 0  BY <1>2, <1>11
    <2>2. ASSUME Good, k = 2, ~c.pre  PROVE FALSE
      <3>1. pathB  BY <1>2, <1>11, <2>2
      <3>2. After
        <4>1. RoundAt(bot["scan"])  BY <1>7, <2>2 DEF RoundInv
        <4> QED BY <4>1, <1>3 DEF RoundAt, Drift
      <3>3. Gap <= 0  BY <2>2, <3>1, <3>2 DEF After
      <3>4. Unrecorded = 0  BY <1>3 DEF Unrecorded, At
      <3> QED BY <3>1, <3>3, <3>4, <1>10 DEF Gap
    <2>3. LoopGap(c)'  BY <1>1, <1>3, <1>10, <1>11 DEF LoopGap, InLoop
    <2>4. LoopPath(c)'  BY <2>1, <2>2, <1>3, <1>6, <1>8 DEF LoopPath
    <2> QED BY <2>3, <2>4, <1>11 DEF Looping
  <1>12. ASSUME c.at = "trim"  PROVE Trimming(c)'
    <2>1. ~main /\ ~pathB /\ ~pathC  BY <1>2, <1>12
    <2>2. ~Significant(Net - held, held)
      <3> SUFFICES ASSUME Significant(Net - held, held) PROVE FALSE  OBVIOUS
      <3>1. Net > 0  BY <1>10 DEF Significant
      <3> QED BY <2>1, <3>1
    <2> QED BY <2>2, <1>1, <1>3, <1>10 DEF Trimming
  <1>13. k > 0 => RoundAt(c)'
    BY <1>1, <1>11, <1>12 DEF RoundAt, Drift
  <1>14. RoundAt(c)' => RoundAt(bot["scan"])'
    <2>1. PICK d : d = bot'["scan"]  OBVIOUS
    <2>2. RoundAt(c)' => RoundAt(d)'  BY <1>9, <2>1
    <2> QED BY <2>1, <2>2 DEF RoundAt, Drift, Looping, Trimming, After, LoopGap, LoopPath, InLoop,
                              LoopFills, LoopTodo
  <1> QED BY <1>1, <1>6, <1>7, <1>9, <1>13, <1>14 DEF RoundInv

LEMMA FetchRound ==
    ASSUME BooksInv, ExactInv, RoundInv, Fetch("scan")
    PROVE  RoundInv'
  <1>0. PICK b, c : b = bot["scan"] /\ c = bot'["scan"]  OBVIOUS
  <1>1. /\ bot' = [bot EXCEPT !["scan"] = c] /\ c.at = "leg"
        /\ c.fills = Unbooked /\ c.todo = Newer(Unbooked) /\ c.pass = b.pass
        /\ c.work = b.work /\ c.ex = b.ex /\ c.pre = b.pre /\ c.gap = b.gap /\ c.cap = b.cap
    BY <1>0, FetchFields DEF Procs
  <1>2. b.at = "fetch" /\ UNCHANGED <<held, row, snap, sold, bought, sells, seen>>
    BY <1>0 DEF Fetch, At, exchange, ledger, Calm
  <1>3. b.work = "drift" /\ b.pass = 1
    <2>1. ProcOk(b)  BY <1>0, Numbers DEF Procs
    <2> QED BY <2>1, <1>2 DEF ProcOk, InPlace, Rest
  <1>4. Good' <=> Good  BY <1>2 DEF Good, Proper, Twice
  <1>5. Net' = Net  BY <1>2, SameNet
  <1>6. ASSUME RoundAt(b)  PROVE c.work # "close" /\ RoundAt(c)'
    <2>1. LoopGap(b) /\ LoopPath(b)  BY <1>2, <1>3, <1>6 DEF RoundAt, Drift, Looping
    <2>2. LoopGap(c)' /\ LoopPath(c)'
      BY <2>1, <1>1, <1>2, <1>4, <1>5 DEF LoopGap, LoopPath, InLoop
    <2>3. LoopFills(c)
      <3>1. DOMAIN Unbooked = Orders  BY DEF Unbooked
      <3>2. \A o \in Orders : ~Booked(o) => Unbooked[o] = sold[o]  BY DEF Unbooked
      <3> QED BY <3>1, <3>2, <1>1 DEF LoopFills
    <2>4. LoopTodo(c)
      <3> SUFFICES ASSUME NEW o \in Orders, Rowless(o), sold[o].new > 0 PROVE o \in c.todo
        BY <1>1, <1>3 DEF LoopTodo
      <3>1. ~Booked(o)  BY DEF Rowless, Booked
      <3>2. o \in DOMAIN c.fills /\ c.fills[o] = sold[o]  BY <2>3, <3>1 DEF LoopFills
      <3> QED BY <3>2, <1>1 DEF Newer
    <2>5. LoopFills(c)' /\ LoopTodo(c)'
      BY <2>3, <2>4, <1>2 DEF LoopFills, LoopTodo, Booked, Rowless, Orders
    <2> QED BY <2>2, <2>5, <1>1, <1>3 DEF RoundAt, Drift, Looping
  <1> QED BY <1>0, <1>1, <1>2, <1>4, <1>6, RoundGoes

\* A sale without a row fits the gap, whichever side of the BUY row it is on.
LEMMA RowlessFits ==
    ASSUME BooksInv, ExactInv, Balance, Good, NEW b, LoopGap(b), LoopFills(b), InLoop(b) = 0,
           b.gap \in Int, bot["scan"].at # "bought", NEW o \in Orders, Rowless(o), o \in b.todo
    PROVE  o \in Fitting(b)
  <1>1. ~Booked(o)  BY DEF Rowless, Booked
  <1>2. b.fills[o] = sold[o]  BY <1>1 DEF LoopFills
  <1>3. sold[o] \in Fill /\ SoldQty(o) \in Nat /\ SoldQty(o) = sold[o].old + sold[o].new
        /\ sold[o].old \in Nat /\ sold[o].new \in Nat
    BY OrdersFinite DEF Fill, SoldQty
  <1>4. SoldQty(o) <= Net - held  BY GapSold
  <1>5. b.gap = Net - held  
    <2>1. b.gap - 0 = Net - held  BY DEF LoopGap
    <2> QED BY <2>1
  <1>6. Qty(b, o) \in Nat /\ Qty(b, o) <= b.gap  BY <1>2, <1>3, <1>4, <1>5 DEF Qty
  <1>7. Fits(Qty(b, o), b.gap)  BY <1>6 DEF Fits
  <1> QED BY <1>1, <1>7 DEF Fitting

LEMMA NextLegRound ==
    ASSUME BooksInv, ExactInv, Balance, RoundInv, NextLeg("scan")
    PROVE  RoundInv'
  <1>0. PICK b, c : b = bot["scan"] /\ c = bot'["scan"]  OBVIOUS
  <1>1. /\ b.at = "leg" /\ bot' = [bot EXCEPT !["scan"] = c]
        /\ UNCHANGED <<held, row, snap, sold, bought, sells, seen>>
    BY <1>0, LegPicked DEF Procs, exchange, ledger
  <1>2. /\ b.work = "drift" /\ b.gap \in Int /\ b.cap \in Int /\ BotOk(b, Len(sold)) /\ Len(sold) \in Nat
        /\ Net \in Int /\ held \in Nat
    <2>1. ProcOk(b) /\ b.gap \in Int /\ b.cap \in Int /\ BotOk(b, Len(sold)) /\ Len(sold) \in Nat
          /\ Net \in Int /\ held \in Nat
      BY <1>0, Numbers DEF Procs
    <2> QED BY <2>1, <1>1 DEF ProcOk, InPlace, Rest, BotOk
  <1>3. Good' <=> Good  BY <1>1 DEF Good, Proper, Twice
  <1>4. Net' = Net  BY <1>1, SameNet
  <1>5. ASSUME RoundAt(b), seen.calm > 0  PROVE c.work # "close" /\ RoundAt(c)'
    <2>1. LoopGap(b) /\ LoopPath(b) /\ LoopFills(b) /\ (Good => LoopTodo(b))
      BY <1>1, <1>2, <1>5 DEF RoundAt, Drift, Looping
    <2>2. InLoop(b) = 0 /\ b.gap = Net - held /\ b.cap = b.gap /\ b.ex = held
      BY <2>1, <1>1, <1>2 DEF LoopGap, InLoop
    <2>3. ASSUME Good, NEW o \in Orders, Rowless(o), o \in b.todo  PROVE o \in Fitting(b)
      BY <2>1, <2>2, <2>3, <1>0, <1>1, <1>2, RowlessFits
    <2>4. CASE c # NextPass(b)
      <3>1. /\ c.at = "add" /\ c.order \in Fitting(b) /\ c.todo = Fitting(b)
            /\ c.work = b.work /\ c.ex = b.ex /\ c.pre = b.pre /\ c.pass = b.pass
            /\ c.fills = b.fills /\ c.gap = b.gap /\ c.cap = b.cap
        BY <2>4, <1>0, LegPicked DEF Procs
      <3>2. ~Booked(c.order)  BY <3>1 DEF Fitting
      <3>3. LoopGap(c)  BY <3>1, <2>2, <1>2 DEF LoopGap, InLoop
      <3>4. LoopPath(c)  BY <3>1, <2>1 DEF LoopPath
      <3>5. LoopFills(c)  BY <3>1, <2>1 DEF LoopFills
      <3>6. Good => LoopTodo(c)
        <4> SUFFICES ASSUME Good, NEW o \in Orders, Rowless(o)
                     PROVE  /\ c.pass = 1 /\ sold[o].new > 0 => o \in c.todo
                            /\ c.pass # 1 => sold[o].new = 0
                            /\ c.pass # 1 /\ sold[o].old > 0 => o \in c.todo
          BY DEF LoopTodo
        <4>1. /\ b.pass = 1 /\ sold[o].new > 0 => o \in b.todo
              /\ b.pass # 1 => sold[o].new = 0
              /\ b.pass # 1 /\ sold[o].old > 0 => o \in b.todo
          BY <2>1 DEF LoopTodo
        <4>2. o \in b.todo => o \in c.todo  BY <2>3, <3>1
        <4> QED BY <4>1, <4>2, <3>1
      <3>7. Looping(c)  BY <3>1, <3>2, <3>3, <3>4, <3>5, <3>6 DEF Looping
      <3>8. Looping(c)'
        BY <3>7, <1>1, <1>3, <1>4 DEF Looping, LoopGap, LoopPath, InLoop, LoopFills, LoopTodo,
                                     Booked, Rowless, Orders
      <3> QED BY <3>1, <3>8, <1>2 DEF RoundAt, Drift
    <2>5. CASE c = NextPass(b)
      <3> DEFINE more == b.pass = 1 /\ b.pre /\ b.cap > 0
      <3>1. /\ c.work = b.work /\ c.ex = b.ex /\ c.pre = b.pre /\ c.cap = b.cap
            /\ more => /\ c.at = b.at /\ c.fills = b.fills
                       /\ c.pass = 2 /\ c.gap = b.cap /\ c.todo = Older(b.fills)
            /\ ~more => c.at = "trim"
        BY <2>5, <1>2, PassFields
      <3>2. ASSUME b.gap > 0  PROVE Fitting(b) = {}
        <4>1. ~(b.gap <= 0)  BY <3>2, <1>2
        <4>3. c.at # "add"  BY <3>1, <1>1
        <4> QED BY <4>1, <4>3, <1>0, LegPicked DEF Procs
      <3>3. CASE more
        <4>1. /\ c.at = "leg" /\ c.fills = b.fills /\ c.pass = 2 /\ c.gap = b.cap /\ c.todo = Older(b.fills)
              /\ b.gap > 0
          BY <3>1, <3>3, <1>1, <2>2
        <4>2. LoopGap(c)  BY <3>1, <4>1, <2>2, <1>2 DEF LoopGap, InLoop
        <4>3. LoopPath(c)  BY <3>1, <2>1 DEF LoopPath
        <4>4. LoopFills(c)  BY <4>1, <2>1 DEF LoopFills
        <4>5. Good => LoopTodo(c)
          <5> SUFFICES ASSUME Good, NEW o \in Orders, Rowless(o)
                       PROVE  sold[o].new = 0 /\ (sold[o].old > 0 => o \in c.todo)
            BY <4>1 DEF LoopTodo
          <5>1. sold[o].new > 0 => o \in b.todo  BY <2>1, <3>3 DEF LoopTodo
          <5>2. o \notin b.todo  BY <2>3, <3>2, <4>1
          <5>3. sold[o].new \in Nat  BY OrdersFinite DEF Fill
          <5>4. ~Booked(o)  BY DEF Rowless, Booked
          <5>5. o \in DOMAIN b.fills /\ b.fills[o] = sold[o]  BY <2>1, <5>4 DEF LoopFills
          <5> QED BY <5>1, <5>2, <5>3, <5>5, <4>1 DEF Older
        <4>6. Looping(c)  BY <4>1, <4>2, <4>3, <4>4, <4>5 DEF Looping
        <4>7. Looping(c)'
          BY <4>6, <1>1, <1>3, <1>4 DEF Looping, LoopGap, LoopPath, InLoop, LoopFills, LoopTodo,
                                       Booked, Rowless, Orders
        <4> QED BY <3>1, <4>1, <4>7, <1>2 DEF RoundAt, Drift
      <3>4. CASE ~more
        <4>1. c.at = "trim" /\ c.ex = held  BY <3>1, <3>4, <2>2
        <4>2. ASSUME Good  PROVE ~Significant(Net - held, held) \/ (seen.calm = 1 /\ row = 0)
          <5>1. CASE b.gap <= 0
            <6>1. ~Significant(b.gap, held)  BY <5>1, <1>2 DEF Significant
            <6> QED BY <6>1, <2>2
          <5>2. CASE ~(b.gap <= 0) /\ b.pass = 1
            <6>1. ~b.pre  BY <5>2, <3>4, <2>2, <1>2
            <6>2. row = 0 /\ seen.calm # 2  BY <6>1, <4>2, <2>1 DEF LoopPath
            <6>3. seen.calm = 1  BY <6>2, <1>5 DEF RoundInv
            <6> QED BY <6>2, <6>3
          <5>3. CASE ~(b.gap <= 0) /\ b.pass # 1
            <6>1. Fitting(b) = {}  BY <5>3, <3>2, <1>2
            <6>2. ASSUME NEW o \in Orders, Rowless(o)  PROVE SoldQty(o) = 0
              <7>1. o \notin b.todo  BY <2>3, <4>2, <6>1, <6>2
              <7>2. sold[o].new = 0 /\ ~(sold[o].old > 0)  BY <7>1, <6>2, <5>3, <2>1, <4>2 DEF LoopTodo
              <7>3. sold[o].old \in Nat  BY OrdersFinite DEF Fill
              <7> QED BY <7>2, <7>3 DEF SoldQty
            <6>3. bot["scan"].at # "bought"  BY <1>0, <1>1
            <6>4. Net - held = 0  BY <6>2, <6>3, <4>2, GapSold
            <6> QED BY <6>4, <5>3, <2>2, <1>2
          <5> QED BY <5>1, <5>2, <5>3
        <4>3. Trimming(c)'  BY <4>1, <4>2, <1>1, <1>3, <1>4 DEF Trimming
        <4> QED BY <3>1, <4>1, <4>3, <1>2 DEF RoundAt, Drift
      <3> QED BY <3>3, <3>4
    <2> QED BY <2>4, <2>5
  <1> QED BY <1>0, <1>1, <1>3, <1>5, RoundGoes

\* An order of the loop gets its row.
LEMMA AddTradeRound ==
    ASSUME BooksInv, BooksInv', ExactInv, RoundInv, AddTrade("scan")
    PROVE  RoundInv'
  <1>0. PICK b, c : b = bot["scan"] /\ c = bot'["scan"]  OBVIOUS
  <1>1. /\ b.at = "add" /\ UNCHANGED <<held, row, snap, sold, bought, seen>>
        /\ b.work \in {"drift", "full"} /\ b.gap \in Int /\ b.cap \in Int /\ b.qty \in Nat
        /\ BotOk(b, Len(sold)) /\ Len(sold) \in Nat /\ DOMAIN bot = Procs
        /\ Net \in Int /\ held \in Nat
    <2>1. ProcOk(b) /\ b.gap \in Int /\ b.cap \in Int /\ b.qty \in Nat
          /\ BotOk(b, Len(sold)) /\ Len(sold) \in Nat /\ DOMAIN bot = Procs
          /\ Net \in Int /\ held \in Nat
      BY <1>0, Numbers DEF Procs
    <2>2. b.at = "add" /\ UNCHANGED <<held, row, snap, sold, bought, seen>>
      BY <1>0 DEF AddTrade, At, exchange, Calm
    <2> QED BY <2>1, <2>2 DEF ProcOk, InPlace, Rest
  <1>2. IsFiniteSet(sells)  BY DEF ExactInv, Keyed
  <1>3. CASE Booked(b.order)
    <2>1. c = Next1(b, FALSE) /\ bot' = [bot EXCEPT !["scan"] = c] /\ sells' = sells
      BY <1>0, <1>1, <1>3 DEF AddTrade, Procs
    <2>2. Good' <=> Good  BY <1>1, <2>1 DEF Good, Proper, Twice
    <2>3. ASSUME RoundAt(b)  PROVE c.work # "close" /\ RoundAt(c)'
      <3>1. b.work = "full"
        BY <1>1, <1>3, <2>3 DEF RoundAt, Drift, Looping
      <3>2. c.work = "full" /\ c.at = "order"  BY <2>1, <3>1, <1>1, NextFields
      <3>3. After  BY <2>3, <3>1, <1>1 DEF RoundAt, Drift
      <3>4. After'
        <4>1. Gap' = Gap
          BY <1>0, <1>1, <2>1, <3>2 DEF Gap, Net, AllBooked, Unrecorded, At
        <4> QED BY <3>3, <4>1, <2>2, <1>1 DEF After
      <3> QED BY <3>2, <3>4 DEF RoundAt, Drift
    <2> QED BY <1>0, <1>1, <2>1, <2>2, <2>3, RoundGoes
  <1>4. CASE ~Booked(b.order)
    <2>1. PICK r : r = [order |-> b.order, key |-> "order", qty |-> b.qty]  OBVIOUS
    <2>2. sells' = sells \cup {r} /\ Go("scan", "note") /\ r.qty = b.qty /\ r.order = b.order
      BY <1>0, <1>4, <2>1 DEF AddTrade
    <2>3. r \notin sells  BY <1>4, <2>1 DEF Booked
    <2>4. AllBooked' = AllBooked + b.qty /\ AllBooked \in Nat /\ bought \in Nat
      BY <1>2, <2>2, <2>3, OneMoreBooked, RowsFinite
    <2>5. Net' = Net - b.qty  BY <1>1, <2>4 DEF Net
    <2>6. Good' => Good  BY <1>1, <2>2, GoodBack
    <2>7. /\ bot' = [bot EXCEPT !["scan"] = c] /\ c.at = "note" /\ c.work = b.work /\ c.ex = b.ex
          /\ c.gap = b.gap /\ c.cap = b.cap /\ c.qty = b.qty /\ c.pre = b.pre /\ c.pass = b.pass
          /\ c.fills = b.fills /\ c.todo = b.todo
      BY <2>2, <1>0, GoFields DEF Procs
    <2>8. ASSUME RoundAt(b)  PROVE c.work # "close" /\ RoundAt(c)'
      <3>1. CASE b.work = "drift"
        <4>1. LoopGap(b) /\ LoopPath(b) /\ LoopFills(b) /\ (Good => LoopTodo(b))
          BY <2>8, <3>1, <1>1 DEF RoundAt, Drift, Looping
        <4>2. b.gap - 0 = Net - held /\ b.cap = b.gap /\ b.ex = held
          BY <4>1, <1>1 DEF LoopGap, InLoop
        <4>3. LoopGap(c)'
          <5>1. c.gap - c.qty = Net' - held /\ c.cap = c.gap /\ c.ex = held
            BY <4>2, <2>5, <2>7, <1>1
          <5> QED BY <5>1, <2>7, <1>1 DEF LoopGap, InLoop
        <4>4. LoopPath(c)'  BY <4>1, <2>6, <2>7, <1>1 DEF LoopPath
        <4>5. \A o \in Orders : (Booked(o) => Booked(o)') /\ (Rowless(o)' => Rowless(o))
          BY <2>2 DEF Booked, Rowless
        <4>6. LoopFills(c)'  BY <4>1, <4>5, <2>7, <1>1 DEF LoopFills, Orders
        <4>7. ASSUME Good'  PROVE LoopTodo(c)'
          <5>1. LoopTodo(b)  BY <4>1, <4>7, <2>6
          <5> QED BY <5>1, <4>5, <2>7, <1>1 DEF LoopTodo, Orders
        <4> QED BY <4>3, <4>4, <4>6, <4>7, <2>7, <3>1 DEF RoundAt, Drift, Looping
      <3>2. CASE b.work = "full"
        <4>1. After  BY <2>8, <3>2, <1>1 DEF RoundAt, Drift
        <4>2. Unrecorded = 0 /\ Unrecorded' = 0
          BY <1>0, <1>1, <2>7 DEF Unrecorded, At, Procs
        <4>3. Gap = Net + 0 - held /\ Gap' = Net' + 0 - held  BY <4>2, <1>1 DEF Gap
        <4>4. Gap \in Int /\ Gap' \in Int /\ Gap' <= Gap  BY <4>3, <2>5, <1>1
        <4>5. After'  BY <4>1, <4>4, <2>6, <1>1, AfterKept
        <4> QED BY <4>5, <2>7, <3>2 DEF RoundAt, Drift
      <3> QED BY <1>1, <3>1, <3>2
    <2> QED BY <1>0, <1>1, <2>6, <2>7, <2>8, RoundGoes
  <1> QED BY <1>3, <1>4

\* Nothing is booked or sold, and the gap is as it was.
LEMMA AfterStays ==
    ASSUME After, UNCHANGED <<held, bought, sells, seen>>, snap' => snap, Unrecorded' = Unrecorded
    PROVE  After'
  <1>1. Gap' = Gap  BY SameNet DEF Gap
  <1>2. Good' <=> Good  BY DEF Good, Proper, Twice
  <1> QED BY <1>1, <1>2 DEF After

\* An order of the loop is dealt with.
LEMMA BookedRound ==
    ASSUME BooksInv, ExactInv, RoundInv, NEW b, b = bot["scan"], b.at \in {"note", "event", "append"},
           UNCHANGED <<held, row, snap, sold, bought, sells, seen>>,
           NEW c, bot' = [bot EXCEPT !["scan"] = c],
           \/ /\ c.at \in {"event", "append"} /\ c.work = b.work /\ c.ex = b.ex
              /\ c.gap = b.gap /\ c.cap = b.cap /\ c.qty = b.qty /\ c.pre = b.pre /\ c.pass = b.pass
              /\ c.fills = b.fills /\ c.todo = b.todo
           \/ \E counted \in BOOLEAN : c = Next1(b, counted) /\ (b.work = "drift" => counted = TRUE)
    PROVE  RoundInv'
  <1>1. /\ b.work \in Work /\ b.gap \in Int /\ b.cap \in Int /\ b.qty \in Nat
        /\ BotOk(b, Len(sold)) /\ Len(sold) \in Nat /\ DOMAIN bot = Procs
        /\ Net \in Int /\ held \in Nat
    BY Numbers DEF Procs
  <1>2. Good' <=> Good  BY DEF Good, Proper, Twice
  <1>3. Net' = Net  BY SameNet
  <1>4. ASSUME RoundAt(b), b.work # "close"  PROVE c.work # "close" /\ RoundAt(c)'
    <2>1. CASE b.work = "drift"
      <3>1. LoopGap(b) /\ LoopPath(b) /\ LoopFills(b) /\ (Good => LoopTodo(b))
        BY <1>4, <2>1 DEF RoundAt, Drift, Looping
      <3>2. b.gap - b.qty = Net - held /\ b.cap = b.gap /\ b.ex = held
        BY <3>1 DEF LoopGap, InLoop
      <3>3. CASE c.at \in {"event", "append"} /\ c.work = b.work /\ c.ex = b.ex
              /\ c.gap = b.gap /\ c.cap = b.cap /\ c.qty = b.qty /\ c.pre = b.pre /\ c.pass = b.pass
              /\ c.fills = b.fills /\ c.todo = b.todo
        <4>1. Looping(c)
          BY <3>1, <3>2, <3>3 DEF Looping, LoopGap, LoopPath, InLoop, LoopFills, LoopTodo
        <4>2. Looping(c)'
          BY <4>1, <1>2, <1>3 DEF Looping, LoopGap, LoopPath, InLoop, LoopFills, LoopTodo,
                                  Booked, Rowless, Orders
        <4> QED BY <3>3, <4>2, <2>1 DEF RoundAt, Drift
      <3>4. CASE c = Next1(b, TRUE)
        <4>1. /\ c.at = "leg" /\ c.work = b.work /\ c.ex = b.ex /\ c.pre = b.pre /\ c.pass = b.pass
              /\ c.fills = b.fills /\ c.todo = b.todo \ {b.order}
              /\ c.gap = b.gap - b.qty /\ c.cap = b.cap - b.qty
          BY <3>4, <2>1, <1>1, NextFields
        <4>2. LoopGap(c)
          <5>1. c.gap - 0 = Net - held /\ c.cap = c.gap /\ c.ex = held  BY <4>1, <3>2, <1>1
          <5> QED BY <5>1, <4>1 DEF LoopGap, InLoop
        <4>3. LoopPath(c) /\ LoopFills(c)  BY <4>1, <3>1 DEF LoopPath, LoopFills
        <4>4. Good => LoopTodo(c)
          <5> SUFFICES ASSUME Good PROVE LoopTodo(c)  OBVIOUS
          <5>1. Row(b) \in sells
            <6>1. HandOk(b)  BY DEF ExactInv, Good, Proper, Procs
            <6>2. InHand(b)  BY <2>1 DEF InHand
            <6> QED BY <6>1, <6>2 DEF HandOk
          <5>2. ~Rowless(b.order)  BY <5>1 DEF Rowless, Row
          <5> QED BY <5>2, <3>1, <4>1 DEF LoopTodo
        <4>5. Looping(c)  BY <4>1, <4>2, <4>3, <4>4 DEF Looping
        <4>6. Looping(c)'
          BY <4>5, <1>2, <1>3 DEF Looping, LoopGap, LoopPath, InLoop, LoopFills, LoopTodo,
                                  Booked, Rowless, Orders
        <4> QED BY <4>1, <4>6, <2>1 DEF RoundAt, Drift
      <3> QED BY <2>1, <3>3, <3>4
    <2>2. CASE b.work \in {"full", "backfill"}
      <3>1. After  BY <1>4, <2>2 DEF RoundAt, Drift
      <3>2. c.work = b.work /\ c.at \in {"event", "append", "fix", "order"}
        <4>1. CASE \E counted \in BOOLEAN : c = Next1(b, counted)
          <5>1. PICK counted \in BOOLEAN : c = Next1(b, counted)  BY <4>1
          <5> QED BY <5>1, <2>2, <1>1, NextFields
        <4>2. CASE ~(\E counted \in BOOLEAN : c = Next1(b, counted))  BY <4>2
        <4> QED BY <4>1, <4>2
      <3>3. Unrecorded' = Unrecorded  BY <3>2, <1>1 DEF Unrecorded, At, Procs
      <3>4. After'  BY <3>1, <3>3, AfterStays
      <3> QED BY <2>2, <3>2, <3>4 DEF RoundAt, Drift
    <2> QED BY <1>1, <1>4, <2>1, <2>2 DEF Work
  <1> QED BY <1>2, <1>4, RoundGoes

LEMMA CheckEventRound ==
    ASSUME BooksInv, ExactInv, RoundInv, CheckEvent("scan") \/ AppendEvent("scan")
    PROVE  RoundInv'
  <1>0. PICK b, c : b = bot["scan"] /\ c = bot'["scan"]  OBVIOUS
  <1>1. /\ DOMAIN bot = Procs /\ DOMAIN b = BotFields  BY <1>0, Numbers DEF Procs
  <1>2. CASE CheckEvent("scan")
    <2>1. b.at = "event" /\ UNCHANGED <<held, row, snap, sold, bought, sells, seen>>
      BY <1>0, <1>2 DEF CheckEvent, At, exchange, ledger, Calm
    <2>2. PICK k \in BOOLEAN : k <=> b.work # "backfill"  OBVIOUS
    <2>3. PICK d, e : d = Next1(b, b.work # "backfill") /\ e = [b EXCEPT !.at = "append"]  OBVIOUS
    <2>4. bot' = [bot EXCEPT !["scan"] = c] /\ c \in {d, e}
      BY <1>0, <1>1, <1>2, <2>3 DEF CheckEvent, Procs
    <2>5. d = Next1(b, TRUE) \/ (b.work = "backfill" /\ d = Next1(b, FALSE))
      <3>1. CASE b.work = "backfill"
        <4>1. (b.work # "backfill") = FALSE  BY <3>1
        <4> QED BY <4>1, <3>1, <2>3
      <3>2. CASE b.work # "backfill"
        <4>1. (b.work # "backfill") = TRUE  BY <3>2
        <4> QED BY <4>1, <2>3
      <3> QED BY <3>1, <3>2
    <2>6. CASE c = e
      <3>1. /\ c.at = "append" /\ c.work = b.work /\ c.ex = b.ex
            /\ c.gap = b.gap /\ c.cap = b.cap /\ c.qty = b.qty /\ c.pre = b.pre /\ c.pass = b.pass
            /\ c.fills = b.fills /\ c.todo = b.todo
        BY <2>3, <2>6, <1>1 DEF BotFields
      <3> QED BY <1>0, <2>1, <2>4, <3>1, BookedRound
    <2>7. CASE c = d
      <3>1. \E counted \in BOOLEAN : c = Next1(b, counted) /\ (b.work = "drift" => counted = TRUE)
        BY Zenon, <2>5, <2>7
      <3> QED BY <1>0, <2>1, <2>4, <3>1, BookedRound
    <2> QED BY <2>4, <2>6, <2>7
  <1>3. CASE AppendEvent("scan")
    <2>1. b.at = "append" /\ UNCHANGED <<held, row, snap, sold, bought, sells, seen>>
      BY <1>0, <1>3 DEF AppendEvent, At, exchange, ledger, Calm
    <2>2. bot' = [bot EXCEPT !["scan"] = c] /\ c = Next1(b, TRUE)
      BY <1>0, <1>1, <1>3 DEF AppendEvent, Procs
    <2>3. \E counted \in BOOLEAN : c = Next1(b, counted) /\ (b.work = "drift" => counted = TRUE)
      BY Zenon, <2>2
    <2> QED BY <1>0, <2>1, <2>2, <2>3, BookedRound
  <1> QED BY <1>2, <1>3

LEMMA NoteLossRound ==
    ASSUME BooksInv, ExactInv, RoundInv, NoteLoss("scan")
    PROVE  RoundInv'
  <1>0. PICK b, c : b = bot["scan"] /\ c = bot'["scan"]  OBVIOUS
  <1>1. b.at = "note" /\ UNCHANGED <<held, row, snap, sold, bought, sells, seen>>
    BY <1>0 DEF NoteLoss, At, exchange, ledger, Calm
  <1>2. CASE b.work = "close"
    <2>1. ~(seen.calm > 0)  BY <1>0, <1>2 DEF RoundInv
    <2> QED BY <1>1, <2>1 DEF RoundInv
  <1>3. CASE b.work # "close"
    <2>1. Go("scan", "event")  BY <1>0, <1>3 DEF NoteLoss
    <2>2. /\ bot' = [bot EXCEPT !["scan"] = c]
          /\ c.at = "event" /\ c.work = b.work /\ c.ex = b.ex
          /\ c.gap = b.gap /\ c.cap = b.cap /\ c.qty = b.qty /\ c.pre = b.pre /\ c.pass = b.pass
          /\ c.fills = b.fills /\ c.todo = b.todo
      BY <1>0, <2>1, GoFields DEF Procs
    <2> QED BY <1>0, <1>1, <2>2, BookedRound
  <1> QED BY <1>2, <1>3

\* Only an insignificant gap leaves a row, or none, as it is.
LEMMA TrimRound ==
    ASSUME BooksInv, ExactInv, RoundInv, Trim("scan")
    PROVE  RoundInv'
  <1>0. PICK b, c : b = bot["scan"] /\ c = bot'["scan"]  OBVIOUS
  <1>1. /\ b.at = "trim" /\ UNCHANGED <<held, sold, bought, sells, seen>>
        /\ row' = IF b.main THEN Trimmed(row, b.ex) ELSE row
        /\ snap' = (row' > 0) /\ bot' = [bot EXCEPT !["scan"] = [Rest EXCEPT !.at = "fills"]]
    BY <1>0 DEF Trim, At, exchange, ledger, Calm
  <1>2. c = [Rest EXCEPT !.at = "fills"] /\ DOMAIN bot = Procs /\ Net \in Int /\ held \in Nat /\ row \in Nat
    BY <1>0, <1>1, Numbers DEF Procs, BooksInv, Quantities
  <1>3. bot' = [bot EXCEPT !["scan"] = c] /\ c.at = "fills" /\ c.work = "drift"
    BY <1>1, <1>2 DEF Rest
  <1>4. Good' <=> Good  BY <1>1 DEF Good, Proper, Twice
  <1>5. ASSUME RoundAt(b)  PROVE After'
    <2>1. /\ b.ex = held
          /\ Good => ~Significant(Net - held, held) \/ (seen.calm = 1 /\ row = 0)
      BY <1>1, <1>5 DEF RoundAt, Drift, Trimming
    <2>2. Gap' = Net - held
      <3>1. Unrecorded' = 0  BY <1>2, <1>3 DEF Unrecorded, At, Procs, Rest
      <3> QED BY <3>1, <1>1, <1>2, SameNet DEF Gap
    <2>3. row' > 0 /\ held = 0 => row > 0
      <3> SUFFICES ASSUME row' > 0, held = 0, ~(row > 0) PROVE FALSE  OBVIOUS
      <3>1. Trimmed(row, b.ex) = row  BY DEF Trimmed
      <3> QED BY <3>1, <1>1
    <2>4. ASSUME Good, snap', held = 0  PROVE Net - held <= 0
      <3>1. row > 0  BY <2>3, <2>4, <1>1
      <3>2. ~Significant(Net - held, held)  BY <2>1, <2>4, <3>1, <1>2
      <3> QED BY <3>2, <2>4, <1>2 DEF Significant
    <2>5. ASSUME Good, seen.calm = 2  PROVE ~Significant(Net - held, held)
      BY <2>1, <2>5
    <2> QED BY <2>2, <2>4, <2>5, <1>1, <1>4 DEF After
  <1>6. RoundAt(b) => c.work # "close" /\ RoundAt(c)'
    BY <1>3, <1>5 DEF RoundAt, Drift
  <1> QED BY <1>0, <1>1, <1>3, <1>4, <1>6, RoundGoes

\* The scan moves on outside its loop over the gap.
LEMMA AfterGoes ==
    ASSUME BooksInv, RoundInv, NEW b, b = bot["scan"], NEW c, bot' = [bot EXCEPT !["scan"] = c],
           UNCHANGED <<held, bought, sells>>, snap' => snap, seen'.calm = seen.calm,
           seen'.torn = seen.torn, seen'.died = seen.died,
           ~Drift(b), b.at # "trim", ~Drift(c), c.at # "trim",
           b.work # "close" => c.work # "close",
           b.at # "bought" /\ c.at # "bought"
    PROVE  RoundInv'
  <1>1. Unrecorded' = Unrecorded  BY DEF Unrecorded, At, BooksInv, BotsOk, Procs
  <1>2. Gap' = Gap  BY <1>1, SameNet DEF Gap
  <1>3. Good' <=> Good  BY DEF Good, Proper, Twice
  <1>4. ASSUME RoundAt(b)  PROVE RoundAt(c)'
    <2>1. After  BY <1>4 DEF RoundAt
    <2>2. After'  BY <2>1, <1>2, <1>3 DEF After
    <2> QED BY <2>2 DEF RoundAt, Drift
  <1> QED BY <1>3, <1>4, RoundGoes

LEMMA StepRound ==
    ASSUME BooksInv, BooksInv', ExactInv, Balance, RoundInv, Step("scan")
    PROVE  RoundInv'
  <1>0. PICK b, c : b = bot["scan"] /\ c = bot'["scan"]  OBVIOUS
  <1>1. /\ ProcOk(b) /\ DOMAIN b = BotFields /\ DOMAIN bot = Procs /\ "scan" \in Procs
    BY <1>0, Numbers DEF Procs
  <1>2. CASE CheckEvent("scan") \/ AppendEvent("scan")  BY <1>2, CheckEventRound
  <1>3. CASE AddTrade("scan")  BY <1>3, AddTradeRound
  <1>4. CASE NoteLoss("scan")  BY <1>4, NoteLossRound
  <1>5. CASE Compare("scan")  BY <1>5, CompareRound
  <1>6. CASE Fetch("scan")  BY <1>6, FetchRound
  <1>7. CASE NextLeg("scan")  BY <1>7, NextLegRound
  <1>8. CASE Trim("scan")  BY <1>8, TrimRound
  <1>9. CASE FetchFills("scan")
    <2>1. /\ b.at = "fills" /\ UNCHANGED <<held, row, snap, bought, sells, seen>>
      BY <1>0, <1>9 DEF FetchFills, At, exchange, ledger, Calm
    <2>2. PICK x, f, t : bot' = [bot EXCEPT !["scan"] =
              [Rest EXCEPT !.at = "order", !.work = "full", !.ex = x, !.fills = f, !.todo = t]]
      BY <1>9 DEF FetchFills
    <2>3. c = [Rest EXCEPT !.at = "order", !.work = "full", !.ex = x, !.fills = f, !.todo = t]
      BY <1>0, <1>1, <2>2
    <2>4. bot' = [bot EXCEPT !["scan"] = c] /\ c.at = "order" /\ c.work = "full"
      BY <2>2, <2>3 DEF Rest
    <2>5. ~Drift(b) /\ ~Drift(c)  BY <2>1, <2>4 DEF Drift
    <2> QED BY <1>0, <2>1, <2>4, <2>5, AfterGoes
  <1>10. CASE NextOrder("scan")
    <2>1. /\ b.at = "order" /\ bot' = [bot EXCEPT !["scan"] = c]
          /\ UNCHANGED <<held, row, snap, bought, sells, seen>>
          /\ \/ c.at = "order" /\ c.work = b.work
             \/ c.work = "backfill" /\ c.at = "event"
             \/ c.work = "full" /\ c.at = "add"
      BY <1>0, <1>1, <1>10, OrderPicked DEF exchange, ledger
    <2>2. b.work \in {"full", "backfill"}  BY <1>1, <2>1 DEF ProcOk, InPlace, Rest
    <2>3. ~Drift(b) /\ ~Drift(c) /\ c.work # "close"  BY <2>1, <2>2 DEF Drift
    <2> QED BY <1>0, <2>1, <2>3, AfterGoes
  <1>11. CASE FixRow("scan")
    <2>1. /\ b.at = "fix" /\ UNCHANGED <<held, snap, bought, sells, seen>> /\ Go("scan", "order")
      BY <1>0, <1>11 DEF FixRow, At, exchange, ledger, Calm
    <2>2. bot' = [bot EXCEPT !["scan"] = c] /\ c.at = "order" /\ c.work = b.work
      BY <1>0, <1>1, <2>1, GoFields
    <2>3. ~Drift(b) /\ ~Drift(c)  BY <2>1, <2>2 DEF Drift
    <2> QED BY <1>0, <2>1, <2>2, <2>3, AfterGoes
  <1>12. CASE FillsDone("scan")
    <2>1. /\ b.at = "order" /\ UNCHANGED <<held, snap, bought, sells, seen>>
          /\ bot' = [bot EXCEPT !["scan"] = c] /\ c = Rest
      BY <1>0, <1>1, <1>12 DEF FillsDone, At, exchange, ledger, Calm
    <2>2. c.at = "rest" /\ c.work = "drift"  BY <2>1 DEF Rest
    <2>3. ~Drift(b) /\ ~Drift(c)  BY <2>1, <2>2 DEF Drift
    <2> QED BY <1>0, <2>1, <2>2, <2>3, AfterGoes
  <1> QED BY <1>2, <1>3, <1>4, <1>5, <1>6, <1>7, <1>8, <1>9, <1>10, <1>11, <1>12 DEF Step

LEMMA RoundKept ==
    BooksInv /\ BooksInv' /\ ExactInv /\ Balance /\ RoundInv /\ [Next]_vars => RoundInv'
  <1> SUFFICES ASSUME BooksInv, BooksInv', ExactInv, Balance, RoundInv, [Next]_vars
               PROVE  RoundInv'
    OBVIOUS
  <1>0. PICK b, c : b = bot["scan"] /\ c = bot'["scan"]  OBVIOUS
  <1>1. /\ "scan" \in Procs /\ "panel" \in Procs /\ DOMAIN bot = Procs /\ DOMAIN seen = SeenFields
        /\ ProcOk(b) /\ DOMAIN b = BotFields /\ Net \in Int /\ held \in Nat /\ Size \in Nat
        /\ bought \in Nat /\ row \in Nat
    BY <1>0, SizeNat, Numbers DEF Procs, BooksInv, BotsOk, Records, BotOk, Quantities
  <1>2. CASE Step("scan")  BY <1>2, StepRound
  <1>3. CASE Step("panel")
    <2>1. bot["panel"].at \in Places  BY <1>1, <1>3, StepMoves
    <2>2. bot["panel"] # Rest  BY <2>1 DEF Places, Rest
    <2>3. seen.calm = 0  BY <2>2 DEF RoundInv
    <2>4. seen' = seen
      <3>1. ~Compare("panel")  BY DEF Compare
      <3> QED BY <3>1, <1>3 DEF Step, CheckEvent, AppendEvent, AddTrade, NoteLoss, Fetch, NextLeg,
                                Trim, FetchFills, NextOrder, FixRow, FillsDone, Calm
    <2> QED BY <2>3, <2>4, RoundBroken
  <1>4. CASE Sync
    <2>1. /\ bot' = [bot EXCEPT !["scan"] = c] /\ c.at = "ready" /\ c.work = b.work
          /\ b.at = "rest" /\ UNCHANGED <<held, snap, bought, sells>>
      BY <1>0, <1>1, <1>4, GoFields DEF Sync, At, ledger, exchange
    <2>2. seen'.calm = seen.calm /\ seen'.torn = seen.torn /\ seen'.died = seen.died
      BY <1>1, <1>4 DEF Sync, SeenFields
    <2>3. ~Drift(b) /\ ~Drift(c)  BY <2>1 DEF Drift
    <2> QED BY <1>0, <2>1, <2>2, <2>3, AfterGoes
  <1>5. CASE LogBuy
    <2>1. /\ bot' = [bot EXCEPT !["scan"] = c] /\ c.at = "ready" /\ c.work = b.work
          /\ b.at = "boughtRow" /\ UNCHANGED <<held, snap, bought, sells, seen>>
      BY <1>0, <1>1, <1>5, GoFields DEF LogBuy, At, ledger, exchange, Calm
    <2>2. ~Drift(b) /\ ~Drift(c)  BY <2>1 DEF Drift
    <2> QED BY <1>0, <2>1, <2>2, AfterGoes
  <1>6. CASE Buy
    <2>1. /\ bot' = [bot EXCEPT !["scan"] = c] /\ c.at = "bought" /\ c.work = b.work
          /\ b.at = "ready" /\ UNCHANGED <<snap, bought, sells, seen>> /\ held = 0 /\ held' = Size
      BY <1>0, <1>1, <1>6, GoFields DEF Buy, At, ledger, Calm
    <2>2. Good' <=> Good  BY <2>1 DEF Good, Proper, Twice
    <2>3. Unrecorded = 0 /\ Unrecorded' = Size
      BY <1>0, <2>1 DEF Unrecorded, At, Size
    <2>4. Gap' = Net + Size - Size /\ Gap = Net + 0 - 0
      BY <2>1, <2>3, SameNet DEF Gap
    <2>5. Gap' = Gap /\ Gap \in Int  BY <2>4, <1>1
    <2>6. ASSUME RoundAt(b)  PROVE RoundAt(c)'
      <3>1. After  BY <2>6, <2>1 DEF RoundAt, Drift
      <3>2. After'
        <4>1. Significant(Gap, held') => Significant(Gap, held)
          <5>1. PICK g : g = Gap  OBVIOUS
          <5>2. Significant(g, Size) => Significant(g, 0)
            BY <5>1, <2>5, <1>1, LessSignificant
          <5> QED BY <5>1, <5>2, <2>1
        <4> QED BY <3>1, <4>1, <2>1, <2>2, <2>5 DEF After
      <3> QED BY <3>2, <2>1 DEF RoundAt, Drift
    <2>7. b.work # "close" => c.work # "close"  BY <2>1
    <2> QED BY <1>0, <2>1, <2>2, <2>6, <2>7, RoundGoes
  <1>7. CASE RecordBuy
    <2>1. /\ bot' = [bot EXCEPT !["scan"] = c] /\ c.at = "boughtRow" /\ c.work = b.work
          /\ b.at = "bought" /\ UNCHANGED <<held, snap, sells, seen>> /\ bought' = bought + Size
      BY <1>0, <1>1, <1>7, GoFields DEF RecordBuy, At, Calm
    <2>2. Good' <=> Good  BY <2>1 DEF Good, Proper, Twice
    <2>3. Unrecorded = Size /\ Unrecorded' = 0
      BY <1>0, <2>1 DEF Unrecorded, At
    <2>4. Gap' = Gap
      <3>1. AllBooked' = AllBooked /\ AllBooked \in Nat
        <4>1. IsFiniteSet(sells)  BY DEF ExactInv, Keyed
        <4> QED BY <4>1, <2>1, RowsFinite DEF AllBooked
      <3>2. Net' = Net + Size  BY <3>1, <2>1, <1>1 DEF Net
      <3>3. Gap' = Net' + 0 - held /\ Gap = Net + Size - held  BY <2>1, <2>3 DEF Gap
      <3> QED BY <3>2, <3>3, <1>1
    <2>5. ASSUME RoundAt(b)  PROVE RoundAt(c)'
      <3>1. After  BY <2>5, <2>1 DEF RoundAt, Drift
      <3>2. After'  BY <3>1, <2>1, <2>2, <2>4 DEF After
      <3> QED BY <3>2, <2>1 DEF RoundAt, Drift
    <2> QED BY <1>0, <2>1, <2>2, <2>5, RoundGoes
  <1>8. CASE Close("order") \/ Close("client")
    <2>1. PICK key, t : Close(key) /\ seen' = [seen EXCEPT !.calm = 0, !.torn = t]
      BY <1>8 DEF Close
    <2>2. seen'.calm = 0  BY <2>1, <1>1 DEF SeenFields
    <2> QED BY <2>2, RoundBroken
  <1>9. CASE CloseTrade \/ CloseRow
    <2>1. b.at \in {"close", "drop"} /\ seen' = seen
      BY <1>0, <1>9 DEF CloseTrade, CloseRow, At, Calm
    <2>2. b.work = "close"  BY <1>1, <2>1 DEF ProcOk, InPlace, Rest
    <2>3. ~(seen.calm > 0)  BY <1>0, <2>2 DEF RoundInv
    <2> QED BY <2>1, <2>3 DEF RoundInv
  <1>10. CASE Exit("scan") \/ Exit("panel")
    <2>1. PICK me \in Procs : Exit(me)  BY <1>1, <1>10
    <2>2. seen'.calm = 0  BY <2>1, ExitMoves
    <2> QED BY <2>2, RoundBroken
  <1>11. CASE Market
    <2>1. PICK t : seen' = [seen EXCEPT !.calm = 0, !.torn = t]
      BY <1>11 DEF Market, LegFills
    <2>2. seen'.calm = 0  BY <2>1, <1>1 DEF SeenFields
    <2> QED BY <2>2, RoundBroken
  <1>12. CASE \E p \in Procs : Unreadable(p) \/ Dies(p)
    <2>1. PICK p \in Procs : Unreadable(p) \/ Dies(p)  BY <1>12
    <2>2. seen'.calm = 0  BY <2>1, FailFields
    <2> QED BY <2>2, RoundBroken
  <1>13. CASE UNCHANGED vars
    <2>1. UNCHANGED <<held, row, snap, sold, bought, sells, bot, seen>>
      BY <1>13 DEF vars, exchange, ledger
    <2>2. Good' <=> Good  BY <2>1 DEF Good, Proper, Twice
    <2>3. Net' = Net  BY <2>1, SameNet
    <2>4. Gap' = Gap  BY <2>1, <2>3 DEF Gap, Unrecorded, At
    <2>5. After => After'  BY <2>1, <2>2, <2>4 DEF After
    <2>6. Trimming(b) => Trimming(b)'  BY <2>1, <2>2, <2>3 DEF Trimming
    <2>7. Looping(b) => Looping(b)'
      BY <2>1, <2>2, <2>3 DEF Looping, LoopGap, LoopPath, InLoop, LoopFills, LoopTodo,
                              Booked, Rowless, Orders
    <2>8. RoundAt(b) => RoundAt(b)'  BY <2>5, <2>6, <2>7 DEF RoundAt, Drift
    <2>9. RoundAt(b)' => RoundAt(bot["scan"])'
      <3>1. bot'["scan"] = b  BY <1>0, <2>1
      <3>2. PICK d : d = bot'["scan"]  OBVIOUS
      <3>3. RoundAt(b)' => RoundAt(d)'  BY <3>1, <3>2
      <3> QED BY <3>2, <3>3 DEF RoundAt, Drift, Looping, Trimming, After, LoopGap, LoopPath, InLoop,
                                LoopFills, LoopTodo
    <2> QED BY <1>0, <2>1, <2>8, <2>9 DEF RoundInv
  <1> QED BY <1>2, <1>3, <1>4, <1>5, <1>6, <1>7, <1>8, <1>9, <1>10, <1>11, <1>12, <1>13
          DEF Next, Scan, Panel

LEMMA RoundStart == Init => RoundInv
BY DEF Init, RoundInv

LEMMA RoundsAlways == Spec => [](BooksInv /\ ExactInv /\ Balance /\ RoundInv)
BY RoundStart, RoundKept, BalanceStart, BalanceKept, ExactStart, ExactKept,
   BooksStart, BooksKept, PTL DEF Spec

\* Whatever was missed before, and for whatever reason: after two rounds that
\* nobody disturbs the ledger has every sale, up to what the code calls
\* insignificant.
THEOREM TwoRoundsBook == Spec => []RoundBooks
  <1>1. BooksInv /\ ExactInv /\ Balance /\ RoundInv => RoundBooks
    <2> SUFFICES ASSUME BooksInv, ExactInv, RoundInv, RoundOver, seen.calm = 2, Good
                 PROVE  ~Significant(Net - held, held)
      BY DEF RoundBooks, Good
    <2>1. bot["scan"].at = "order" /\ "scan" \in Procs  BY DEF RoundOver, At, Procs
    <2>2. ProcOk(bot["scan"]) /\ Net \in Int /\ held \in Nat  BY <2>1, Numbers
    <2>3. ~Drift(bot["scan"])  BY <2>1 DEF Drift
    <2>4. After  BY <2>1, <2>3 DEF RoundInv, RoundAt
    <2>5. Gap = Net - held
      <3>1. Unrecorded = 0  BY <2>1 DEF Unrecorded, At
      <3> QED BY <3>1, <2>2 DEF Gap
    <2> QED BY <2>4, <2>5 DEF After
  <1> QED BY <1>1, RoundsAlways, PTL
=============================================================================
