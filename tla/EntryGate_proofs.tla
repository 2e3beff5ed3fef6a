-------------------------- MODULE EntryGate_proofs --------------------------
(* Proofs about EntryGate: its types, that the brake of the daily loss        *)
(* breaker holds in every process after the trip, and the pace of entries.    *)
EXTENDS EntryGate, SumTheorems

Readings == Equities \cup {Cash}

LEMMA ReadingsPositive == Readings \subseteq Nat \ {0}
BY GateAssumption DEF Readings

LEMMA SlotsOfADay ==
    /\ DayLen \in Nat /\ DayLen > 0
    /\ 0 \in Ages /\ \A a \in Ages : a \in Nat /\ a < DayLen
BY GateAssumption DEF Ages

LEMMA MoreType ==
    ASSUME NEW w \in Windows, NEW n \in Nat
    PROVE  More(w, n) \in Windows
<1>1. w \in [Ages -> Nat] /\ 0 \in Ages
  BY SlotsOfADay DEF Windows
<1>2. w[0] + n \in Nat
  BY <1>1
<1> QED
  BY <1>1, <1>2 DEF Windows, More

LEMMA WindowTypes ==
    ASSUME NEW w \in Windows
    PROVE  OneMore(w) \in Windows /\ Older(w) \in Windows
<1>1. OneMore(w) \in Windows
  BY MoreType DEF OneMore
<1>2. \A a \in Ages : a # 0 => a - 1 \in Ages
  BY SlotsOfADay DEF Ages
<1>3. Older(w) \in Windows
  BY <1>2 DEF Windows, Older
<1> QED
  BY <1>1, <1>3

LEMMA NoneType == None \in Windows
BY DEF None, Windows

\* A check answers with a row of its kind.
LEMMA CheckedType ==
    ASSUME NEW d \in Days, NEW v \in Readings
    PROVE  Checked(d, v) \in Days
<1>1. v \in Nat \ {0} /\ v \in {0, Cash} \cup Equities
  BY ReadingsPositive DEF Readings
<1>2. Blank \in Days
  BY SlotsOfADay DEF Blank, Days
<1>3. NewDay(d) \in Days
  BY <1>2 DEF NewDay
<1> DEFINE e == Opened(NewDay(d), v)
<1>4. e \in Days
  BY <1>1, <1>3 DEF Opened, Days
<1> HIDE DEF e
<1>5. LossTier(e.start, v) \in 0 .. 3
  BY DEF LossTier
<1>6. DayLen \in 0 .. DayLen
  BY SlotsOfADay
<1>7. Moved(e, v) \in Days
  <2> DEFINE t == LossTier(e.start, v)
  <2>1. t \in 0 .. 3
    BY <1>5
  <2> HIDE DEF t
  <2>2. CASE v > e.start /\ e.tier > 0
    BY <2>2, <1>4 DEF Moved, Days
  <2>3. CASE ~(v > e.start /\ e.tier > 0) /\ t > e.tier
    <3>1. Moved(e, v) = [e EXCEPT !.tier = t, !.halt = IF t = 3 THEN DayLen ELSE @]
      BY <2>3 DEF Moved, t
    <3> QED
      BY <3>1, <2>1, <1>4, <1>6 DEF Days
  <2>4. CASE ~(v > e.start /\ e.tier > 0) /\ ~(t > e.tier)
    BY <2>4, <1>4 DEF Moved, t
  <2> QED
    BY <2>2, <2>3, <2>4
<1> DEFINE m == Moved(e, v)
<1>8. m \in Days
  BY <1>7
<1> HIDE DEF m
<1>9. Expired(m) \in Days
  BY <1>8 DEF Expired, Days
<1> QED
  BY <1>9 DEF Checked, m, e

-----------------------------------------------------------------------------
(* The history                                                              *)

LEMMA MissedType ==
    ASSUME NEW n \in Nat, NEW m \in Nat, hist \in Histories
    PROVE  LET h == Missed(hist, n, m)
           IN  h \in Histories /\ h.opening = hist.opening /\ h.fell = hist.fell
<1> DEFINE w == IF scan.neutral THEN More(hist.misses, m) ELSE hist.misses
           h == [hist EXCEPT !.slips = @ + n, !.misses = w]
<1>1. w \in Windows
  BY MoreType DEF Histories
<1>2. hist.slips + n \in Nat
  BY DEF Histories
<1>3. Missed(hist, n, m) = h
  BY DEF Missed, Histories
<1> HIDE DEF w
<1>4. h \in Histories /\ h.opening = hist.opening /\ h.fell = hist.fell
  BY <1>1, <1>2 DEF Histories
<1> QED
  BY <1>3, <1>4

LEMMA ReadType ==
    ASSUME NEW v \in Readings, hist \in Histories
    PROVE  Read(hist, v) \in Histories
<1> DEFINE o == IF hist.opening = 0 THEN v ELSE hist.opening
           f == IF Lost(o, v, 2) THEN TRUE ELSE hist.fell /\ v <= o
           t == IF Lost(o, v, 3) THEN DayLen ELSE hist.halt
           h == [hist EXCEPT !.opening = o, !.fell = f, !.halt = t]
<1>1. o \in {0, Cash} \cup Equities
  BY DEF Readings, Histories
<1>2. f \in BOOLEAN
  <2>1. hist.fell \in BOOLEAN
    BY DEF Histories
  <2> QED
    BY <2>1, Zenon
<1>3. t \in 0 .. DayLen
  BY SlotsOfADay DEF Histories
<1>4. Read(hist, v) = h
  BY Zenon DEF Read
<1> HIDE DEF o, f, t
<1>5. h \in Histories
  BY <1>1, <1>2, <1>3 DEF Histories
<1> QED
  BY <1>4, <1>5

LEMMA HealedType ==
    ASSUME hist \in Histories
    PROVE  /\ Healed(hist) \in Histories
           /\ Healed(hist).opening = 0 /\ ~Healed(hist).fell
BY DEF Healed, Histories

LEMMA LessType == \A n \in 0 .. DayLen : Less(n) \in 0 .. DayLen
BY SlotsOfADay DEF Less

LEMMA BoughtType ==
    ASSUME hist \in Histories, Buy
    PROVE  hist' \in Histories /\ hist'.opening = hist.opening /\ hist'.fell = hist.fell
<1> DEFINE p == IF scan.neutral THEN OneMore(hist.pace) ELSE hist.pace
           h == [hist EXCEPT !.taken = @ + 1, !.pace = p]
<1>1. p \in Windows
  BY WindowTypes DEF Histories
<1>2. hist' = h
  BY DEF Buy, Histories
<1>3. hist.taken + 1 \in Nat
  BY DEF Histories
<1> HIDE DEF p
<1>4. h \in Histories /\ h.opening = hist.opening /\ h.fell = hist.fell
  BY <1>1, <1>3 DEF Histories
<1> QED
  BY <1>2, <1>4

-----------------------------------------------------------------------------
(* Time                                                                     *)

Hour == IF hour + 1 = DayLen THEN 0 ELSE hour + 1

LEMMA HourType == hour \in Ages => Hour \in Ages
BY SlotsOfADay DEF Hour, Ages

LEMMA TickOfHistory ==
    ASSUME hist \in Histories, Tick
    PROVE  /\ hist' \in Histories
           /\ hist'.opening = (IF Hour = 0 THEN 0 ELSE hist.opening)
           /\ hist'.fell = (hist.fell /\ Hour # 0)
<1> DEFINE t == IF Hour = LocalHour THEN 0 ELSE hist.taken
           s == IF Hour = LocalHour THEN 0 ELSE hist.slips
           p == Older(hist.pace)
           m == Older(hist.misses)
           o == IF Hour = 0 THEN 0 ELSE hist.opening
           f == hist.fell /\ ~(Hour = 0)
           l == Less(hist.halt)
           g == [hist EXCEPT !.taken = t, !.slips = s, !.pace = p, !.misses = m]
           h == [g EXCEPT !.opening = o, !.fell = f, !.halt = l]
<1>1. hist' = [hist EXCEPT !.taken = t, !.slips = s, !.pace = p, !.misses = m,
                           !.opening = o, !.fell = f, !.halt = l]
  BY Zenon DEF Tick, Hour
<1>2. hist' = h
  BY <1>1
<1>3. t \in Nat /\ s \in Nat /\ o \in {0, Cash} \cup Equities /\ l \in 0 .. DayLen
  BY LessType DEF Histories
<1>4. p \in Windows /\ m \in Windows
  BY WindowTypes DEF Histories
<1>5. f \in BOOLEAN
  <2>1. hist.fell \in BOOLEAN
    BY DEF Histories
  <2> QED
    BY <2>1, Zenon
<1> HIDE DEF t, s, p, m, o, f, l
<1>6. g \in Histories
  BY <1>3, <1>4 DEF Histories
<1> HIDE DEF g
<1>7. h \in Histories /\ h.opening = o /\ h.fell = f
  BY <1>3, <1>5, <1>6 DEF Histories
<1> QED
  BY <1>2, <1>7 DEF o, f

LEMMA TickOfDay ==
    ASSUME day \in Days, Tick
    PROVE  /\ day' \in Days
           /\ day'.start = day.start /\ day'.tier = day.tier
           /\ day'.today = (day.today /\ Hour # 0) /\ day'.halt = Less(day.halt)
<1> DEFINE t == day.today /\ ~(Hour = 0)
           l == Less(day.halt)
           d == [day EXCEPT !.today = t, !.halt = l]
<1>1. day' = d
  BY Zenon DEF Tick, Hour
<1>2. t \in BOOLEAN
  <2>1. day.today \in BOOLEAN
    BY DEF Days
  <2> QED
    BY <2>1, Zenon
<1>3. l \in 0 .. DayLen
  BY LessType DEF Days
<1> HIDE DEF t, l
<1>4. /\ d \in Days /\ d.start = day.start /\ d.tier = day.tier
      /\ d.today = t /\ d.halt = l
  BY <1>2, <1>3 DEF Days
<1> QED
  BY <1>1, <1>4 DEF t, l

-----------------------------------------------------------------------------
(* Types                                                                    *)

Governors == [count : Nat, tags : Windows]
Ledgers == [buys : Nat, outcomes : Windows]
Scans == [at : Steps, neutral : BOOLEAN]

LEMMA InitTypeOK == Init => TypeOK
<1> SUFFICES ASSUME Init
             PROVE  TypeOK
  OBVIOUS
<1>1. day \in Days
  <2>1. Blank \in Days
    BY SlotsOfADay DEF Blank, Days
  <2>2. day = [Blank EXCEPT !.today = FALSE]
    BY DEF Init
  <2> QED
    BY <2>1, <2>2 DEF Days
<1>2. hist \in Histories
  BY SlotsOfADay, NoneType DEF Init, Histories
<1>3. scan \in [at : Steps, neutral : BOOLEAN]
  BY DEF Init, Idle, Steps
<1>4. gov \in Governors /\ books \in Ledgers
  BY NoneType DEF Init, Governors, Ledgers
<1>5. troubles \in 0 .. MaxTroubles
  BY GateAssumption DEF Init
<1> QED
  BY <1>1, <1>2, <1>3, <1>4, <1>5, SlotsOfADay DEF Init, TypeOK, Governors, Ledgers

LEMMA ScanTypes ==
    ASSUME scan \in Scans, NEW a \in Steps
    PROVE  /\ Idle \in Scans /\ Idle.at = "idle"
           /\ [scan EXCEPT !.at = a] \in Scans /\ [scan EXCEPT !.at = a].at = a
BY DEF Scans, Idle, Steps

LEMMA TroubleType ==
    ASSUME troubles \in 0 .. MaxTroubles, Trouble
    PROVE  troubles' \in 0 .. MaxTroubles
BY GateAssumption DEF Trouble

\* What the daily loss breaker and the history agree on, and what an action
\* that leaves the breaker alone keeps of it.
Kept == day' = day /\ hist'.opening = hist.opening /\ hist'.fell = hist.fell

LEMMA RecordsKeep ==
    ASSUME TypeOK, Book \/ Count \/ Tag \/ Outcome \/ Die \/ Gate \/ GateFails
    PROVE  /\ hist' \in Histories /\ troubles' \in 0 .. MaxTroubles
           /\ gov' \in Governors /\ books' \in Ledgers /\ Kept
<1>1. /\ hist \in Histories /\ troubles \in 0 .. MaxTroubles
      /\ gov \in Governors /\ books \in Ledgers
  BY DEF TypeOK, Governors, Ledgers
<1>2. ASSUME NEW n \in 0 .. 2, NEW m \in 0 .. 2
      PROVE  LET h == Missed(hist, n, m)
             IN  h \in Histories /\ h.opening = hist.opening /\ h.fell = hist.fell
  BY <1>1, MissedType
<1>3. CASE Book
  <2>1. [books EXCEPT !.buys = @ + 1] \in Ledgers
    BY <1>1 DEF Ledgers
  <2> QED
    BY <1>1, <1>2, <1>3, <2>1, TroubleType DEF Book, Kept
<1>4. CASE Count
  <2>1. [gov EXCEPT !.count = @ + 1] \in Governors
    BY <1>1 DEF Governors
  <2> QED
    BY <1>1, <1>2, <1>4, <2>1, TroubleType DEF Count, Kept
<1>5. CASE Tag
  <2>1. OneMore(gov.tags) \in Windows
    BY <1>1, WindowTypes DEF Governors
  <2>2. [gov EXCEPT !.tags = OneMore(@)] \in Governors
    BY <1>1, <2>1 DEF Governors
  <2> QED
    BY <1>1, <1>2, <1>5, <2>2, TroubleType DEF Tag, Kept
<1>6. CASE Outcome
  <2> DEFINE w == IF scan.neutral THEN OneMore(books.outcomes) ELSE books.outcomes
  <2>1. w \in Windows
    BY <1>1, WindowTypes DEF Ledgers
  <2>2. [books EXCEPT !.outcomes = w] \in Ledgers
    BY <1>1, <2>1 DEF Ledgers
  <2>3. \/ books' = [books EXCEPT !.outcomes = w] /\ UNCHANGED <<troubles, hist>>
        \/ Trouble /\ hist' = Missed(hist, 0, 1) /\ UNCHANGED books
    BY <1>6 DEF Outcome
  <2>4. UNCHANGED <<day, gov>>
    BY <1>6 DEF Outcome
  <2> QED
    BY <1>1, <1>2, <2>2, <2>3, <2>4, TroubleType DEF Kept
<1>7. CASE Die
  <2>1. \/ hist' = hist
        \/ \E n \in 0 .. 2, m \in 0 .. 2 : hist' = Missed(hist, n, m)
    BY <1>7 DEF Die
  <2>2. Trouble /\ UNCHANGED <<day, gov, books>>
    BY <1>7 DEF Die
  <2> QED
    BY <1>1, <1>2, <2>1, <2>2, TroubleType DEF Kept
<1>8. CASE Gate
  <2>1. \/ UNCHANGED <<troubles, hist>>
        \/ Trouble /\ hist' = Missed(hist, 1, 1)
    BY <1>8 DEF Gate
  <2>2. UNCHANGED <<day, gov, books>>
    BY <1>8 DEF Gate
  <2> QED
    BY <1>1, <1>2, <2>1, <2>2, TroubleType DEF Kept
<1>9. CASE GateFails
  BY <1>1, <1>2, <1>9, TroubleType DEF GateFails, Kept
<1> QED
  BY <1>3, <1>4, <1>5, <1>6, <1>7, <1>8, <1>9

LEMMA ScanKept ==
    ASSUME TypeOK, Next
    PROVE  scan' \in Scans
<1>1. scan \in Scans /\ \A a \in Steps : [scan EXCEPT !.at = a] \in Scans
  BY ScanTypes DEF TypeOK, Scans
<1>2. Idle \in Scans
  BY DEF Idle, Scans, Steps
<1>3. \A n \in BOOLEAN : [at |-> "gate", neutral |-> n] \in Scans
  BY DEF Scans, Steps
<1>4. /\ "gate" \in Steps /\ "check" \in Steps /\ "heal" \in Steps /\ "buy" \in Steps
      /\ "book" \in Steps /\ "count" \in Steps /\ "tag" \in Steps /\ "outcome" \in Steps
  BY DEF Steps
<1>5. CASE Start
  BY <1>3, <1>5 DEF Start
<1>6. CASE Gate \/ GateFails \/ PreTradeFails \/ Buy
  BY <1>1, <1>2, <1>4, <1>6 DEF Gate, GateFails, PreTradeFails, Buy, Go
<1>7. CASE PreTrade
  <2>1. scan' = [scan EXCEPT !.at = "heal"] \/ scan' = [scan EXCEPT !.at = "buy"]
    BY <1>7 DEF PreTrade, Go
  <2> QED
    BY <1>1, <1>4, <2>1
<1>8. CASE Book \/ Count \/ Tag \/ Outcome
  BY <1>1, <1>2, <1>4, <1>8 DEF Book, Count, Tag, Outcome, Records
<1>9. CASE Refuse \/ Heal \/ Die
  BY <1>2, <1>9 DEF Refuse, Heal, Die
<1>10. CASE OtherBuy \/ HealerLooks \/ HealerFixes \/ Tick
  BY <1>1, <1>10 DEF OtherBuy, HealerLooks, HealerFixes, Tick
<1> QED
  BY <1>5, <1>6, <1>7, <1>8, <1>9, <1>10 DEF Next

LEMMA TickOfBooks ==
    ASSUME gov \in Governors, books \in Ledgers, Tick
    PROVE  gov' \in Governors /\ books' \in Ledgers
<1>1. gov' = [count |-> IF Hour = LocalHour THEN 0 ELSE gov.count, tags |-> Older(gov.tags)]
  BY DEF Tick, Hour
<1>2. books' = [buys |-> IF Hour = LocalHour THEN 0 ELSE books.buys,
                outcomes |-> Older(books.outcomes)]
  BY DEF Tick, Hour
<1>3. Older(gov.tags) \in Windows /\ Older(books.outcomes) \in Windows
  BY WindowTypes DEF Governors, Ledgers
<1> QED
  BY <1>1, <1>2, <1>3 DEF Governors, Ledgers

LEMMA ResetType ==
    ASSUME NEW d \in Days
    PROVE  LET e == [d EXCEPT !.tier = 0, !.start = 0, !.halt = 0]
           IN  e \in Days /\ e.start = 0 /\ e.tier = 0
<1> DEFINE a == [d EXCEPT !.tier = 0]
           b == [a EXCEPT !.start = 0]
           c == [b EXCEPT !.halt = 0]
<1>1. a \in Days /\ a.tier = 0
  BY DEF Days
<1> HIDE DEF a
<1>2. b \in Days /\ b.start = 0 /\ b.tier = 0
  BY <1>1 DEF Days
<1> HIDE DEF b
<1>3. c \in Days /\ c.start = 0 /\ c.tier = 0
  BY <1>2, SlotsOfADay DEF Days
<1>4. c = [d EXCEPT !.tier = 0, !.start = 0, !.halt = 0]
  BY DEF a, b, Days
<1> QED
  BY <1>3, <1>4

LEMMA FixType ==
    LET e == [Blank EXCEPT !.today = healer = "today"]
    IN  e \in Days /\ e.start = 0 /\ e.tier = 0
<1> DEFINE t == healer = "today"
           e == [Blank EXCEPT !.today = t]
<1>1. Blank \in Days /\ Blank.start = 0 /\ Blank.tier = 0
  BY SlotsOfADay DEF Blank, Days
<1>2. t \in BOOLEAN
  BY Zenon
<1> HIDE DEF t
<1>3. e \in Days /\ e.start = 0 /\ e.tier = 0
  BY <1>1, <1>2 DEF Days
<1> QED
  BY <1>3 DEF t

LEMMA NextTypeOK == TypeOK /\ [Next]_vars => TypeOK'
<1> SUFFICES ASSUME TypeOK, [Next]_vars
             PROVE  TypeOK'
  OBVIOUS
<1> DEFINE Rest == /\ hour' \in Ages /\ day' \in Days /\ hist' \in Histories
                   /\ gov' \in Governors /\ books' \in Ledgers
                   /\ healer' \in {"away", "today", "earlier"}
                   /\ troubles' \in 0 .. MaxTroubles
<1>1. /\ hour \in Ages /\ day \in Days /\ hist \in Histories
      /\ gov \in Governors /\ books \in Ledgers
      /\ healer \in {"away", "today", "earlier"} /\ troubles \in 0 .. MaxTroubles
  BY DEF TypeOK, Governors, Ledgers
<1>2. ASSUME Start \/ Refuse PROVE Rest
  BY <1>1, <1>2 DEF Start, Refuse
<1>3. ASSUME Book \/ Count \/ Tag \/ Outcome \/ Die \/ Gate \/ GateFails PROVE Rest
  <2>1. UNCHANGED <<hour, healer>>
    BY <1>3 DEF Book, Count, Tag, Outcome, Die, Gate, GateFails
  <2> QED
    BY <1>1, <1>3, <2>1, RecordsKeep DEF Kept
<1>4. ASSUME PreTrade PROVE Rest
  <2>1. PICK v \in Readings :
          /\ IF v \in Equities THEN UNCHANGED troubles ELSE Trouble
          /\ day' = Checked(day, v) /\ hist' = Read(hist, v)
    BY <1>4 DEF PreTrade, Readings
  <2>2. UNCHANGED <<hour, gov, books, healer>>
    BY <1>4 DEF PreTrade
  <2> QED
    BY <1>1, <2>1, <2>2, CheckedType, ReadType, TroubleType
<1>5. ASSUME PreTradeFails PROVE Rest
  BY <1>1, <1>5, TroubleType DEF PreTradeFails
<1>6. ASSUME Heal PROVE Rest
  <2>1. [day EXCEPT !.tier = 0, !.start = 0, !.halt = 0] \in Days
    BY <1>1, ResetType
  <2> QED
    BY <1>1, <1>6, <2>1, HealedType DEF Heal
<1>7. ASSUME Buy PROVE Rest
  <2>1. UNCHANGED <<hour, day, gov, books, healer, troubles>>
    BY <1>7 DEF Buy
  <2> QED
    BY <1>1, <1>7, <2>1, BoughtType
<1>8. ASSUME OtherBuy PROVE Rest
  <2>1. [books EXCEPT !.buys = @ + 1] \in Ledgers
    BY <1>1 DEF Ledgers
  <2> QED
    BY <1>1, <1>8, <2>1 DEF OtherBuy
<1>9. ASSUME HealerLooks PROVE Rest
  BY <1>1, <1>9 DEF HealerLooks
<1>10. ASSUME HealerFixes PROVE Rest
  <2>1. [Blank EXCEPT !.today = healer = "today"] \in Days
    BY FixType
  <2> QED
    BY <1>1, <1>10, <2>1, HealedType DEF HealerFixes
<1>11. ASSUME Tick PROVE Rest
  <2>1. hour' \in Ages /\ healer' \in {"away", "today", "earlier"}
    BY <1>1, <1>11, HourType DEF Tick, Hour
  <2>2. UNCHANGED troubles
    BY <1>11 DEF Tick
  <2> QED
    BY <1>1, <1>11, <2>1, <2>2, TickOfDay, TickOfHistory, TickOfBooks
<1>12. ASSUME UNCHANGED vars PROVE Rest
  BY <1>1, <1>12 DEF vars
<1>13. Rest
  BY <1>2, <1>3, <1>4, <1>5, <1>6, <1>7, <1>8, <1>9, <1>10, <1>11, <1>12 DEF Next
<1>14. scan' \in Scans
  <2>1. CASE Next
    BY <2>1, ScanKept
  <2>2. CASE UNCHANGED vars
    BY <2>2 DEF vars, TypeOK, Scans
  <2> QED
    BY <2>1, <2>2
<1> QED
  BY <1>13, <1>14 DEF TypeOK, Governors, Ledgers, Scans

\* Every variable keeps its type, whatever fails and whoever writes.
THEOREM TypeCorrect == Spec => []TypeOK
  BY InitTypeOK, NextTypeOK, PTL DEF Spec

-----------------------------------------------------------------------------
(* The brake                                                                *)

\* The trip of today has its whole halt, up to the slots since, before it: the
\* end of the day comes first.
HaltAhead == day.tier = 3 /\ day.today => day.halt >= DayLen - hour

\* The stored opening balance is the first reading of the day.
OpeningStored ==
    IF hist.opening = 0 THEN day.today => day.start = 0
    ELSE day.today /\ day.start = hist.opening

BrakeInv ==
    /\ TypeOK /\ HaltAhead /\ OpeningStored
    /\ hist.fell => day.tier >= 2 /\ hist.opening # 0
    /\ At("buy") => ~hist.fell

LEMMA InitBrake == Init => BrakeInv
<1> SUFFICES ASSUME Init
             PROVE  BrakeInv
  OBVIOUS
<1>1. hist.opening = 0 /\ ~hist.fell
  BY DEF Init
<1>2. ~day.today
  BY DEF Init, Blank
<1> QED
  BY <1>1, <1>2, InitTypeOK DEF BrakeInv, HaltAhead, OpeningStored

LEMMA OpeningPositive ==
    \A x \in {0, Cash} \cup Equities : x # 0 => x \in Nat /\ x > 0
  BY GateAssumption

LEMMA StartSet ==
    ASSUME NEW d \in Days, NEW v \in Readings
    PROVE  LET e == [d EXCEPT !.start = v]
           IN  e \in Days /\ e.start = v /\ e.today = d.today
  BY DEF Days, Readings

\* The step everything hangs on: a check keeps the stored opening, and leaves a
\* trip where the account has not read above it.
LEMMA CheckBrakes ==
    ASSUME BrakeInv, NEW v \in Readings,
           day' = Checked(day, v), hist' = Read(hist, v), UNCHANGED hour
    PROVE  /\ HaltAhead' /\ OpeningStored' /\ hist'.opening # 0
           /\ hist'.fell => day'.tier >= 2
<1>1. /\ day \in Days /\ hist \in Histories /\ hour \in Ages
      /\ HaltAhead /\ OpeningStored
      /\ hist.fell => day.tier >= 2 /\ hist.opening # 0
  BY DEF BrakeInv, TypeOK
<1>2. v \in Nat /\ v > 0
  BY ReadingsPositive
<1> DEFINE e == Opened(NewDay(day), v)
           o == IF hist.opening = 0 THEN v ELSE hist.opening
<1>3. /\ e \in Days /\ e.start = o /\ e.today /\ o \in Nat /\ o > 0
      /\ hist.opening # 0 => e = day
  <2>1. CASE hist.opening = 0 /\ ~day.today
    <3>1. e = [Blank EXCEPT !.start = v]
      BY <2>1 DEF NewDay, Opened, Blank
    <3>2. Blank \in Days /\ Blank.today = TRUE
      BY SlotsOfADay DEF Blank, Days
    <3>3. e \in Days /\ e.start = v /\ e.today = Blank.today
      BY <3>1, <3>2, StartSet
    <3>4. e.today
      BY <3>2, <3>3, Zenon
    <3> QED
      BY <2>1, <3>3, <3>4, <1>2
  <2>2. CASE hist.opening = 0 /\ day.today
    <3>1. day.start = 0
      BY <1>1, <2>2 DEF OpeningStored
    <3>2. e = [day EXCEPT !.start = v]
      BY <2>2, <3>1 DEF NewDay, Opened
    <3>3. e \in Days /\ e.start = v /\ e.today = day.today
      BY <3>2, <1>1, StartSet
    <3> QED
      BY <2>2, <3>3, <1>2
  <2>3. CASE hist.opening # 0
    <3>1. day.today /\ day.start = hist.opening
      BY <1>1, <2>3 DEF OpeningStored
    <3>2. e = day
      BY <2>3, <3>1 DEF NewDay, Opened
    <3>3. hist.opening \in {0, Cash} \cup Equities
      BY <1>1 DEF Histories
    <3>4. hist.opening \in Nat /\ hist.opening > 0
      BY <2>3, <3>3, OpeningPositive
    <3> QED
      BY <1>1, <2>3, <3>1, <3>2, <3>4
  <2> QED
    BY <2>1, <2>2, <2>3
<1>4. e.tier = 3 => e.halt >= DayLen - hour
  <2>1. CASE hist.opening # 0 \/ day.today
    <3>1. e.tier = day.tier /\ e.halt = day.halt /\ day.today
      BY <1>1, <1>3, <2>1 DEF NewDay, Opened, OpeningStored, Days
    <3> QED
      BY <1>1, <3>1 DEF HaltAhead
  <2>2. CASE hist.opening = 0 /\ ~day.today
    <3>1. e = [Blank EXCEPT !.start = v]
      BY <2>2 DEF NewDay, Opened, Blank
    <3> QED
      BY <3>1 DEF Blank
  <2> QED
    BY <2>1, <2>2
<1> DEFINE m == Moved(e, v)
           t == LossTier(o, v)
<1>5. /\ t \in 0 .. 3 /\ (Lost(o, v, 2) => t >= 2)
      /\ (Lost(o, v, 2) => ~(v > o))
  BY <1>2, <1>3 DEF LossTier, Lost
<1>6. day' = Expired(m)
  BY DEF Checked
<1> HIDE DEF e
<1>7. /\ m.start = o /\ m.today
      /\ m.tier = 3 => m.halt >= DayLen - hour
      /\ Lost(o, v, 2) => m.tier >= 2
      /\ e.tier >= 2 /\ ~(v > o) => m.tier >= 2
  <2> HIDE DEF t, o
  <2>0. /\ e \in Days /\ e.start = o /\ e.today /\ e.tier \in 0 .. 3
        /\ DayLen \in Nat /\ hour \in Nat
    BY <1>1, <1>3, SlotsOfADay DEF Days
  <2>1. CASE v > e.start /\ e.tier > 0
    <3>1. m = [e EXCEPT !.tier = @ - 1]
      BY <2>1 DEF Moved
    <3>2. m.start = o /\ m.today = e.today /\ m.tier = e.tier - 1
      BY <3>1, <2>0 DEF Days
    <3> QED
      BY <3>2, <2>0, <2>1, <1>5
  <2>2. CASE ~(v > e.start /\ e.tier > 0) /\ t > e.tier
    <3> DEFINE h == IF t = 3 THEN DayLen ELSE e.halt
    <3>1. m = [e EXCEPT !.tier = t, !.halt = h]
      BY <2>2, <2>0 DEF Moved, t
    <3> HIDE DEF h
    <3>2. m.start = e.start /\ m.today = e.today /\ m.tier = t /\ m.halt = h
      BY <3>1, <2>0 DEF Days
    <3>3. t = 3 => h >= DayLen - hour
      BY <2>0 DEF h
    <3> QED
      BY <3>2, <3>3, <2>0, <2>2, <1>5
  <2>3. CASE ~(v > e.start /\ e.tier > 0) /\ ~(t > e.tier)
    <3>1. m = e
      BY <2>3, <2>0 DEF Moved, t
    <3> QED
      BY <3>1, <2>0, <2>3, <1>4, <1>5
  <2> QED
    BY <2>1, <2>2, <2>3
<1>8. DayLen \in Nat /\ hour \in Nat /\ DayLen - hour > 0
  BY <1>1, SlotsOfADay
<1> HIDE DEF m
<1>9. day' = m
  BY <1>6, <1>7, <1>8 DEF Expired
<1>10. hist'.opening = o
  BY <1>1 DEF Read, Histories
<1>11. hist'.fell = IF Lost(o, v, 2) THEN TRUE ELSE hist.fell /\ v <= o
  BY <1>1 DEF Read, Histories
<1>12. hist'.fell => day'.tier >= 2
  <2> HIDE DEF o
  <2>1. CASE Lost(o, v, 2)
    BY <2>1, <1>7, <1>9
  <2>2. CASE ~Lost(o, v, 2) /\ hist'.fell
    <3>1. hist.fell /\ v <= o
      BY <2>2, <1>11, Zenon
    <3>2. e = day /\ day.tier >= 2
      BY <3>1, <1>1, <1>3
    <3> QED
      BY <3>1, <3>2, <1>2, <1>3, <1>7, <1>9
  <2> QED
    BY <2>1, <2>2, Zenon
<1>13. HaltAhead'
  BY <1>7, <1>9 DEF HaltAhead
<1>14. OpeningStored'
  BY <1>3, <1>7, <1>9, <1>10 DEF OpeningStored
<1> QED
  BY <1>3, <1>10, <1>12, <1>13, <1>14

\* No action takes a scan to "buy" but the check.
LEMMA OnlyCheckAdmits ==
    ASSUME TypeOK, Next, scan'.at = "buy", ~PreTrade
    PROVE  At("buy")
<1>1. scan \in Scans
  BY DEF TypeOK, Scans
<1>2. \A a \in Steps : [scan EXCEPT !.at = a].at = a
  BY <1>1 DEF Scans
<1>3. Idle.at # "buy"
  BY DEF Idle
<1>4. /\ "check" \in Steps /\ "heal" \in Steps /\ "book" \in Steps
      /\ "count" \in Steps /\ "tag" \in Steps /\ "outcome" \in Steps
  BY DEF Steps
<1>5. ~Start
  BY DEF Start
<1>6. ~(Gate \/ GateFails \/ PreTradeFails \/ Buy)
  BY <1>2, <1>3, <1>4 DEF Gate, GateFails, PreTradeFails, Buy, Go
<1>7. ~(Book \/ Count \/ Tag \/ Outcome)
  BY <1>2, <1>3, <1>4 DEF Book, Count, Tag, Outcome, Records
<1>8. ~(Refuse \/ Heal \/ Die)
  BY <1>3 DEF Refuse, Heal, Die
<1>9. OtherBuy \/ HealerLooks \/ HealerFixes \/ Tick
  BY <1>5, <1>6, <1>7, <1>8 DEF Next
<1>10. scan' = scan
  BY <1>9 DEF OtherBuy, HealerLooks, HealerFixes, Tick
<1> QED
  BY <1>10 DEF At

\* Erasing the trip erases the opening balance with it.
LEMMA ErasedBrakes ==
    ASSUME day'.start = 0, day'.tier = 0, hist' = Healed(hist), hist \in Histories
    PROVE  /\ HaltAhead' /\ OpeningStored' /\ ~hist'.fell
<1>1. hist'.opening = 0 /\ ~hist'.fell
  BY HealedType
<1> QED
  BY <1>1 DEF HaltAhead, OpeningStored

LEMMA TickBrakes ==
    ASSUME BrakeInv, Tick
    PROVE  /\ HaltAhead' /\ OpeningStored'
           /\ hist'.fell => day'.tier >= 2 /\ hist'.opening # 0
           /\ hist'.fell => hist.fell
<1>1. /\ day \in Days /\ hist \in Histories /\ hour \in Ages
      /\ HaltAhead /\ OpeningStored
      /\ hist.fell => day.tier >= 2 /\ hist.opening # 0
  BY DEF BrakeInv, TypeOK
<1>2. /\ day'.start = day.start /\ day'.tier = day.tier
      /\ day'.today = (day.today /\ Hour # 0) /\ day'.halt = Less(day.halt)
  BY <1>1, TickOfDay
<1>3. /\ hist'.opening = (IF Hour = 0 THEN 0 ELSE hist.opening)
      /\ hist'.fell = (hist.fell /\ Hour # 0)
  BY <1>1, TickOfHistory
<1>4. hour' = Hour
  BY DEF Tick, Hour
<1>5. CASE Hour = 0
  <2>1. ~day'.today
    BY <1>2, <1>5, Zenon
  <2>2. ~hist'.fell
    BY <1>3, <1>5, Zenon
  <2>3. hist'.opening = 0
    BY <1>3, <1>5
  <2> QED
    BY <2>1, <2>2, <2>3 DEF HaltAhead, OpeningStored
<1>6. CASE Hour # 0
  <2>1. day'.today = day.today
    <3>1. day.today \in BOOLEAN
      BY <1>1 DEF Days
    <3> QED
      BY <1>2, <1>6, <3>1, Zenon
  <2>2. hist'.fell => hist.fell
    BY <1>3, Zenon
  <2>3. hist'.opening = hist.opening
    BY <1>3, <1>6
  <2>4. OpeningStored'
    BY <1>1, <1>2, <2>1, <2>3 DEF OpeningStored
  <2>5. HaltAhead'
    <3>1. /\ day.halt \in Nat /\ DayLen \in Nat /\ hour \in Nat /\ hour < DayLen
          /\ hour' = hour + 1
      BY <1>1, <1>4, <1>6, SlotsOfADay DEF Days, Hour
    <3>2. day.halt >= DayLen - hour => day'.halt >= DayLen - hour'
      BY <1>2, <3>1 DEF Less
    <3> QED
      BY <1>1, <1>2, <2>1, <3>2 DEF HaltAhead
  <2> QED
    BY <1>1, <1>2, <2>2, <2>3, <2>4, <2>5
<1> QED
  BY <1>5, <1>6

LEMMA NextBrake == BrakeInv /\ [Next]_vars => BrakeInv'
<1> SUFFICES ASSUME BrakeInv, [Next]_vars
             PROVE  BrakeInv'
  OBVIOUS
<1> DEFINE Brakes == /\ HaltAhead' /\ OpeningStored'
                     /\ hist'.fell => day'.tier >= 2 /\ hist'.opening # 0
           Stays == hist'.fell => hist.fell
<1>1. /\ TypeOK /\ day \in Days /\ hist \in Histories
      /\ HaltAhead /\ OpeningStored
      /\ hist.fell => day.tier >= 2 /\ hist.opening # 0
  BY DEF BrakeInv, TypeOK
<1>2. ASSUME Kept, UNCHANGED hour
      PROVE  Brakes /\ Stays
  BY <1>1, <1>2 DEF Kept, HaltAhead, OpeningStored
<1>3. CASE UNCHANGED vars
  BY <1>1, <1>3 DEF vars, BrakeInv, TypeOK, HaltAhead, OpeningStored, At
<1>4. CASE PreTrade
  <2>1. PICK v \in Readings :
          /\ day' = Checked(day, v) /\ hist' = Read(hist, v)
          /\ Go(IF day'.tier >= 2 THEN "heal" ELSE "buy")
    BY <1>4 DEF PreTrade, Readings
  <2>2. UNCHANGED hour
    BY <1>4 DEF PreTrade
  <2>3. Brakes /\ (hist'.fell => day'.tier >= 2)
    BY <2>1, <2>2, CheckBrakes
  <2>4. scan'.at = "buy" => ~(day'.tier >= 2)
    <3>1. \A a \in Steps : [scan EXCEPT !.at = a].at = a
      BY <1>1 DEF TypeOK
    <3> QED
      BY <2>1, <3>1 DEF Go, Steps
  <2>5. TypeOK'
    BY <1>1, NextTypeOK
  <2> QED
    BY <2>3, <2>4, <2>5 DEF BrakeInv, At
<1>5. ASSUME Book \/ Count \/ Tag \/ Outcome \/ Die \/ Gate \/ GateFails
      PROVE  Brakes /\ Stays
  <2>1. UNCHANGED hour
    BY <1>5 DEF Book, Count, Tag, Outcome, Die, Gate, GateFails
  <2> QED
    BY <1>1, <1>2, <1>5, <2>1, RecordsKeep
<1>6. ASSUME Start \/ Refuse \/ PreTradeFails \/ OtherBuy \/ HealerLooks
      PROVE  Brakes /\ Stays
  BY <1>2, <1>6 DEF Start, Refuse, PreTradeFails, OtherBuy, HealerLooks, Kept
<1>7. ASSUME Heal PROVE Brakes /\ Stays
  <2>1. CASE day.tier = 3
    <3>1. day' = [day EXCEPT !.tier = 0, !.start = 0, !.halt = 0] /\ hist' = Healed(hist)
      BY <1>7, <2>1 DEF Heal
    <3>2. day'.start = 0 /\ day'.tier = 0
      BY <1>1, <3>1, ResetType
    <3> QED
      BY <1>1, <3>1, <3>2, ErasedBrakes
  <2>2. CASE day.tier # 3
    BY <1>2, <1>7, <2>2 DEF Heal, Kept
  <2> QED
    BY <2>1, <2>2
<1>8. ASSUME Buy PROVE Brakes /\ Stays
  <2>1. UNCHANGED <<hour, day>>
    BY <1>8 DEF Buy
  <2> QED
    BY <1>1, <1>2, <1>8, <2>1, BoughtType DEF Kept
<1>9. ASSUME HealerFixes PROVE Brakes /\ Stays
  <2>1. day' = [Blank EXCEPT !.today = healer = "today"] /\ hist' = Healed(hist)
    BY <1>9 DEF HealerFixes
  <2>2. day'.start = 0 /\ day'.tier = 0
    BY <2>1, FixType
  <2> QED
    BY <1>1, <2>1, <2>2, ErasedBrakes
<1>10. ASSUME Tick PROVE Brakes /\ Stays
  BY <1>10, TickBrakes
<1>11. CASE Next /\ ~PreTrade
  <2>1. Brakes /\ Stays
    BY <1>5, <1>6, <1>7, <1>8, <1>9, <1>10, <1>11 DEF Next
  <2>2. scan'.at = "buy" => ~hist'.fell
    BY <1>1, <1>11, <2>1, OnlyCheckAdmits DEF BrakeInv
  <2>3. TypeOK'
    BY <1>1, NextTypeOK
  <2> QED
    BY <2>1, <2>2, <2>3 DEF BrakeInv, At
<1> QED
  BY <1>3, <1>4, <1>11

\* No entry below a reading 2% under the opening balance, in whichever process
\* the next scan runs, unless the account recovered, the day ended or a healer
\* erased the trip.
THEOREM BrakeKept == Spec => BrakeHolds
<1>1. BrakeInv => [Enters => ~hist.fell]_vars
  BY DEF BrakeInv, Enters
<1> QED
  BY <1>1, InitBrake, NextBrake, PTL DEF Spec, BrakeHolds

-----------------------------------------------------------------------------
(* The pace of entries                                                      *)

\* Sum of a window over the last k + 1 slots.
Upto(w, k) == SumFunctionOnSet(w, 0 .. k)

\* The newest slots of a window
LEMMA SlotsUpTo ==
    ASSUME NEW k \in Ages
    PROVE  k \in Nat /\ IsFiniteSet(0 .. k) /\ 0 .. k \subseteq Ages /\ 0 \in 0 .. k
<1>1. k \in Nat /\ k <= DayLen - 1 /\ DayLen \in Nat
  BY SlotsOfADay DEF Ages
<1>2. IsFiniteSet(0 .. k)
  BY <1>1, FS_Interval
<1>3. 0 .. k \subseteq Ages /\ 0 \in 0 .. k
  BY <1>1 DEF Ages
<1> QED
  BY <1>1, <1>2, <1>3

\* It is a number, ...
LEMMA UptoNat ==
    ASSUME NEW w \in Windows, NEW k \in Ages
    PROVE  Upto(w, k) \in Nat
<1> DEFINE S == 0 .. k
<1>1. IsFiniteSet(S) /\ \A x \in S : w[x] \in Nat
  BY SlotsUpTo DEF Windows
<1> HIDE DEF S
<1>2. SumFunctionOnSet(w, S) \in Nat
  BY <1>1, SumNat
<1> QED
  BY <1>2 DEF Upto, S

\* ... 0 in the beginning, ...
LEMMA UptoNone ==
    ASSUME NEW k \in Ages
    PROVE  Upto(None, k) = 0
<1> DEFINE S == 0 .. k
<1>1. IsFiniteSet(S) /\ \A x \in S : None[x] \in Nat /\ None[x] = 0
  BY SlotsUpTo DEF None
<1> HIDE DEF S
<1>2. SumFunctionOnSet(None, S) = 0
  BY <1>1, SumZero
<1> QED
  BY <1>2 DEF Upto, S

\* ... grows by what the newest slot gets, ...
LEMMA UptoMore ==
    ASSUME NEW w \in Windows, NEW n \in Nat, NEW k \in Ages
    PROVE  Upto(More(w, n), k) = Upto(w, k) + n
<1> DEFINE v == More(w, n)
           S == 0 .. k
<1>1. w \in [Ages -> Nat] /\ S \subseteq Ages /\ 0 \in S /\ IsFiniteSet(S)
  BY SlotsUpTo DEF Windows
<1>2. v[0] = w[0] + n /\ \A x \in S \ {0} : v[x] = w[x]
  BY <1>1 DEF More
<1>3. \A x \in S : v[x] \in Int /\ w[x] \in Int
  BY <1>1, <1>2
<1> HIDE DEF v, S
<1>4. SumFunctionOnSet(v, S) = SumFunctionOnSet(w, S) + (v[0] - w[0])
  BY <1>1, <1>2, <1>3, SumChange
<1>5. SumFunctionOnSet(w, S) \in Int /\ w[0] \in Int
  BY <1>1, <1>3, SumInt
<1>6. SumFunctionOnSet(v, S) = SumFunctionOnSet(w, S) + n
  BY <1>2, <1>4, <1>5
<1> QED
  BY <1>6 DEF Upto, v, S

\* ... and moves one slot on when the clock does.
LEMMA UptoOlder ==
    ASSUME NEW w \in Windows, NEW k \in Ages
    PROVE  Upto(Older(w), k) = IF k = 0 THEN 0 ELSE Upto(w, k - 1)
<1> DEFINE v == Older(w)
<1>1. /\ w \in [Ages -> Nat] /\ v[0] = 0 /\ k \in Nat
      /\ \A a \in Ages : a # 0 => v[a] = w[a - 1]
  BY SlotsUpTo, SlotsOfADay DEF Windows, Older
<1>2. CASE k = 0
  <2> DEFINE Z == 0 .. k
  <2>1. Z = {0}
    BY <1>2
  <2> HIDE DEF Z, v
  <2>2. SumFunctionOnSet(v, {0}) = 0
    BY <1>1, SumSingle
  <2>3. SumFunctionOnSet(v, Z) = 0
    BY <2>1, <2>2, Zenon
  <2> QED
    BY <1>2, <2>3 DEF Upto, Z, v
<1>3. CASE k # 0
  <2> DEFINE n == k - 1
  <2>1. n \in Nat /\ n + 1 = k
    BY <1>1, <1>3
  <2>2. ASSUME NEW y \in 0 .. n
        PROVE  w[y] \in Int /\ v[y + 1] = w[y]
    <3>1. y \in Ages /\ y + 1 \in Ages /\ y + 1 # 0 /\ (y + 1) - 1 = y
      BY <2>1, SlotsOfADay DEF Ages
    <3> QED
      BY <1>1, <3>1
  <2> HIDE DEF v, n
  <2>3. SumFunctionOnSet(v, 0 .. n + 1) = SumFunctionOnSet(w, 0 .. n)
    BY <1>1, <2>1, <2>2, SumShifted
  <2>4. Upto(v, n + 1) = Upto(w, n)
    BY <2>3 DEF Upto
  <2> QED
    BY <1>3, <2>1, <2>4 DEF v, n
<1> QED
  BY <1>2, <1>3

\* The whole window counts all its slots.
LEMMA UptoTotal ==
    ASSUME NEW w \in Windows
    PROVE  /\ DayLen - 1 \in Ages /\ Total(w) = Upto(w, DayLen - 1)
           /\ \A k \in Ages : Upto(w, k) <= Total(w)
<1> DEFINE S == 0 .. DayLen - 1
<1>0. DayLen - 1 \in Ages /\ S = Ages
  BY SlotsOfADay DEF Ages
<1>1. DOMAIN w = S /\ DayLen - 1 \in Ages /\ IsFiniteSet(S) /\ \A x \in S : w[x] \in Nat
  BY <1>0, SlotsUpTo DEF Windows
<1>2. Total(w) = SumFunctionOnSet(w, S)
  BY <1>1, Zenon DEF Total, SumFunction
<1>3. ASSUME NEW k \in Ages
      PROVE  Upto(w, k) <= Total(w)
  <2> DEFINE T == 0 .. k
  <2>1. T \subseteq S
    BY SlotsOfADay DEF Ages
  <2> HIDE DEF S, T
  <2>2. SumFunctionOnSet(w, T) <= SumFunctionOnSet(w, S)
    BY <1>1, <2>1, SumPart
  <2> QED
    BY <1>2, <2>2 DEF Upto, T
<1> QED
  BY <1>1, <1>2, <1>3 DEF Upto

\* Records of the last entry that the scan is still to write
Due(S) == IF scan.at \in S THEN 1 ELSE 0
CountDue == Due({"book", "count"})
RowDue == Due({"book"})
TagDue == IF scan.neutral THEN Due({"book", "count", "tag"}) ELSE 0
OutcomeDue == IF scan.neutral THEN Due({"book", "count", "tag", "outcome"}) ELSE 0

\* Two records of the same entries miss no more of them between them than
\* there were lost writes.
TwiceKept(n, one, two, lost) ==
    /\ n - one <= lost /\ n - two <= lost
    /\ (n - one) + (n - two) <= lost

DayRecords ==
    TwiceKept(hist.taken, gov.count + CountDue, books.buys + RowDue, hist.slips)

\* A tag or an outcome is never older than the entry it is of.
NeutralRecords ==
    \A k \in Ages : TwiceKept(Upto(hist.pace, k), Upto(gov.tags, k) + TagDue,
                              Upto(books.outcomes, k) + OutcomeDue, Upto(hist.misses, k))

\* Past the gate
Admitted == scan.at \in {"check", "heal", "buy"}

DayPaced ==
    hist.slips <= 1 => /\ hist.taken <= EntryCap
                       /\ Admitted => hist.taken < EntryCap

\* Also of the newest slots alone: the misses of the oldest slot leave the
\* window together with the entries that they let through or before those.
NeutralPaced ==
    \A k \in Ages :
       Upto(hist.misses, k) <= 1 =>
          /\ Upto(hist.pace, k) <= NeutralCap
          /\ Admitted /\ scan.neutral => Upto(hist.pace, k) < NeutralCap

PaceInv == TypeOK /\ DayRecords /\ NeutralRecords /\ DayPaced /\ NeutralPaced

\* What the lemmas below take from the types.
LEMMA Counts ==
    ASSUME TypeOK
    PROVE  /\ hist.taken \in Nat /\ hist.slips \in Nat /\ gov.count \in Nat /\ books.buys \in Nat
           /\ hist.pace \in Windows /\ hist.misses \in Windows
           /\ gov.tags \in Windows /\ books.outcomes \in Windows
           /\ \A k \in Ages : /\ Upto(hist.pace, k) \in Nat /\ Upto(hist.misses, k) \in Nat
                              /\ Upto(gov.tags, k) \in Nat /\ Upto(books.outcomes, k) \in Nat
           /\ CountDue \in 0 .. 1 /\ RowDue \in 0 .. 1 /\ TagDue \in 0 .. 1 /\ OutcomeDue \in 0 .. 1
           /\ scan.neutral \in BOOLEAN /\ EntryCap \in Nat /\ EntryCap > 0
           /\ NeutralCap \in Nat /\ NeutralCap > 0
<1>1. /\ hist.taken \in Nat /\ hist.slips \in Nat /\ gov.count \in Nat /\ books.buys \in Nat
      /\ hist.pace \in Windows /\ hist.misses \in Windows
      /\ gov.tags \in Windows /\ books.outcomes \in Windows /\ scan.neutral \in BOOLEAN
  BY DEF TypeOK, Histories
<1>2. CountDue \in 0 .. 1 /\ RowDue \in 0 .. 1 /\ TagDue \in 0 .. 1 /\ OutcomeDue \in 0 .. 1
  BY DEF CountDue, RowDue, TagDue, OutcomeDue, Due
<1>3. EntryCap \in Nat /\ EntryCap > 0 /\ NeutralCap \in Nat /\ NeutralCap > 0
  BY GateAssumption
<1> QED
  BY <1>1, <1>2, <1>3, UptoNat

\* Entries, records and losses of two stretches add up.
LEMMA TwiceAdded ==
    ASSUME NEW n \in Int, NEW one \in Int, NEW two \in Int, NEW lost \in Int,
           NEW dn \in Int, NEW done \in Int, NEW dtwo \in Int, NEW dlost \in Int,
           TwiceKept(n, one, two, lost), TwiceKept(dn, done, dtwo, dlost)
    PROVE  TwiceKept(n + dn, one + done, two + dtwo, lost + dlost)
BY DEF TwiceKept

\* A loss of records that goes with the loss counted for it keeps both pairs.
LEMMA RecordsMove ==
    ASSUME TypeOK, DayRecords, NeutralRecords,
           NEW t \in Nat, NEW s \in Nat, NEW c \in Int, NEW b \in Int,
           NEW p \in Nat, NEW m \in Nat, NEW g \in Int, NEW o \in Int,
           hist'.taken = hist.taken + t, hist'.slips = hist.slips + s,
           gov'.count + CountDue' = (gov.count + CountDue) + c,
           books'.buys + RowDue' = (books.buys + RowDue) + b,
           \A k \in Ages :
              /\ Upto(hist'.pace, k) = Upto(hist.pace, k) + p
              /\ Upto(hist'.misses, k) = Upto(hist.misses, k) + m
              /\ Upto(gov'.tags, k) + TagDue' = (Upto(gov.tags, k) + TagDue) + g
              /\ Upto(books'.outcomes, k) + OutcomeDue' = (Upto(books.outcomes, k) + OutcomeDue) + o,
           TwiceKept(t, c, b, s), TwiceKept(p, g, o, m)
    PROVE  DayRecords' /\ NeutralRecords'
<1>1. DayRecords'
  <2>1. TwiceKept(hist.taken, gov.count + CountDue, books.buys + RowDue, hist.slips)
    BY DEF DayRecords
  <2>2. /\ hist.taken \in Int /\ hist.slips \in Int
        /\ gov.count + CountDue \in Int /\ books.buys + RowDue \in Int
    <3>1. /\ hist.taken \in Nat /\ hist.slips \in Nat /\ gov.count \in Nat /\ books.buys \in Nat
          /\ CountDue \in 0 .. 1 /\ RowDue \in 0 .. 1
      BY Counts
    <3> QED
      BY <3>1
  <2>3. TwiceKept(hist.taken + t, (gov.count + CountDue) + c, (books.buys + RowDue) + b,
                  hist.slips + s)
    <3> DEFINE one == gov.count + CountDue
               two == books.buys + RowDue
    <3>1. TwiceKept(hist.taken, one, two, hist.slips) /\ one \in Int /\ two \in Int
      BY <2>1, <2>2
    <3> HIDE DEF one, two
    <3>2. TwiceKept(hist.taken + t, one + c, two + b, hist.slips + s)
      BY <2>2, <3>1 DEF TwiceKept
    <3> QED
      BY <3>2 DEF one, two
  <2> QED
    BY <2>3 DEF DayRecords
<1>2. ASSUME NEW k \in Ages
      PROVE  TwiceKept(Upto(hist'.pace, k), Upto(gov'.tags, k) + TagDue',
                       Upto(books'.outcomes, k) + OutcomeDue', Upto(hist'.misses, k))
  <2>1. TwiceKept(Upto(hist.pace, k), Upto(gov.tags, k) + TagDue,
                  Upto(books.outcomes, k) + OutcomeDue, Upto(hist.misses, k))
    BY DEF NeutralRecords
  <2>2. /\ Upto(hist.pace, k) \in Int /\ Upto(hist.misses, k) \in Int
        /\ Upto(gov.tags, k) + TagDue \in Int /\ Upto(books.outcomes, k) + OutcomeDue \in Int
    <3>1. /\ Upto(hist.pace, k) \in Nat /\ Upto(hist.misses, k) \in Nat
          /\ Upto(gov.tags, k) \in Nat /\ Upto(books.outcomes, k) \in Nat
          /\ TagDue \in 0 .. 1 /\ OutcomeDue \in 0 .. 1
      BY Counts
    <3> QED
      BY <3>1
  <2>3. TwiceKept(Upto(hist.pace, k) + p, (Upto(gov.tags, k) + TagDue) + g,
                  (Upto(books.outcomes, k) + OutcomeDue) + o, Upto(hist.misses, k) + m)
    BY <2>1, <2>2, TwiceAdded
  <2> QED
    BY <2>3
<1> QED
  BY <1>1, <1>2 DEF NeutralRecords

\* Nobody gets past the gate, no entry is made and no loss is forgotten.
LEMMA PacedKept ==
    ASSUME TypeOK, TypeOK', DayPaced, NeutralPaced,
           hist'.taken = hist.taken, hist'.pace = hist.pace, hist'.slips >= hist.slips,
           \A k \in Ages : Upto(hist'.misses, k) >= Upto(hist.misses, k),
           Admitted' => Admitted /\ scan'.neutral = scan.neutral
    PROVE  DayPaced' /\ NeutralPaced'
<1>1. /\ hist.slips \in Nat /\ hist'.slips \in Nat
      /\ hist.misses \in Windows /\ hist'.misses \in Windows
  BY DEF TypeOK, Histories
<1>2. DayPaced'
  BY <1>1 DEF DayPaced
<1>3. ASSUME NEW k \in Ages, Upto(hist'.misses, k) <= 1
      PROVE  Upto(hist.misses, k) <= 1
  <2>1. Upto(hist.misses, k) \in Nat /\ Upto(hist'.misses, k) \in Nat
    BY <1>1, UptoNat
  <2> QED
    BY <1>3, <2>1
<1>4. NeutralPaced'
  BY <1>3 DEF NeutralPaced
<1> QED
  BY <1>2, <1>4

\* What a lost record counts for
LEMMA MissedCounts ==
    ASSUME TypeOK, NEW n \in Nat, NEW m \in Nat, hist' = Missed(hist, n, m)
    PROVE  /\ hist'.taken = hist.taken /\ hist'.pace = hist.pace
           /\ hist'.slips = hist.slips + n
           /\ \A k \in Ages : Upto(hist'.misses, k)
                                = Upto(hist.misses, k) + (IF scan.neutral THEN m ELSE 0)
<1> DEFINE w == IF scan.neutral THEN More(hist.misses, m) ELSE hist.misses
           h == [hist EXCEPT !.slips = @ + n, !.misses = w]
<1>1. hist \in Histories /\ hist.misses \in Windows
  BY DEF TypeOK, Histories
<1>2. hist' = h
  BY DEF Missed
<1>3. ASSUME NEW k \in Ages
      PROVE  Upto(w, k) = Upto(hist.misses, k) + (IF scan.neutral THEN m ELSE 0)
  <2>1. Upto(hist.misses, k) \in Nat
    BY <1>1, UptoNat
  <2>2. Upto(More(hist.misses, m), k) = Upto(hist.misses, k) + m
    BY <1>1, UptoMore
  <2> QED
    BY <2>1, <2>2
<1> HIDE DEF w
<1>4. h.taken = hist.taken /\ h.pace = hist.pace /\ h.slips = hist.slips + n /\ h.misses = w
  BY <1>1 DEF Histories
<1> QED
  BY <1>2, <1>3, <1>4

\* Where a step takes the scan
LEMMA ScanMoves ==
    ASSUME TypeOK
    PROVE  /\ \A a \in Steps : [scan EXCEPT !.at = a].at = a /\ [scan EXCEPT !.at = a].neutral = scan.neutral
           /\ Idle.at = "idle" /\ Idle.neutral = FALSE
           /\ scan.neutral \in BOOLEAN /\ scan.at \in Steps
BY DEF TypeOK, Idle

\* The records due at each step
LEMMA DueAt ==
    /\ ~(scan.at \in {"book", "count", "tag", "outcome"}) =>
          CountDue = 0 /\ RowDue = 0 /\ TagDue = 0 /\ OutcomeDue = 0
    /\ ~scan.neutral => TagDue = 0 /\ OutcomeDue = 0
    /\ scan.at = "book" => CountDue = 1 /\ RowDue = 1
    /\ scan.at = "count" => CountDue = 1 /\ RowDue = 0
    /\ scan.at \in {"tag", "outcome"} => CountDue = 0 /\ RowDue = 0
    /\ scan.at \in {"book", "count", "tag"} /\ scan.neutral => TagDue = 1 /\ OutcomeDue = 1
    /\ scan.at = "outcome" /\ scan.neutral => TagDue = 0 /\ OutcomeDue = 1
BY DEF CountDue, RowDue, TagDue, OutcomeDue, Due

\* ... and after the step
LEMMA DueNext ==
    /\ ~(scan'.at \in {"book", "count", "tag", "outcome"}) =>
          CountDue' = 0 /\ RowDue' = 0 /\ TagDue' = 0 /\ OutcomeDue' = 0
    /\ ~scan'.neutral => TagDue' = 0 /\ OutcomeDue' = 0
    /\ scan'.at = "book" => CountDue' = 1 /\ RowDue' = 1
    /\ scan'.at = "count" => CountDue' = 1 /\ RowDue' = 0
    /\ scan'.at \in {"tag", "outcome"} => CountDue' = 0 /\ RowDue' = 0
    /\ scan'.at \in {"book", "count", "tag"} /\ scan'.neutral => TagDue' = 1 /\ OutcomeDue' = 1
    /\ scan'.at = "outcome" /\ scan'.neutral => TagDue' = 0 /\ OutcomeDue' = 1
BY DEF CountDue, RowDue, TagDue, OutcomeDue, Due

PartsKept == DayRecords' /\ NeutralRecords' /\ DayPaced' /\ NeutralPaced'

\* Steps that count nothing
LEMMA OthersPaced ==
    ASSUME PaceInv, TypeOK',
           \/ Start \/ Refuse \/ PreTrade \/ PreTradeFails \/ Heal
           \/ HealerLooks \/ HealerFixes \/ UNCHANGED vars
    PROVE  PartsKept
<1>0. TypeOK /\ DayRecords /\ NeutralRecords /\ DayPaced /\ NeutralPaced
  BY DEF PaceInv
<1>1. /\ hist'.taken = hist.taken /\ hist'.slips = hist.slips
      /\ hist'.pace = hist.pace /\ hist'.misses = hist.misses
  <2>1. hist \in Histories
    BY <1>0 DEF TypeOK
  <2>2. /\ Healed(hist).taken = hist.taken /\ Healed(hist).slips = hist.slips
        /\ Healed(hist).pace = hist.pace /\ Healed(hist).misses = hist.misses
    BY <2>1 DEF Healed, Histories
  <2>3. ASSUME NEW v
        PROVE  /\ Read(hist, v).taken = hist.taken /\ Read(hist, v).slips = hist.slips
               /\ Read(hist, v).pace = hist.pace /\ Read(hist, v).misses = hist.misses
    <3> DEFINE o == IF hist.opening = 0 THEN v ELSE hist.opening
               f == IF Lost(o, v, 2) THEN TRUE ELSE hist.fell /\ v <= o
               t == IF Lost(o, v, 3) THEN DayLen ELSE hist.halt
               h == [hist EXCEPT !.opening = o, !.fell = f, !.halt = t]
    <3>1. Read(hist, v) = h
      BY Zenon DEF Read
    <3> HIDE DEF o, f, t
    <3>2. h.taken = hist.taken /\ h.slips = hist.slips /\ h.pace = hist.pace /\ h.misses = hist.misses
      BY <2>1 DEF Histories
    <3> QED
      BY <3>1, <3>2
  <2>4. hist' = hist \/ hist' = Healed(hist) \/ \E v : hist' = Read(hist, v)
    BY DEF Start, Refuse, PreTrade, PreTradeFails, Heal, HealerLooks, HealerFixes, vars
  <2> QED
    BY <2>2, <2>3, <2>4
<1>2. gov' = gov /\ books' = books
  BY DEF Start, Refuse, PreTrade, PreTradeFails, Heal, HealerLooks, HealerFixes, vars
<1>3. \/ scan' = scan
      \/ /\ ~(scan.at \in {"book", "count", "tag", "outcome"})
         /\ ~(scan'.at \in {"book", "count", "tag", "outcome"})
         /\ \/ ~(scan'.at \in {"check", "heal", "buy"})
            \/ scan.at \in {"check", "heal", "buy"} /\ scan'.neutral = scan.neutral
  <2>1. CASE Start
    BY <2>1 DEF Start, At, Idle
  <2>2. CASE Refuse \/ Heal
    BY <2>2, <1>0, ScanMoves DEF Refuse, Heal, At
  <2>3. CASE PreTrade \/ PreTradeFails
    <3>1. At("check") /\ (Go("heal") \/ Go("buy"))
      BY <2>3 DEF PreTrade, PreTradeFails
    <3>2. "heal" \in Steps /\ "buy" \in Steps
      BY DEF Steps
    <3>3. scan'.at \in {"heal", "buy"} /\ scan'.neutral = scan.neutral
      BY <3>1, <3>2, <1>0, ScanMoves DEF Go
    <3> QED
      BY <3>1, <3>3 DEF At
  <2>4. CASE HealerLooks \/ HealerFixes \/ UNCHANGED vars
    BY <2>4 DEF HealerLooks, HealerFixes, vars
  <2> QED
    BY <2>1, <2>2, <2>3, <2>4
<1>4. CountDue' = CountDue /\ RowDue' = RowDue /\ TagDue' = TagDue /\ OutcomeDue' = OutcomeDue
  <2>1. CASE scan' = scan
    BY <2>1 DEF CountDue, RowDue, TagDue, OutcomeDue, Due
  <2>2. CASE scan' # scan
    BY <2>2, <1>3, DueAt, DueNext
  <2> QED
    BY <2>1, <2>2
<1>5. DayRecords' /\ NeutralRecords'
  BY <1>0, <1>1, <1>2, <1>4 DEF DayRecords, NeutralRecords
<1>6. Admitted' => Admitted /\ scan'.neutral = scan.neutral
  BY <1>3 DEF Admitted
<1>7. DayPaced' /\ NeutralPaced'
  BY <1>0, <1>1, <1>6 DEF DayPaced, NeutralPaced
<1> QED
  BY <1>5, <1>7 DEF PartsKept

\* A row of another purchase only adds to the rows.
LEMMA OtherBuyPaced ==
    ASSUME PaceInv, TypeOK', OtherBuy
    PROVE  PartsKept
<1>0. TypeOK /\ DayRecords /\ NeutralRecords /\ DayPaced /\ NeutralPaced
  BY DEF PaceInv
<1>1. /\ hist' = hist /\ gov' = gov /\ scan' = scan
      /\ books'.buys = books.buys + 1 /\ books'.outcomes = books.outcomes
  BY <1>0 DEF OtherBuy, TypeOK
<1>2. CountDue' = CountDue /\ RowDue' = RowDue /\ TagDue' = TagDue /\ OutcomeDue' = OutcomeDue
  BY <1>1 DEF CountDue, RowDue, TagDue, OutcomeDue, Due
<1>3. /\ hist.taken \in Nat /\ hist.slips \in Nat /\ gov.count \in Nat /\ books.buys \in Nat
      /\ CountDue \in 0 .. 1 /\ RowDue \in 0 .. 1
  BY <1>0, Counts
<1>4. DayRecords'
  BY <1>0, <1>1, <1>2, <1>3 DEF DayRecords, TwiceKept
<1>5. NeutralRecords' /\ DayPaced' /\ NeutralPaced'
  BY <1>0, <1>1, <1>2 DEF NeutralRecords, DayPaced, NeutralPaced, Admitted
<1> QED
  BY <1>4, <1>5 DEF PartsKept

\* A step that writes or loses records: what the two counts of the day and the
\* two of the window gain over the entries, losses included, and the losses.
Wrote(one, two, tag, outcome, n, m) ==
    /\ n \in Nat /\ m \in Nat /\ one \in Int /\ two \in Int /\ tag \in Int /\ outcome \in Int
    /\ TwiceKept(0, one, two, n) /\ TwiceKept(0, tag, outcome, m)
    /\ hist'.taken = hist.taken /\ hist'.pace = hist.pace
    /\ hist'.slips = hist.slips + n
    /\ gov'.count + CountDue' = (gov.count + CountDue) + one
    /\ books'.buys + RowDue' = (books.buys + RowDue) + two
    /\ \A k \in Ages :
          /\ Upto(hist'.misses, k) = Upto(hist.misses, k) + m
          /\ Upto(gov'.tags, k) + TagDue' = (Upto(gov.tags, k) + TagDue) + tag
          /\ Upto(books'.outcomes, k) + OutcomeDue' = (Upto(books.outcomes, k) + OutcomeDue) + outcome

\* Writes that are lost, each counted, keep the pairs of records ...
LEMMA WroteRecords ==
    ASSUME PaceInv,
           NEW n, NEW m, NEW one, NEW two, NEW tag, NEW outcome,
           Wrote(one, two, tag, outcome, n, m)
    PROVE  DayRecords' /\ NeutralRecords'
<1>0. TypeOK /\ DayRecords /\ NeutralRecords /\ DayPaced /\ NeutralPaced
  BY DEF PaceInv
<1>1. /\ hist.taken \in Nat /\ hist.slips \in Nat
      /\ \A k \in Ages : Upto(hist.pace, k) \in Nat /\ Upto(hist.misses, k) \in Nat
  BY <1>0, Counts
<1>2. /\ hist'.taken = hist.taken + 0
      /\ \A k \in Ages : Upto(hist'.pace, k) = Upto(hist.pace, k) + 0
  BY <1>1 DEF Wrote
<1>3. DayRecords' /\ NeutralRecords'
  <2>1. /\ n \in Nat /\ m \in Nat /\ one \in Int /\ two \in Int /\ tag \in Int /\ outcome \in Int
        /\ TwiceKept(0, one, two, n) /\ TwiceKept(0, tag, outcome, m)
        /\ hist'.slips = hist.slips + n
        /\ gov'.count + CountDue' = (gov.count + CountDue) + one
        /\ books'.buys + RowDue' = (books.buys + RowDue) + two
        /\ \A k \in Ages :
              /\ Upto(hist'.misses, k) = Upto(hist.misses, k) + m
              /\ Upto(gov'.tags, k) + TagDue' = (Upto(gov.tags, k) + TagDue) + tag
              /\ Upto(books'.outcomes, k) + OutcomeDue'
                   = (Upto(books.outcomes, k) + OutcomeDue) + outcome
    BY DEF Wrote
  <2>2. 0 \in Nat
    OBVIOUS
  <2> QED
    BY <1>0, <1>2, <2>1, <2>2, RecordsMove
<1> QED
  BY <1>3

\* ... and, when they let nobody past the gate, the pace.
LEMMA WrotePaced ==
    ASSUME PaceInv, TypeOK', ~Admitted',
           NEW n, NEW m, NEW one, NEW two, NEW tag, NEW outcome,
           Wrote(one, two, tag, outcome, n, m)
    PROVE  PartsKept
<1>1. TypeOK /\ DayPaced /\ NeutralPaced
  BY DEF PaceInv
<1>2. /\ hist.slips \in Nat /\ n \in Nat /\ m \in Nat
      /\ \A k \in Ages : Upto(hist.misses, k) \in Nat
  BY <1>1, Counts DEF Wrote
<1>3. hist'.slips >= hist.slips /\ \A k \in Ages : Upto(hist'.misses, k) >= Upto(hist.misses, k)
  BY <1>2 DEF Wrote
<1>4. DayPaced' /\ NeutralPaced'
  BY <1>1, <1>3, PacedKept DEF Wrote
<1>5. DayRecords' /\ NeutralRecords'
  BY WroteRecords
<1> QED
  BY <1>4, <1>5 DEF PartsKept

\* The trades row of the entry
LEMMA BookPaced ==
    ASSUME PaceInv, TypeOK', Book
    PROVE  PartsKept
<1>0. TypeOK
  BY DEF PaceInv
<1>1. scan.at = "book" /\ scan'.at = "count" /\ scan'.neutral = scan.neutral
  BY <1>0, ScanMoves DEF Book, Records, At, Steps
<1>2. /\ CountDue = 1 /\ RowDue = 1 /\ CountDue' = 1 /\ RowDue' = 0
      /\ TagDue' = TagDue /\ OutcomeDue' = OutcomeDue
  BY <1>0, <1>1, DueAt, DueNext
<1>3. /\ hist.slips \in Nat /\ gov.count \in Nat /\ books.buys \in Nat
      /\ TagDue \in 0 .. 1 /\ OutcomeDue \in 0 .. 1
      /\ \A k \in Ages : /\ Upto(hist.misses, k) \in Nat /\ Upto(gov.tags, k) \in Nat
                         /\ Upto(books.outcomes, k) \in Nat
  BY <1>0, Counts
<1>4. gov' = gov /\ ~Admitted'
  BY <1>1 DEF Book, Admitted
<1>5. CASE books' = [books EXCEPT !.buys = @ + 1] /\ UNCHANGED <<troubles, hist>>
  <2>1. books'.buys = books.buys + 1 /\ books'.outcomes = books.outcomes
    BY <1>0, <1>5 DEF TypeOK
  <2>2. Wrote(0, 0, 0, 0, 0, 0)
    BY <1>2, <1>3, <1>4, <1>5, <2>1 DEF Wrote, TwiceKept
  <2> QED
    BY <1>4, <2>2, WrotePaced
<1>6. CASE hist' = Missed(hist, 1, 0) /\ UNCHANGED books
  <2>1. /\ hist'.taken = hist.taken /\ hist'.pace = hist.pace /\ hist'.slips = hist.slips + 1
        /\ \A k \in Ages : Upto(hist'.misses, k) = Upto(hist.misses, k) + 0
    BY <1>0, <1>6, MissedCounts
  <2>2. Wrote(0, -1, 0, 0, 1, 0)
    BY <1>2, <1>3, <1>4, <1>6, <2>1 DEF Wrote, TwiceKept
  <2> QED
    BY <1>4, <2>2, WrotePaced
<1> QED
  BY <1>5, <1>6 DEF Book

\* The counter of the day
LEMMA CountPaced ==
    ASSUME PaceInv, TypeOK', Count
    PROVE  PartsKept
<1>0. TypeOK
  BY DEF PaceInv
<1>1. /\ scan.at = "count" /\ scan'.at = (IF scan.neutral THEN "tag" ELSE "outcome")
      /\ scan'.neutral = scan.neutral
  BY <1>0, ScanMoves DEF Count, Records, At, Steps
<1>2. /\ CountDue = 1 /\ RowDue = 0 /\ CountDue' = 0 /\ RowDue' = 0
      /\ TagDue' = TagDue /\ OutcomeDue' = OutcomeDue
  BY <1>0, <1>1, DueAt, DueNext
<1>3. /\ hist.slips \in Nat /\ gov.count \in Nat /\ books.buys \in Nat
      /\ TagDue \in 0 .. 1 /\ OutcomeDue \in 0 .. 1
      /\ \A k \in Ages : /\ Upto(hist.misses, k) \in Nat /\ Upto(gov.tags, k) \in Nat
                         /\ Upto(books.outcomes, k) \in Nat
  BY <1>0, Counts
<1>4. books' = books /\ ~Admitted'
  BY <1>1 DEF Count, Admitted
<1>5. CASE gov' = [gov EXCEPT !.count = @ + 1] /\ UNCHANGED <<troubles, hist>>
  <2>1. gov'.count = gov.count + 1 /\ gov'.tags = gov.tags
    BY <1>0, <1>5 DEF TypeOK
  <2>2. Wrote(0, 0, 0, 0, 0, 0)
    BY <1>2, <1>3, <1>4, <1>5, <2>1 DEF Wrote, TwiceKept
  <2> QED
    BY <1>4, <2>2, WrotePaced
<1>6. CASE hist' = Missed(hist, 1, 0) /\ UNCHANGED gov
  <2>1. /\ hist'.taken = hist.taken /\ hist'.pace = hist.pace /\ hist'.slips = hist.slips + 1
        /\ \A k \in Ages : Upto(hist'.misses, k) = Upto(hist.misses, k) + 0
    BY <1>0, <1>6, MissedCounts
  <2>2. Wrote(-1, 0, 0, 0, 1, 0)
    BY <1>2, <1>3, <1>4, <1>6, <2>1 DEF Wrote, TwiceKept
  <2> QED
    BY <1>4, <2>2, WrotePaced
<1> QED
  BY <1>5, <1>6 DEF Count

\* The tag of a NEUTRAL entry
LEMMA TagPaced ==
    ASSUME PaceInv, TypeOK', Tag
    PROVE  PartsKept
<1>0. TypeOK /\ gov.tags \in Windows
  BY Counts DEF PaceInv
<1> DEFINE due == IF scan.neutral THEN 1 ELSE 0
<1>1. scan.at = "tag" /\ scan'.at = "outcome" /\ scan'.neutral = scan.neutral
  BY <1>0, ScanMoves DEF Tag, Records, At, Steps
<1>2. /\ CountDue = 0 /\ RowDue = 0 /\ CountDue' = 0 /\ RowDue' = 0
      /\ TagDue = due /\ TagDue' = 0 /\ OutcomeDue' = OutcomeDue
  <2>1. scan.neutral \in BOOLEAN
    BY <1>0, Counts
  <2> QED
    BY <1>1, <2>1, DueAt, DueNext
<1>3. /\ hist.slips \in Nat /\ gov.count \in Nat /\ books.buys \in Nat
      /\ due \in 0 .. 1 /\ OutcomeDue \in 0 .. 1
      /\ \A k \in Ages : /\ Upto(hist.misses, k) \in Nat /\ Upto(gov.tags, k) \in Nat
                         /\ Upto(books.outcomes, k) \in Nat
  BY <1>0, Counts
<1>4. books' = books /\ ~Admitted'
  BY <1>1 DEF Tag, Admitted
<1>5. CASE gov' = [gov EXCEPT !.tags = OneMore(@)] /\ UNCHANGED <<troubles, hist>>
  <2>1. gov'.count = gov.count /\ gov'.tags = OneMore(gov.tags)
    BY <1>0, <1>5 DEF TypeOK
  <2>2. \A k \in Ages : Upto(gov'.tags, k) = Upto(gov.tags, k) + 1
    BY <1>0, <2>1, UptoMore DEF OneMore
  <2> DEFINE g == 1 - due
  <2>3. g \in Int /\ \A k \in Ages : Upto(gov'.tags, k) + 0 = (Upto(gov.tags, k) + due) + g
    BY <1>3, <2>2
  <2>4. TwiceKept(0, 0, 0, 0) /\ TwiceKept(0, g, 0, 0)
    BY <1>3 DEF TwiceKept
  <2> HIDE DEF g, due
  <2>5. Wrote(0, 0, g, 0, 0, 0)
    BY <1>2, <1>3, <1>4, <1>5, <2>1, <2>3, <2>4 DEF Wrote
  <2> QED
    BY <1>4, <2>5, WrotePaced
<1>6. CASE hist' = Missed(hist, 0, 1) /\ UNCHANGED gov
  <2>1. /\ hist'.taken = hist.taken /\ hist'.pace = hist.pace /\ hist'.slips = hist.slips + 0
        /\ \A k \in Ages : Upto(hist'.misses, k) = Upto(hist.misses, k) + due
    BY <1>0, <1>6, MissedCounts
  <2> DEFINE g == 0 - due
  <2>2. g \in Int /\ \A k \in Ages : Upto(gov.tags, k) + 0 = (Upto(gov.tags, k) + due) + g
    BY <1>3
  <2>3. TwiceKept(0, 0, 0, 0) /\ TwiceKept(0, g, 0, due)
    BY <1>3 DEF TwiceKept
  <2> HIDE DEF g, due
  <2>4. Wrote(0, 0, g, 0, 0, due)
    BY <1>2, <1>3, <1>4, <1>6, <2>1, <2>2, <2>3 DEF Wrote
  <2> QED
    BY <1>4, <2>4, WrotePaced
<1> QED
  BY <1>5, <1>6 DEF Tag

\* The outcome row of the entry
LEMMA OutcomePaced ==
    ASSUME PaceInv, TypeOK', Outcome
    PROVE  PartsKept
<1>0. TypeOK /\ books.outcomes \in Windows
  BY Counts DEF PaceInv
<1> DEFINE due == IF scan.neutral THEN 1 ELSE 0
<1>1. scan.at = "outcome" /\ scan'.at = "idle"
  BY <1>0, ScanMoves DEF Outcome, Records, At
<1>2. /\ CountDue = 0 /\ RowDue = 0 /\ CountDue' = 0 /\ RowDue' = 0
      /\ TagDue = 0 /\ TagDue' = 0 /\ OutcomeDue = due /\ OutcomeDue' = 0
  <2>1. scan.neutral \in BOOLEAN
    BY <1>0, Counts
  <2> QED
    BY <1>1, <2>1, DueAt, DueNext
<1>3. /\ hist.slips \in Nat /\ gov.count \in Nat /\ books.buys \in Nat /\ due \in 0 .. 1
      /\ \A k \in Ages : /\ Upto(hist.misses, k) \in Nat /\ Upto(gov.tags, k) \in Nat
                         /\ Upto(books.outcomes, k) \in Nat
  BY <1>0, Counts
<1>4. gov' = gov /\ ~Admitted'
  BY <1>1 DEF Outcome, Admitted
<1> DEFINE w == IF scan.neutral THEN OneMore(books.outcomes) ELSE books.outcomes
<1>5. CASE books' = [books EXCEPT !.outcomes = w] /\ UNCHANGED <<troubles, hist>>
  <2>1. books'.buys = books.buys /\ books'.outcomes = w
    <3> HIDE DEF w
    <3> QED
      BY <1>0, <1>5 DEF TypeOK
  <2>2. \A k \in Ages : Upto(w, k) = Upto(books.outcomes, k) + due
    <3>1. \A k \in Ages : Upto(OneMore(books.outcomes), k) = Upto(books.outcomes, k) + 1
      BY <1>0, UptoMore DEF OneMore
    <3>2. CASE scan.neutral
      BY <3>1, <3>2
    <3>3. CASE ~scan.neutral
      BY <1>3, <3>3
    <3> QED
      BY <3>2, <3>3
  <2>3. TwiceKept(0, 0, 0, 0)
    BY DEF TwiceKept
  <2> HIDE DEF due, w
  <2>4. Wrote(0, 0, 0, 0, 0, 0)
    BY <1>2, <1>3, <1>4, <1>5, <2>1, <2>2, <2>3 DEF Wrote
  <2> QED
    BY <1>4, <2>4, WrotePaced
<1>6. CASE hist' = Missed(hist, 0, 1) /\ UNCHANGED books
  <2>1. /\ hist'.taken = hist.taken /\ hist'.pace = hist.pace /\ hist'.slips = hist.slips + 0
        /\ \A k \in Ages : Upto(hist'.misses, k) = Upto(hist.misses, k) + due
    BY <1>0, <1>6, MissedCounts
  <2> DEFINE o == 0 - due
  <2>2. o \in Int /\ \A k \in Ages : Upto(books.outcomes, k) + 0 = (Upto(books.outcomes, k) + due) + o
    BY <1>3
  <2>3. TwiceKept(0, 0, 0, 0) /\ TwiceKept(0, 0, o, due)
    BY <1>3 DEF TwiceKept
  <2> HIDE DEF o, due
  <2>4. Wrote(0, 0, 0, o, 0, due)
    BY <1>2, <1>3, <1>4, <1>6, <2>1, <2>2, <2>3 DEF Wrote
  <2> QED
    BY <1>4, <2>4, WrotePaced
<1> QED
  BY <1>5, <1>6 DEF Outcome

\* The process ends with records still to write.
LEMMA DiePaced ==
    ASSUME PaceInv, TypeOK', Die
    PROVE  PartsKept
<1>0. TypeOK
  BY DEF PaceInv
<1> DEFINE due == IF scan.neutral THEN 1 ELSE 0
<1>1. scan'.at = "idle" /\ gov' = gov /\ books' = books /\ ~Admitted'
  BY <1>0, ScanMoves DEF Die, Admitted
<1>2. CountDue' = 0 /\ RowDue' = 0 /\ TagDue' = 0 /\ OutcomeDue' = 0
  BY <1>1, DueNext
<1>3. /\ hist.slips \in Nat /\ gov.count \in Nat /\ books.buys \in Nat
      /\ CountDue \in 0 .. 1 /\ RowDue \in 0 .. 1 /\ TagDue \in 0 .. 1 /\ OutcomeDue \in 0 .. 1
      /\ scan.neutral \in BOOLEAN
      /\ \A k \in Ages : /\ Upto(hist.misses, k) \in Nat /\ Upto(gov.tags, k) \in Nat
                         /\ Upto(books.outcomes, k) \in Nat
  BY <1>0, Counts
<1> DEFINE Lose(n, m) ==
             /\ hist'.taken = hist.taken /\ hist'.pace = hist.pace /\ hist'.slips = hist.slips + n
             /\ \A k \in Ages : Upto(hist'.misses, k) = Upto(hist.misses, k) + m
<1>4. \E n \in Nat, m \in Nat :
         Lose(n, m) /\ CountDue + RowDue <= n /\ TagDue + OutcomeDue <= m
  <2>0. \A n \in Nat, m \in Nat : hist' = Missed(hist, n, m) => Lose(n, IF scan.neutral THEN m ELSE 0)
    BY <1>0, MissedCounts
  <2>1. CASE At("book")
    <3>1. hist' = Missed(hist, 2, 2)
      BY <2>1 DEF Die, At
    <3>2. CountDue + RowDue <= 2 /\ TagDue + OutcomeDue <= IF scan.neutral THEN 2 ELSE 0
      BY <2>1, <1>3, DueAt DEF At
    <3>3. Lose(2, IF scan.neutral THEN 2 ELSE 0)
      BY <2>0, <3>1
    <3> HIDE DEF Lose
    <3> QED
      BY <3>2, <3>3
  <2>2. CASE At("count")
    <3>1. hist' = Missed(hist, 1, 2)
      BY <2>2 DEF Die, At
    <3>2. CountDue + RowDue <= 1 /\ TagDue + OutcomeDue <= IF scan.neutral THEN 2 ELSE 0
      BY <2>2, <1>3, DueAt DEF At
    <3>3. Lose(1, IF scan.neutral THEN 2 ELSE 0)
      BY <2>0, <3>1
    <3> HIDE DEF Lose
    <3> QED
      BY <3>2, <3>3
  <2>3. CASE At("tag")
    <3>1. hist' = Missed(hist, 0, 2)
      BY <2>3 DEF Die, At
    <3>2. CountDue + RowDue <= 0 /\ TagDue + OutcomeDue <= IF scan.neutral THEN 2 ELSE 0
      BY <2>3, <1>3, DueAt DEF At
    <3>3. Lose(0, IF scan.neutral THEN 2 ELSE 0)
      BY <2>0, <3>1
    <3> HIDE DEF Lose
    <3> QED
      BY <3>2, <3>3
  <2>4. CASE At("outcome")
    <3>1. hist' = Missed(hist, 0, 1)
      BY <2>4 DEF Die, At
    <3>2. CountDue + RowDue <= 0 /\ TagDue + OutcomeDue <= IF scan.neutral THEN 1 ELSE 0
      BY <2>4, <1>3, DueAt DEF At
    <3>3. Lose(0, IF scan.neutral THEN 1 ELSE 0)
      BY <2>0, <3>1
    <3> HIDE DEF Lose
    <3> QED
      BY <3>2, <3>3
  <2>5. CASE ~(At("book") \/ At("count") \/ At("tag") \/ At("outcome"))
    <3>1. hist' = hist
      BY <2>5 DEF Die
    <3>2. CountDue + RowDue <= 0 /\ TagDue + OutcomeDue <= 0
      BY <2>5, DueAt DEF At
    <3>3. Lose(0, 0)
      BY <1>3, <3>1
    <3> HIDE DEF Lose
    <3> QED
      BY <3>2, <3>3
  <2> QED
    BY <2>1, <2>2, <2>3, <2>4, <2>5
<1>5. PICK n \in Nat, m \in Nat :
         Lose(n, m) /\ CountDue + RowDue <= n /\ TagDue + OutcomeDue <= m
  BY <1>4
<1> DEFINE c == 0 - CountDue
           b == 0 - RowDue
           g == 0 - TagDue
           o == 0 - OutcomeDue
<1>6. c \in Int /\ b \in Int /\ g \in Int /\ o \in Int
  BY <1>3
<1>7. TwiceKept(0, c, b, n) /\ TwiceKept(0, g, o, m)
  BY <1>3, <1>5 DEF TwiceKept
<1>8. Wrote(c, b, g, o, n, m)
  <2>1. /\ gov.count + 0 = (gov.count + CountDue) + c
        /\ books.buys + 0 = (books.buys + RowDue) + b
        /\ \A k \in Ages : /\ Upto(gov.tags, k) + 0 = (Upto(gov.tags, k) + TagDue) + g
                           /\ Upto(books.outcomes, k) + 0
                                = (Upto(books.outcomes, k) + OutcomeDue) + o
    BY <1>3
  <2> HIDE DEF c, b, g, o
  <2> QED
    BY <1>1, <1>2, <1>5, <1>6, <1>7, <2>1 DEF Wrote
<1> HIDE DEF c, b, g, o, Lose
<1> QED
  BY <1>1, <1>8, WrotePaced

LEMMA MaxOfTwo ==
    ASSUME NEW x \in Nat, NEW y \in Nat
    PROVE  x <= Max({x, y}) /\ y <= Max({x, y}) /\ Max({x, y}) \in Nat
<1>1. \E z \in {x, y} : \A u \in {x, y} : z >= u
  OBVIOUS
<1>2. Max({x, y}) \in {x, y} /\ \A u \in {x, y} : Max({x, y}) >= u
  BY <1>1 DEF Max
<1> QED
  BY <1>2

\* The gate lets a scan through only if each count it reads is under the cap.
LEMMA AllowedCounts ==
    ASSUME TypeOK, NEW rows \in BOOLEAN, Allowed(rows)
    PROVE  /\ gov.count < EntryCap
           /\ rows => books.buys < EntryCap
           /\ scan.neutral => /\ Total(gov.tags) < NeutralCap
                              /\ rows => Total(books.outcomes) < NeutralCap
<1>1. /\ gov.count \in Nat /\ books.buys \in Nat /\ EntryCap \in Nat /\ NeutralCap \in Nat
      /\ gov.tags \in Windows /\ books.outcomes \in Windows
  BY Counts
<1>2. Total(gov.tags) \in Nat /\ Total(books.outcomes) \in Nat
  BY <1>1, UptoTotal, UptoNat
<1>3. SeenToday(rows) < EntryCap /\ (scan.neutral => SeenNeutral(rows) < NeutralCap)
  BY DEF Allowed
<1> DEFINE b == IF rows THEN books.buys ELSE 0
           o == IF rows THEN Total(books.outcomes) ELSE 0
<1>4. b \in Nat /\ o \in Nat
  BY <1>1, <1>2
<1>5. SeenToday(rows) = Max({gov.count, b}) /\ SeenNeutral(rows) = Max({Total(gov.tags), o})
  BY Zenon DEF SeenToday, SeenNeutral
<1> HIDE DEF b, o
<1>6. /\ gov.count <= SeenToday(rows) /\ b <= SeenToday(rows) /\ SeenToday(rows) \in Nat
      /\ Total(gov.tags) <= SeenNeutral(rows) /\ o <= SeenNeutral(rows) /\ SeenNeutral(rows) \in Nat
  BY <1>1, <1>2, <1>4, <1>5, MaxOfTwo
<1>7. gov.count < EntryCap /\ b < EntryCap
  BY <1>1, <1>3, <1>4, <1>6
<1>8. scan.neutral => Total(gov.tags) < NeutralCap /\ o < NeutralCap
  BY <1>1, <1>2, <1>3, <1>4, <1>6
<1> QED
  BY <1>7, <1>8 DEF b, o

\* A scan that passes the gate, with the records read or not
LEMMA GatePaced ==
    ASSUME PaceInv, TypeOK', Gate
    PROVE  PartsKept
<1>0. TypeOK /\ DayRecords /\ NeutralRecords /\ DayPaced /\ NeutralPaced
  BY DEF PaceInv
<1>1. PICK rows \in BOOLEAN :
        /\ IF rows THEN UNCHANGED <<troubles, hist>>
           ELSE Trouble /\ hist' = Missed(hist, 1, 1)
        /\ IF Allowed(rows) THEN Go("check") ELSE scan' = Idle
  BY DEF Gate
<1>2. scan.at = "gate" /\ gov' = gov /\ books' = books
  BY DEF Gate, At
<1> DEFINE lost == IF rows THEN 0 ELSE 1
           missed == IF rows \/ ~scan.neutral THEN 0 ELSE 1
<1>3. /\ hist.taken \in Nat /\ hist.slips \in Nat /\ gov.count \in Nat /\ books.buys \in Nat
      /\ gov.tags \in Windows /\ books.outcomes \in Windows
      /\ \A k \in Ages : /\ Upto(hist.pace, k) \in Nat /\ Upto(hist.misses, k) \in Nat
                         /\ Upto(gov.tags, k) \in Nat /\ Upto(books.outcomes, k) \in Nat
      /\ scan.neutral \in BOOLEAN /\ EntryCap \in Nat /\ NeutralCap \in Nat
  BY <1>0, Counts
<1>4. /\ hist'.taken = hist.taken /\ hist'.pace = hist.pace /\ hist'.slips = hist.slips + lost
      /\ \A k \in Ages : Upto(hist'.misses, k) = Upto(hist.misses, k) + missed
  <2>1. CASE rows
    <3>1. hist' = hist
      BY <1>1, <2>1
    <3> QED
      BY <1>3, <2>1, <3>1
  <2>2. CASE ~rows
    <3>1. hist' = Missed(hist, 1, 1)
      BY <1>1, <2>2
    <3>2. /\ hist'.taken = hist.taken /\ hist'.pace = hist.pace /\ hist'.slips = hist.slips + 1
          /\ \A k \in Ages : Upto(hist'.misses, k)
                               = Upto(hist.misses, k) + (IF scan.neutral THEN 1 ELSE 0)
      BY <1>0, <3>1, MissedCounts
    <3>3. lost = 1 /\ missed = IF scan.neutral THEN 1 ELSE 0
      BY <2>2
    <3> HIDE DEF lost, missed
    <3> QED
      BY <3>2, <3>3
  <2> QED
    BY <2>1, <2>2
<1>5. \/ scan'.at = "idle"
      \/ Allowed(rows) /\ scan'.at = "check" /\ scan'.neutral = scan.neutral
  <2>1. "check" \in Steps
    BY DEF Steps
  <2> QED
    BY <1>0, <1>1, <2>1, ScanMoves DEF Go
<1>6. /\ CountDue = 0 /\ RowDue = 0 /\ TagDue = 0 /\ OutcomeDue = 0
      /\ CountDue' = 0 /\ RowDue' = 0 /\ TagDue' = 0 /\ OutcomeDue' = 0
  BY <1>2, <1>5, DueAt, DueNext
<1>7. lost \in 0 .. 1 /\ missed \in 0 .. 1 /\ (rows => lost = 0) /\ (~rows => lost = 1)
  OBVIOUS
<1>8. (~rows /\ scan.neutral => missed = 1) /\ (rows => missed = 0)
  OBVIOUS
<1> HIDE DEF lost, missed
<1>9. DayRecords' /\ NeutralRecords'
  <2>1. Wrote(0, 0, 0, 0, lost, missed)
    BY <1>2, <1>3, <1>4, <1>6, <1>7 DEF Wrote, TwiceKept
  <2> QED
    BY <2>1, WroteRecords
<1>10. CASE scan'.at = "idle"
  <2>1. ~Admitted'
    BY <1>10 DEF Admitted
  <2>2. hist'.slips >= hist.slips /\ \A k \in Ages : Upto(hist'.misses, k) >= Upto(hist.misses, k)
    BY <1>3, <1>4, <1>7
  <2> QED
    BY <1>0, <1>4, <1>9, <2>1, <2>2, PacedKept DEF PartsKept
<1>11. CASE Allowed(rows) /\ scan'.at = "check" /\ scan'.neutral = scan.neutral
  <2>1. /\ gov.count < EntryCap
        /\ rows => books.buys < EntryCap
        /\ scan.neutral => /\ Total(gov.tags) < NeutralCap
                           /\ rows => Total(books.outcomes) < NeutralCap
    BY <1>0, <1>11, AllowedCounts
  <2>2. hist'.slips <= 1 => hist'.taken < EntryCap
    <3>1. TwiceKept(hist.taken, gov.count + 0, books.buys + 0, hist.slips)
      BY <1>0, <1>6 DEF DayRecords
    <3>2. CASE rows
      BY <1>3, <1>4, <1>7, <2>1, <3>1, <3>2 DEF TwiceKept
    <3>3. CASE ~rows
      BY <1>3, <1>4, <1>7, <2>1, <3>1, <3>3 DEF TwiceKept
    <3> QED
      BY <3>2, <3>3
  <2>3. DayPaced'
    BY <1>3, <1>4, <2>2 DEF DayPaced
  <2>4. ASSUME NEW k \in Ages, Upto(hist'.misses, k) <= 1, scan.neutral
        PROVE  Upto(hist.pace, k) < NeutralCap
    <3>1. TwiceKept(Upto(hist.pace, k), Upto(gov.tags, k) + 0, Upto(books.outcomes, k) + 0,
                    Upto(hist.misses, k))
      BY <1>0, <1>6 DEF NeutralRecords
    <3>2. /\ Upto(gov.tags, k) <= Total(gov.tags) /\ Upto(books.outcomes, k) <= Total(books.outcomes)
          /\ Total(gov.tags) \in Nat /\ Total(books.outcomes) \in Nat
      BY <1>3, UptoTotal, UptoNat
    <3>3. Upto(gov.tags, k) < NeutralCap /\ (rows => Upto(books.outcomes, k) < NeutralCap)
      BY <1>3, <2>1, <2>4, <3>2
    <3>4. CASE rows
      BY <1>3, <1>4, <1>8, <2>4, <3>1, <3>3, <3>4 DEF TwiceKept
    <3>5. CASE ~rows
      BY <1>3, <1>4, <1>8, <2>4, <3>1, <3>3, <3>5 DEF TwiceKept
    <3> QED
      BY <3>4, <3>5
  <2>5. NeutralPaced'
    <3> SUFFICES ASSUME NEW k \in Ages, Upto(hist'.misses, k) <= 1
                 PROVE  /\ Upto(hist'.pace, k) <= NeutralCap
                        /\ Admitted' /\ scan'.neutral => Upto(hist'.pace, k) < NeutralCap
      BY DEF NeutralPaced
    <3>1. Upto(hist.misses, k) <= 1
      BY <1>3, <1>4, <1>7
    <3>2. Upto(hist.pace, k) <= NeutralCap
      BY <1>0, <3>1 DEF NeutralPaced
    <3> QED
      BY <1>4, <1>11, <2>4, <3>2
  <2> QED
    BY <1>9, <2>3, <2>5 DEF PartsKept
<1> QED
  BY <1>5, <1>10, <1>11

\* A gate that fails open counts as two losses at once.
LEMMA GateFailsPaced ==
    ASSUME PaceInv, TypeOK', GateFails
    PROVE  PartsKept
<1>0. TypeOK
  BY DEF PaceInv
<1> DEFINE missed == IF scan.neutral THEN 2 ELSE 0
<1>1. scan.at = "gate" /\ gov' = gov /\ books' = books /\ hist' = Missed(hist, 2, 2)
  BY DEF GateFails, At
<1>2. scan'.at = "check" /\ scan'.neutral = scan.neutral
  <2>1. "check" \in Steps
    BY DEF Steps
  <2> QED
    BY <1>0, <2>1, ScanMoves DEF GateFails, Go
<1>3. /\ hist.slips \in Nat /\ gov.count \in Nat /\ books.buys \in Nat
      /\ \A k \in Ages : /\ Upto(hist.misses, k) \in Nat /\ Upto(gov.tags, k) \in Nat
                         /\ Upto(books.outcomes, k) \in Nat
      /\ scan.neutral \in BOOLEAN
  BY <1>0, Counts
<1>4. /\ hist'.taken = hist.taken /\ hist'.pace = hist.pace /\ hist'.slips = hist.slips + 2
      /\ \A k \in Ages : Upto(hist'.misses, k) = Upto(hist.misses, k) + missed
  BY <1>0, <1>1, MissedCounts
<1>5. /\ CountDue = 0 /\ RowDue = 0 /\ TagDue = 0 /\ OutcomeDue = 0
      /\ CountDue' = 0 /\ RowDue' = 0 /\ TagDue' = 0 /\ OutcomeDue' = 0
  BY <1>1, <1>2, DueAt, DueNext
<1>6. missed \in Nat /\ (scan.neutral => missed = 2)
  OBVIOUS
<1> HIDE DEF missed
<1>7. DayRecords' /\ NeutralRecords'
  <2>1. Wrote(0, 0, 0, 0, 2, missed)
    BY <1>1, <1>3, <1>4, <1>5, <1>6 DEF Wrote, TwiceKept
  <2> QED
    BY <2>1, WroteRecords
<1>8. DayPaced'
  BY <1>3, <1>4 DEF DayPaced
<1>9. NeutralPaced'
  <2> SUFFICES ASSUME NEW k \in Ages, Upto(hist'.misses, k) <= 1
               PROVE  Upto(hist'.pace, k) <= NeutralCap /\ ~scan'.neutral
    BY DEF NeutralPaced
  <2>1. ~scan.neutral /\ Upto(hist.misses, k) <= 1
    BY <1>3, <1>4, <1>6
  <2> QED
    BY <1>2, <1>4, <2>1 DEF PaceInv, NeutralPaced
<1> QED
  BY <1>7, <1>8, <1>9 DEF PartsKept

\* The purchase
LEMMA BuyPaced ==
    ASSUME PaceInv, TypeOK', Buy
    PROVE  PartsKept
<1>0. TypeOK /\ DayRecords /\ NeutralRecords /\ DayPaced /\ NeutralPaced
  BY DEF PaceInv
<1> DEFINE p == IF scan.neutral THEN 1 ELSE 0
           w == IF scan.neutral THEN OneMore(hist.pace) ELSE hist.pace
           h == [hist EXCEPT !.taken = @ + 1, !.pace = w]
<1>1. scan.at = "buy" /\ gov' = gov /\ books' = books /\ hist' = h
  BY DEF Buy, At
<1>2. scan'.at = "book" /\ scan'.neutral = scan.neutral
  <2>1. "book" \in Steps
    BY DEF Steps
  <2> QED
    BY <1>0, <2>1, ScanMoves DEF Buy, Go
<1>3. /\ hist.taken \in Nat /\ hist.slips \in Nat /\ gov.count \in Nat /\ books.buys \in Nat
      /\ hist.pace \in Windows
      /\ \A k \in Ages : /\ Upto(hist.pace, k) \in Nat /\ Upto(hist.misses, k) \in Nat
                         /\ Upto(gov.tags, k) \in Nat /\ Upto(books.outcomes, k) \in Nat
      /\ scan.neutral \in BOOLEAN /\ EntryCap \in Nat /\ NeutralCap \in Nat
  BY <1>0, Counts
<1>4. \A k \in Ages : Upto(w, k) = Upto(hist.pace, k) + p
  <2>1. \A k \in Ages : Upto(OneMore(hist.pace), k) = Upto(hist.pace, k) + 1
    BY <1>3, UptoMore DEF OneMore
  <2>2. CASE scan.neutral
    BY <2>1, <2>2
  <2>3. CASE ~scan.neutral
    BY <1>3, <2>3
  <2> QED
    BY <2>2, <2>3
<1>5. p \in 0 .. 1 /\ (scan.neutral => p = 1) /\ (~scan.neutral => p = 0)
  OBVIOUS
<1>6. /\ CountDue = 0 /\ RowDue = 0 /\ TagDue = 0 /\ OutcomeDue = 0
      /\ CountDue' = 1 /\ RowDue' = 1 /\ TagDue' = p /\ OutcomeDue' = p
  BY <1>1, <1>2, <1>3, DueAt, DueNext
<1> HIDE DEF p, w
<1>7. /\ hist'.taken = hist.taken + 1 /\ hist'.pace = w
      /\ hist'.slips = hist.slips /\ hist'.misses = hist.misses
  BY <1>0, <1>1 DEF TypeOK, Histories
<1>8. DayRecords'
  <2>1. TwiceKept(hist.taken, gov.count + 0, books.buys + 0, hist.slips)
    BY <1>0, <1>6 DEF DayRecords
  <2>2. TwiceKept(hist.taken + 1, gov.count + 1, books.buys + 1, hist.slips)
    BY <1>3, <2>1 DEF TwiceKept
  <2> QED
    BY <1>1, <1>6, <1>7, <2>2 DEF DayRecords
<1>9. NeutralRecords'
  <2> SUFFICES ASSUME NEW k \in Ages
               PROVE  TwiceKept(Upto(hist'.pace, k), Upto(gov'.tags, k) + TagDue',
                                Upto(books'.outcomes, k) + OutcomeDue', Upto(hist'.misses, k))
    BY DEF NeutralRecords
  <2>1. TwiceKept(Upto(hist.pace, k), Upto(gov.tags, k) + 0, Upto(books.outcomes, k) + 0,
                  Upto(hist.misses, k))
    BY <1>0, <1>6 DEF NeutralRecords
  <2>2. TwiceKept(Upto(hist.pace, k) + p, Upto(gov.tags, k) + p, Upto(books.outcomes, k) + p,
                  Upto(hist.misses, k))
    BY <1>3, <1>5, <2>1 DEF TwiceKept
  <2> QED
    BY <1>1, <1>4, <1>6, <1>7, <2>2
<1>10. Admitted /\ ~Admitted'
  BY <1>1, <1>2 DEF Admitted
<1>11. DayPaced'
  BY <1>0, <1>3, <1>7, <1>10 DEF DayPaced
<1>12. NeutralPaced'
  <2> SUFFICES ASSUME NEW k \in Ages, Upto(hist'.misses, k) <= 1
               PROVE  Upto(hist'.pace, k) <= NeutralCap
    BY <1>10 DEF NeutralPaced
  <2>1. Upto(hist.misses, k) <= 1
    BY <1>7
  <2>2. Upto(hist.pace, k) <= NeutralCap /\ (scan.neutral => Upto(hist.pace, k) < NeutralCap)
    BY <1>0, <1>10, <2>1 DEF NeutralPaced
  <2>3. Upto(hist'.pace, k) = Upto(hist.pace, k) + p
    BY <1>4, <1>7
  <2> QED
    BY <1>3, <1>5, <2>2, <2>3
<1> QED
  BY <1>8, <1>9, <1>11, <1>12 DEF PartsKept

\* A slot passes: a new local day counts from 0, and the windows move on.
LEMMA TickPaced ==
    ASSUME PaceInv, TypeOK', Tick
    PROVE  PartsKept
<1>0. TypeOK /\ DayRecords /\ NeutralRecords /\ DayPaced /\ NeutralPaced
  BY DEF PaceInv
<1> DEFINE local == Hour = LocalHour
<1>1. /\ hist'.taken = (IF local THEN 0 ELSE hist.taken)
      /\ hist'.slips = (IF local THEN 0 ELSE hist.slips)
      /\ hist'.pace = Older(hist.pace) /\ hist'.misses = Older(hist.misses)
  <2> DEFINE t == IF local THEN 0 ELSE hist.taken
             s == IF local THEN 0 ELSE hist.slips
             p == Older(hist.pace)
             m == Older(hist.misses)
             o == IF Hour = 0 THEN 0 ELSE hist.opening
             f == hist.fell /\ ~(Hour = 0)
             l == Less(hist.halt)
             g == [hist EXCEPT !.taken = t, !.slips = s, !.pace = p, !.misses = m]
             h == [g EXCEPT !.opening = o, !.fell = f, !.halt = l]
  <2>1. hist' = [hist EXCEPT !.taken = t, !.slips = s, !.pace = p, !.misses = m,
                             !.opening = o, !.fell = f, !.halt = l]
    BY Zenon DEF Tick, Hour
  <2>2. hist' = h
    BY <2>1
  <2>3. hist \in Histories
    BY <1>0 DEF TypeOK
  <2> HIDE DEF t, s, p, m, o, f, l
  <2>4. h.taken = t /\ h.slips = s /\ h.pace = p /\ h.misses = m
    BY <2>3 DEF Histories
  <2> QED
    BY <2>2, <2>4 DEF t, s, p, m
<1>2. /\ gov'.count = (IF local THEN 0 ELSE gov.count) /\ gov'.tags = Older(gov.tags)
      /\ books'.buys = (IF local THEN 0 ELSE books.buys) /\ books'.outcomes = Older(books.outcomes)
  BY DEF Tick, Hour
<1>3. scan' = scan
  BY DEF Tick
<1>4. CountDue' = CountDue /\ RowDue' = RowDue /\ TagDue' = TagDue /\ OutcomeDue' = OutcomeDue
  BY <1>3 DEF CountDue, RowDue, TagDue, OutcomeDue, Due
<1>5. /\ hist.taken \in Nat /\ hist.slips \in Nat /\ gov.count \in Nat /\ books.buys \in Nat
      /\ hist.pace \in Windows /\ hist.misses \in Windows
      /\ gov.tags \in Windows /\ books.outcomes \in Windows
      /\ CountDue \in 0 .. 1 /\ RowDue \in 0 .. 1 /\ TagDue \in 0 .. 1 /\ OutcomeDue \in 0 .. 1
      /\ EntryCap \in Nat /\ EntryCap > 0 /\ NeutralCap \in Nat /\ NeutralCap > 0
  BY <1>0, Counts
<1> HIDE DEF local
<1>6. DayRecords'
  <2>1. CASE local
    BY <1>1, <1>2, <1>4, <1>5, <2>1 DEF DayRecords, TwiceKept
  <2>2. CASE ~local
    BY <1>0, <1>1, <1>2, <1>4, <2>2 DEF DayRecords
  <2> QED
    BY <2>1, <2>2
<1>7. DayPaced'
  <2>1. CASE local
    BY <1>1, <1>5, <2>1 DEF DayPaced
  <2>2. CASE ~local
    BY <1>0, <1>1, <1>3, <2>2 DEF DayPaced, Admitted
  <2> QED
    BY <2>1, <2>2
<1>8. ASSUME NEW k \in Ages
      PROVE  \/ /\ Upto(hist'.pace, k) = 0 /\ Upto(hist'.misses, k) = 0
                /\ Upto(gov'.tags, k) = 0 /\ Upto(books'.outcomes, k) = 0
             \/ \E j \in Ages : /\ Upto(hist'.pace, k) = Upto(hist.pace, j)
                                /\ Upto(hist'.misses, k) = Upto(hist.misses, j)
                                /\ Upto(gov'.tags, k) = Upto(gov.tags, j)
                                /\ Upto(books'.outcomes, k) = Upto(books.outcomes, j)
  <2>1. k # 0 => k - 1 \in Ages
    BY SlotsOfADay DEF Ages
  <2>2. \A w \in Windows : Upto(Older(w), k) = IF k = 0 THEN 0 ELSE Upto(w, k - 1)
    BY UptoOlder
  <2> QED
    BY <1>1, <1>2, <1>5, <2>1, <2>2
<1>9. NeutralRecords'
  <2> SUFFICES ASSUME NEW k \in Ages
               PROVE  TwiceKept(Upto(hist'.pace, k), Upto(gov'.tags, k) + TagDue',
                                Upto(books'.outcomes, k) + OutcomeDue', Upto(hist'.misses, k))
    BY DEF NeutralRecords
  <2>1. CASE /\ Upto(hist'.pace, k) = 0 /\ Upto(hist'.misses, k) = 0
             /\ Upto(gov'.tags, k) = 0 /\ Upto(books'.outcomes, k) = 0
    BY <1>4, <1>5, <2>1 DEF TwiceKept
  <2>2. CASE \E j \in Ages : /\ Upto(hist'.pace, k) = Upto(hist.pace, j)
                             /\ Upto(hist'.misses, k) = Upto(hist.misses, j)
                             /\ Upto(gov'.tags, k) = Upto(gov.tags, j)
                             /\ Upto(books'.outcomes, k) = Upto(books.outcomes, j)
    BY <1>0, <1>4, <2>2 DEF NeutralRecords
  <2> QED
    BY <1>8, <2>1, <2>2
<1>10. NeutralPaced'
  <2> SUFFICES ASSUME NEW k \in Ages, Upto(hist'.misses, k) <= 1
               PROVE  /\ Upto(hist'.pace, k) <= NeutralCap
                      /\ Admitted' /\ scan'.neutral => Upto(hist'.pace, k) < NeutralCap
    BY DEF NeutralPaced
  <2>1. CASE Upto(hist'.pace, k) = 0
    BY <1>5, <2>1
  <2>2. CASE \E j \in Ages : /\ Upto(hist'.pace, k) = Upto(hist.pace, j)
                             /\ Upto(hist'.misses, k) = Upto(hist.misses, j)
    BY <1>0, <1>3, <2>2 DEF NeutralPaced, Admitted
  <2> QED
    BY <1>8, <2>1, <2>2
<1> QED
  BY <1>6, <1>7, <1>9, <1>10 DEF PartsKept

-----------------------------------------------------------------------------
LEMMA InitPace == Init => PaceInv
<1> SUFFICES ASSUME Init PROVE PaceInv
  OBVIOUS
<1>1. TypeOK
  BY InitTypeOK
<1>2. /\ hist.taken = 0 /\ hist.slips = 0 /\ hist.pace = None /\ hist.misses = None
      /\ gov.count = 0 /\ gov.tags = None /\ books.buys = 0 /\ books.outcomes = None
      /\ scan.at = "idle"
  BY DEF Init, Idle
<1>3. CountDue = 0 /\ RowDue = 0 /\ TagDue = 0 /\ OutcomeDue = 0 /\ ~Admitted
  BY <1>2, DueAt DEF Admitted
<1>4. DayRecords
  BY <1>2, <1>3 DEF DayRecords, TwiceKept
<1>5. NeutralRecords
  BY <1>2, <1>3, UptoNone DEF NeutralRecords, TwiceKept
<1>6. EntryCap \in Nat /\ NeutralCap \in Nat
  BY GateAssumption
<1>7. DayPaced /\ NeutralPaced
  BY <1>2, <1>3, <1>6, UptoNone DEF DayPaced, NeutralPaced
<1> QED
  BY <1>1, <1>4, <1>5, <1>7 DEF PaceInv

LEMMA NextPace == PaceInv /\ [Next]_vars => PaceInv'
<1> SUFFICES ASSUME PaceInv, [Next]_vars
             PROVE  PaceInv'
  OBVIOUS
<1>1. TypeOK'
  BY NextTypeOK DEF PaceInv
<1>2. PartsKept
  BY <1>1, OthersPaced, OtherBuyPaced, BookPaced, CountPaced, TagPaced, OutcomePaced,
     DiePaced, GatePaced, GateFailsPaced, BuyPaced, TickPaced DEF Next
<1> QED
  BY <1>1, <1>2 DEF PartsKept, PaceInv

\* Losing one of two records of an entry, or one reading of them, lets no entry
\* over the cap of the local day or of the NEUTRAL window through, in whatever
\* order days, entries, deaths and other purchases come.
THEOREM PacesCapped == Spec => []PacesKept
<1>1. PaceInv => PacesKept
  <2> SUFFICES ASSUME PaceInv PROVE PacesKept
    OBVIOUS
  <2>1. hist.pace \in Windows /\ hist.misses \in Windows
    BY Counts DEF PaceInv
  <2>2. /\ DayLen - 1 \in Ages /\ Total(hist.pace) = Upto(hist.pace, DayLen - 1)
        /\ Total(hist.misses) = Upto(hist.misses, DayLen - 1)
    BY <2>1, UptoTotal
  <2> QED
    BY <2>2 DEF PaceInv, DayPaced, NeutralPaced, PacesKept
<1> QED
  BY <1>1, InitPace, NextPace, PTL DEF Spec
=============================================================================
