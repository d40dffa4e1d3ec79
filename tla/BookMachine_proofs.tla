-------------------------- MODULE BookMachine_proofs --------------------------
(***************************************************************************)
(* Theorems about the in-memory book, for any commands and any times that  *)
(* are int64 values, and any limits on prices and quantities: the four     *)
(* safety invariants of BookMachine and its two action properties.  They   *)
(* follow from BookOk of MatchingBook_proofs, which Apply and Expire keep. *)
(***************************************************************************)
EXTENDS BookMachine, MatchingBook_proofs

Inductive ==
    /\ IsBook(book, book.sequence, book.time, book.orders, book.receipts)
    /\ BookOk(book.sequence, book.time, book.orders, book.receipts)

(* A book that is given by its fields.                                     *)
LEMMA FieldsOf ==
    ASSUME NEW b, NEW s, NEW t, NEW o, NEW r, IsBook(b, s, t, o, r)
    PROVE  /\ b.sequence = s /\ b.time = t /\ b.orders = o /\ b.receipts = r
           /\ IsBook(b, b.sequence, b.time, b.orders, b.receipts)
BY DEF IsBook

LEMMA InductiveOf ==
    ASSUME NEW s, NEW t, NEW o, NEW r, IsBook(book, s, t, o, r), BookOk(s, t, o, r)
    PROVE  Inductive
BY FieldsOf DEF Inductive

LEMMA NextInductiveOf ==
    ASSUME NEW s, NEW t, NEW o, NEW r, IsBook(book', s, t, o, r), BookOk(s, t, o, r)
    PROVE  Inductive'
<1>1. PICK b : b = book'
  OBVIOUS
<1>2. /\ b.sequence = s /\ b.time = t /\ b.orders = o /\ b.receipts = r
      /\ IsBook(b, b.sequence, b.time, b.orders, b.receipts)
  BY <1>1, FieldsOf
<1> QED BY <1>1, <1>2 DEF Inductive

(* What a step makes of the book.                                          *)
Later ==
    \E s, t, n, p : /\ IsBook(book', s, t, n, p) /\ BookOk(s, t, n, p)
                    /\ t >= book.time
                    /\ OrdersStay(book.orders, n) /\ ReceiptsStay(book.receipts, p)

LEMMA ApplyLater ==
    ASSUME Inductive, NEW c \in Commands, NEW now \in Times, ApplyCommand(c, now)
    PROVE  Later
<1>1. IsRequest(c) /\ now \in Int
  BY CommandsAssumption, TimesAssumption DEF IsRequest
<1>2. c.requestId \notin DOMAIN book.receipts /\ Valid(book, c, now) /\ book' = Apply(book, c, now)
  BY DEF ApplyCommand
<1>3. now >= book.time
  BY <1>2, ValidIs DEF Inductive
<1>4. PICK n, p : /\ IsBook(Apply(book, c, now), book.sequence + 1, now, n, p)
                  /\ BookOk(book.sequence + 1, now, n, p)
                  /\ OrdersStay(book.orders, n) /\ ReceiptsStay(book.receipts, p)
  BY <1>1, <1>2, ApplyKeeps DEF Inductive
<1> QED BY <1>2, <1>3, <1>4 DEF Later

LEMMA ExpireLater ==
    ASSUME Inductive, NEW now \in Times, ExpireOrders(now)
    PROVE  Later
<1> DEFINE o == book.orders
           n == ExpiredOrders(o, now)
<1>1. now \in Int /\ book.time =< now /\ now >= book.time
  BY TimesAssumption DEF ExpireOrders, Inductive, BookOk
<1>2. IsBook(book', book.sequence, now, n, book.receipts)
  BY ExpireIs DEF ExpireOrders, Inductive
<1>3. BookOk(book.sequence, now, n, book.receipts)
  BY <1>1, ExpireKeeps DEF Inductive
<1>4. ExpiredTo(o, n, now)
  BY <1>1, ExpiredOrdersAre DEF Inductive, BookOk, OrdersOk
<1> HIDE DEF n
<1>5. OrdersStay(o, n)
  BY <1>4 DEF ExpiredTo, AgedList, OrdersStay
<1>6. ReceiptsStay(book.receipts, book.receipts)
  BY DEF ReceiptsStay
<1> QED BY <1>1, <1>2, <1>3, <1>5, <1>6 DEF Later

LEMMA StepIsLater == Inductive /\ Next => Later
BY ApplyLater, ExpireLater DEF Next

LEMMA Always == Spec => []Inductive
<1>1. Init => Inductive
  BY EmptyBookOk, InductiveOf DEF Init
<1>2. Inductive /\ [Next]_book => Inductive'
  <2> SUFFICES ASSUME Inductive, [Next]_book PROVE Inductive'
    OBVIOUS
  <2>1. CASE Next
    <3>1. PICK s, t, n, p : IsBook(book', s, t, n, p) /\ BookOk(s, t, n, p)
      BY <2>1, StepIsLater DEF Later
    <3> QED BY <3>1, NextInductiveOf
  <2>2. CASE UNCHANGED book
    BY <2>2 DEF Inductive
  <2> QED BY <2>1, <2>2
<1> QED BY <1>1, <1>2, PTL DEF Spec

-----------------------------------------------------------------------------
(* Every unit of every order is in exactly one column, and the matched     *)
(* column is the sum of its matches, for maker and taker alike: book.go    *)
(* 143 to 187, over any sequence of placements, cancellations and expiries.*)
THEOREM QuantityConserved == Spec => []QuantityAccounted
<1>1. Inductive => QuantityAccounted
  <2> SUFFICES ASSUME Inductive, NEW i \in DOMAIN book.orders
               PROVE  LET o == book.orders[i]
                      IN  /\ o.quantity = o.remaining + o.matched + o.cancelled + o.expired
                          /\ o.matched = MapThenSumSet(LAMBDA m : m.quantity,
                                 {m \in Matches : o.orderId \in {m.maker, m.taker}})
    BY DEF QuantityAccounted, Orders
  <2> DEFINE o == book.orders[i]
  <2>1. o.quantity = o.remaining + o.matched + o.cancelled + o.expired
    BY DEF Inductive, BookOk, OrdersOk, IsOrder, Columns
  <2>2. Matches = Recorded(book.receipts)
    BY DEF Matches, Results, Recorded
  <2>3. o.matched = Total(Of(Matches, o.orderId))
    BY <2>2 DEF Inductive, BookOk, TotalsOk
  <2>4. o.matched = MapThenSumSet(LAMBDA m : m.quantity,
                                  {m \in Matches : o.orderId \in {m.maker, m.taker}})
    BY <2>3, TotalOf, Zenon
  <2> QED BY <2>1, <2>4
<1> QED BY <1>1, Always, PTL

(* The resting book is never crossed, so what could match has matched or   *)
(* was cancelled by self-trade prevention (book.go 143 to 187).            *)
THEOREM BookNotCrossed == Spec => []NeverCrossed
<1>1. Inductive => NeverCrossed
  BY DEF Inductive, BookOk, NotCrossed, NeverCrossed, Orders
<1> QED BY <1>1, Always, PTL

(* The sequence numbers are 1, 2, ... without a gap or a repetition, and   *)
(* each order has exactly one receipt (book.go 97 to 141).                 *)
THEOREM SequenceIsReceipts == Spec => []SequenceCountsReceipts
<1>1. Inductive => SequenceCountsReceipts
  <2> SUFFICES ASSUME Inductive PROVE SequenceCountsReceipts
    OBVIOUS
  <2> DEFINE r == book.receipts
  <2>1. ReceiptsOk(book.sequence, r) /\ PlacedOk(book.orders, r)
    BY DEF Inductive, BookOk
  <2>2. {x.sequence : x \in Results} = 1..book.sequence
    BY <2>1 DEF ReceiptsOk, Results
  <2>3. Cardinality(DOMAIN r) = book.sequence
    BY <2>1 DEF ReceiptsOk
  <2>4. ASSUME NEW i \in DOMAIN book.orders
        PROVE  Cardinality({id \in DOMAIN r : /\ r[id].command.action = "Place"
                                              /\ r[id].command.orderId = book.orders[i].orderId
                                              /\ r[id].result.sequence = book.orders[i].sequence}) = 1
    <3> DEFINE S == {id \in DOMAIN r : /\ r[id].command.action = "Place"
                                       /\ r[id].command.orderId = book.orders[i].orderId
                                       /\ r[id].result.sequence = book.orders[i].sequence}
    <3>1. PICK id \in DOMAIN r : PlacedBy(r[id], book.orders[i])
      BY <2>1 DEF PlacedOk, HasReceipts
    <3>2. S = {id}
      BY <2>1, <3>1 DEF ReceiptsOk, PlacedBy
    <3> HIDE DEF S
    <3>3. Cardinality(S) = 1
      BY <3>2, FS_Singleton
    <3> QED BY <3>3 DEF S
  <2> QED BY <2>2, <2>3, <2>4 DEF SequenceCountsReceipts, Orders
<1> QED BY <1>1, Always, PTL

(* A match is inside the terms of both its orders: different owners, the   *)
(* resting order's price, both limits, a notional that does not overflow,  *)
(* and neither order expired (book.go 143 to 187 and 206 to 212).          *)
THEOREM MatchesAgreed == Spec => []MatchesWithinTerms
<1>1. Inductive => MatchesWithinTerms
  <2> SUFFICES ASSUME Inductive, NEW x \in Matches
               PROVE  LET maker == OrderOf(x.maker)
                          taker == OrderOf(x.taker)
                          buy   == IF taker.side = "Buy" THEN taker ELSE maker
                          sell  == IF taker.side = "Buy" THEN maker ELSE taker
                      IN  /\ buy.side = "Buy" /\ sell.side = "Sell"
                          /\ x.buyer = buy.owner /\ x.seller = sell.owner /\ x.buyer # x.seller
                          /\ maker.sequence < taker.sequence /\ x.id[1] = taker.sequence
                          /\ x.price = maker.price /\ sell.price <= x.price /\ x.price <= buy.price
                          /\ x.notional = x.quantity * x.price /\ x.notional <= MaxInt64
                          /\ \A o \in {maker, taker} : o.acceptedAt <= x.time /\ x.time < o.expiresAt
    BY DEF MatchesWithinTerms
  <2>1. PICK id \in DOMAIN book.receipts : x \in ToSet(book.receipts[id].result.matches)
    BY DEF Matches, Results
  <2>2. PICK i \in DOMAIN book.orders, j \in DOMAIN book.orders :
             Agreed(x, book.orders[i], book.orders[j])
    BY <2>1 DEF Inductive, BookOk, MatchesOk
  <2>3. \A k \in DOMAIN book.orders : OrderOf(book.orders[k].orderId) = book.orders[k]
    <3>1. \A k, l \in DOMAIN book.orders :
             book.orders[k].orderId = book.orders[l].orderId => k = l
      BY DEF Inductive, BookOk, OrdersOk
    <3> QED BY <3>1 DEF OrderOf, Orders
  <2>4. PICK a, t : a = book.orders[i] /\ t = book.orders[j]
    OBVIOUS
  <2>5. Agreed(x, a, t) /\ IsOrder(a) /\ IsOrder(t)
    BY <2>2, <2>4 DEF Inductive, BookOk, OrdersOk
  <2>6. OrderOf(x.maker) = a /\ OrderOf(x.taker) = t
    BY <2>2, <2>3, <2>4 DEF Agreed, InTerms
  <2>7. a.price \in Int /\ t.price \in Int /\ a.side \in Sides /\ t.side \in Sides
    BY <2>5 DEF IsOrder, Limited
  <2>8. /\ a.owner # t.owner /\ a.side # t.side
        /\ x.buyer = (IF t.side = "Sell" THEN a.owner ELSE t.owner)
        /\ x.seller = (IF t.side = "Sell" THEN t.owner ELSE a.owner)
        /\ x.price = a.price /\ x.notional = x.quantity * x.price /\ x.notional <= MaxInt64
        /\ a.sequence < t.sequence /\ x.id[1] = t.sequence
    BY <2>5 DEF Agreed, InTerms
  <2>9. /\ (t.side = "Buy" /\ t.price >= a.price) \/ (t.side = "Sell" /\ t.price =< a.price)
        /\ \A o \in {a, t} : o.acceptedAt <= x.time /\ x.time < o.expiresAt
    BY <2>5 DEF Agreed
  <2>10. CASE t.side = "Buy"
    <3>1. a.side = "Sell" /\ t.price >= a.price /\ a.price <= a.price
      BY <2>7, <2>8, <2>9, <2>10 DEF Sides
    <3> QED BY <2>6, <2>7, <2>8, <2>9, <2>10, <3>1
  <2>11. CASE t.side = "Sell"
    <3>1. a.side = "Buy" /\ t.price <= a.price /\ a.price <= a.price
      BY <2>7, <2>8, <2>9, <2>11 DEF Sides
    <3> QED BY <2>6, <2>7, <2>8, <2>9, <2>11, <3>1
  <2> QED BY <2>7, <2>10, <2>11 DEF Sides
<1> QED BY <1>1, Always, PTL

-----------------------------------------------------------------------------
(* History is not rewritten: terms and receipts stay, time does not go     *)
(* back, and no quantity leaves the matched, cancelled or expired column.  *)
THEOREM HistoryStays == Spec => HistoryKept
<1>1. Inductive /\ [Next]_book => [HistoryKeptStep]_book
  <2> SUFFICES ASSUME Inductive, Next PROVE HistoryKeptStep
    OBVIOUS
  <2>1. PICK s, t, n, p : /\ IsBook(book', s, t, n, p) /\ BookOk(s, t, n, p)
                          /\ t >= book.time
                          /\ OrdersStay(book.orders, n) /\ ReceiptsStay(book.receipts, p)
    BY StepIsLater DEF Later
  <2>2. PICK b : b = book'
    OBVIOUS
  <2>3. b.time = t /\ b.orders = n /\ b.receipts = p
    BY <2>1, <2>2, FieldsOf
  <2>4. Len(n) >= Len(book.orders)
    <3>1. book.orders \in Seq(ToSet(book.orders)) /\ n \in Seq(ToSet(n))
      BY <2>1 DEF Inductive, BookOk, OrdersOk
    <3>2. PICK k \in Nat, l \in Nat : /\ k = Len(book.orders) /\ DOMAIN book.orders = 1..k
                                     /\ l = Len(n) /\ DOMAIN n = 1..l
      BY <3>1
    <3>3. 1..k \subseteq 1..l
      BY <2>1, <3>2 DEF OrdersStay
    <3>4. k =< l
      <4>1. CASE k = 0
        BY <4>1
      <4>2. CASE k # 0
        <5>1. k \in 1..l
          BY <3>3, <4>2
        <5> QED BY <5>1
      <4> QED BY <4>1, <4>2
    <3> QED BY <3>2, <3>4
  <2>5. ASSUME NEW i \in DOMAIN book.orders
        PROVE  /\ Terms(n[i]) = Terms(book.orders[i])
               /\ n[i].remaining <= book.orders[i].remaining
               /\ n[i].matched >= book.orders[i].matched
               /\ n[i].cancelled >= book.orders[i].cancelled
               /\ n[i].expired >= book.orders[i].expired
    BY <2>1 DEF OrdersStay, Aged, SameTerms, Terms
  <2> QED BY <2>1, <2>2, <2>3, <2>4, <2>5 DEF HistoryKeptStep, ReceiptsStay
<1> QED BY <1>1, Always, PTL DEF Spec, HistoryKept

-----------------------------------------------------------------------------
(* Price-time priority.  The turn order of the loop is Better's, and the   *)
(* orders that the taker crosses and that have not expired are the         *)
(* candidates of the loop.                                                 *)
LEMMA BetterIsPrecedes ==
    ASSUME NEW c, NEW t, t.side = c.side, NEW a, NEW z
    PROVE  Better(t, a, z) = Precedes(c, a, z)
BY DEF Better, Precedes

LEMMA TakesAreCandidates ==
    ASSUME NEW o, NEW e, NEW now \in Int, ExpiredTo(o, e, now), \A i \in DOMAIN o : IsOrder(o[i]),
           NEW c, NEW t, t.side = c.side, t.price = c.price
    PROVE  /\ Candidates(e, c) = {i \in DOMAIN o : o[i].expiresAt > now /\ Crosses(t, o[i])}
           /\ \A i \in Candidates(e, c) : e[i] = o[i]
<1>1. DOMAIN e = DOMAIN o
  BY DEF ExpiredTo, AgedList
<1>2. ASSUME NEW i \in DOMAIN o, Crosses(c, e[i]) PROVE o[i].expiresAt > now /\ e[i] = o[i]
  <2>1. now < e[i].expiresAt /\ e[i].expiresAt = o[i].expiresAt
    BY <1>2 DEF ExpiredTo, Crosses, AgedList, Aged, SameTerms
  <2>2. e[i] = o[i]
    BY <2>1 DEF ExpiredTo
  <2>3. o[i].expiresAt \in Int
    BY DEF IsOrder, Limited
  <2> QED BY <2>1, <2>2, <2>3
<1>3. ASSUME NEW i \in DOMAIN o, o[i].expiresAt > now PROVE e[i] = o[i]
  <2>1. o[i].expiresAt \in Int
    BY DEF IsOrder, Limited
  <2>2. now < o[i].expiresAt
    BY <1>3, <2>1
  <2> QED BY <2>2 DEF ExpiredTo
<1>4. \A a : Crosses(t, a) = Crosses(c, a)
  BY DEF Crosses
<1>5. ASSUME NEW i
      PROVE  i \in Candidates(e, c) <=>
                i \in DOMAIN o /\ o[i].expiresAt > now /\ Crosses(t, o[i])
  BY <1>1, <1>2, <1>3, <1>4 DEF Candidates
<1>6. \A i \in Candidates(e, c) : e[i] = o[i]
  BY <1>1, <1>2 DEF Candidates
<1> QED BY <1>5, <1>6

(* What PriceTimeStep says of the orders o, their successors n, the taker  *)
(* t and the orders that it could take.                                    *)
InPriority(o, n, t, takes) ==
    /\ \A i \in takes : n[i].matched > o[i].matched =>
          /\ o[i].owner # t.owner
          /\ \A j \in takes : Better(t, o[j], o[i]) => n[j].remaining = 0
    /\ t.cancelled > 0 =>
          \E i \in takes :
             /\ o[i].owner = t.owner
             /\ \A j \in takes : Better(t, o[j], o[i]) => n[j].remaining = 0
    /\ t.remaining > 0 => \A i \in takes : n[i].remaining = 0
    /\ \A i \in DOMAIN o \ takes : n[i].matched = o[i].matched

LEMMA PlaceInPriority ==
    ASSUME NEW s, NEW now, NEW o, NEW e, NEW r, NEW c, NEW m, Placed(s, now, e, r, c, m),
           ExpiredTo(o, e, now), \A i \in DOMAIN o : IsOrder(o[i]),
           NEW n, n = Append(m.orders, m.incoming), NEW t, t = m.incoming,
           NEW takes, takes = {i \in DOMAIN o : o[i].expiresAt > now /\ Crosses(t, o[i])}
    PROVE  InPriority(o, n, t, takes)
<1>2. t.side = c.side /\ t.price = c.price /\ t.owner = c.owner /\ now \in Int
  BY PlacedTaker, PlacedAfter
<1>3. takes = Candidates(e, c) /\ \A i \in takes : e[i] = o[i]
  BY <1>2, TakesAreCandidates
<1>4. PICK k : Behind(e, m, n, k)
  BY PlacedList
<1>5. DOMAIN e = DOMAIN o /\ \A i \in DOMAIN o : n[i] = m.orders[i] /\ e[i].matched = o[i].matched
  BY <1>4 DEF Behind, ExpiredTo, AgedList
<1>6. takes \subseteq DOMAIN o
  OBVIOUS
<1>7. PriorityAfter(e, c, takes, m) /\ RestingAfter(e, takes, m)
  <2>1. After(e, c, s + 1, now, Recorded(r), Candidates(e, c), m)
    BY PlacedAfter
  <2>2. PriorityAfter(e, c, Candidates(e, c), m) /\ RestingAfter(e, Candidates(e, c), m)
    BY <2>1 DEF After
  <2> QED BY <1>3, <2>2
<1>8. ASSUME NEW i \in takes, UsedUpBefore(e, c, takes, m, i)
      PROVE  \A j \in takes : Better(t, o[j], o[i]) => n[j].remaining = 0
  <2>1. \A j \in takes : Better(t, o[j], o[i]) => Precedes(c, e[j], e[i])
    BY <1>2, <1>3, BetterIsPrecedes
  <2> QED BY <1>5, <1>6, <1>8, <2>1 DEF UsedUpBefore
<1>9. ASSUME NEW i \in takes, n[i].matched > o[i].matched
      PROVE  o[i].owner # t.owner /\ UsedUpBefore(e, c, takes, m, i)
  <2>1. m.orders[i].matched > e[i].matched
    BY <1>3, <1>5, <1>6, <1>9
  <2> QED BY <1>2, <1>3, <1>7, <2>1 DEF PriorityAfter
<1>10. t.cancelled > 0 => \E i \in takes : o[i].owner = t.owner /\ UsedUpBefore(e, c, takes, m, i)
  BY <1>2, <1>3, <1>7 DEF PriorityAfter
<1>11. t.remaining > 0 => \A i \in takes : n[i].remaining = 0
  BY <1>5, <1>6, <1>7 DEF PriorityAfter
<1>12. \A i \in DOMAIN o \ takes : n[i].matched = o[i].matched
  BY <1>5, <1>7 DEF RestingAfter
<1> QED BY <1>8, <1>9, <1>10, <1>11, <1>12 DEF InPriority

(* A resting order is filled only after every crossing order of better     *)
(* price, or of the same price and older, is used up, and the taker keeps  *)
(* or loses a remainder only when nothing is left before it: book.go 143   *)
(* to 187, after any history and for any book.                             *)
THEOREM PriceTimeHolds == Spec => PriceTimePriority
<1>1. ASSUME Inductive, NEW c \in Commands, NEW now \in Times, ApplyCommand(c, now)
      PROVE  PriceTimeStep
  <2> DEFINE s == book.sequence
             o == book.orders
             r == book.receipts
  <2>1. /\ c.requestId \notin DOMAIN r /\ Valid(book, c, now) /\ book' = Apply(book, c, now)
        /\ IsBook(book, s, book.time, o, r) /\ BookOk(s, book.time, o, r)
    BY <1>1 DEF ApplyCommand, Inductive
  <2>2. IsRequest(c) /\ now \in Int
    BY CommandsAssumption, TimesAssumption DEF IsRequest
  <2>3. book.time =< now /\ (Placeable(o, c, now) \/ Cancellable(o, c))
    <3>1. now >= book.time /\ (Placeable(o, c, now) \/ Cancellable(o, c))
      BY <2>1, ValidIs
    <3> QED BY <2>1, <2>2, <3>1 DEF BookOk
  <2>4. PICK e : e = ExpiredOrders(o, now)
    OBVIOUS
  <2>5. \A i \in DOMAIN o : IsOrder(o[i])
    BY <2>1 DEF BookOk, OrdersOk
  <2>6. BookOk(s, now, e, r) /\ ExpiredTo(o, e, now) /\ DOMAIN e = DOMAIN o
    BY <2>1, <2>2, <2>3, <2>4, <2>5, ExpireKeeps, ExpiredOrdersAre DEF ExpiredTo, AgedList
  <2>7. CASE Placeable(o, c, now)
    <3>1. PICK m : m = MatchAll(e, c, s + 1, now)
      OBVIOUS
    <3>2. \A i \in DOMAIN o : e[i].orderId = o[i].orderId
      BY <2>6 DEF ExpiredTo, AgedList, Aged, SameTerms
    <3>3. Placeable(e, c, now)
      BY <2>6, <2>7, <3>2 DEF Placeable
    <3>4. Placed(s, now, e, r, c, m)
      BY <2>1, <2>2, <2>6, <3>1, <3>3 DEF Placed, ExpiredTo
    <3>5. PICK n, p, t : /\ n = Append(m.orders, m.incoming) /\ t = m.incoming
                         /\ p = Received(r, c, PlaceResult(s + 1, now, m))
      OBVIOUS
    <3>6. PICK takes : /\ takes = {i \in DOMAIN o : o[i].expiresAt > now /\ Crosses(t, o[i])}
                       /\ InPriority(o, n, t, takes)
      <4>1. PICK takes : takes = {i \in DOMAIN o : o[i].expiresAt > now /\ Crosses(t, o[i])}
        OBVIOUS
      <4>2. InPriority(o, n, t, takes)
        BY <2>2, <2>5, <2>6, <3>4, <3>5, <4>1, PlaceInPriority
      <4> QED BY <4>1, <4>2
    <3>7. IsBook(book', s + 1, now, n, p)
      BY <2>1, <2>4, <2>7, <3>1, <3>5, ApplyIs DEF Placeable
    <3>8. book'.time = now /\ book'.orders = n
      <4>1. PICK b : b = book'
        OBVIOUS
      <4> QED BY <3>7, <4>1, FieldsOf
    <3>9. PICK k : Behind(e, m, n, k)
      BY <3>4, <3>5, PlacedList
    <3>10. Last(n) = t
      BY <3>5, <3>9 DEF Behind, Last
    <3> QED BY <3>6, <3>8, <3>9, <3>10 DEF PriceTimeStep, InPriority, Behind
  <2>8. CASE Cancellable(o, c)
    <3>1. PICK i : i = CHOOSE j \in DOMAIN e : e[j].orderId = c.orderId
      OBVIOUS
    <3>2. PICK n, p : /\ n = CancelledOrders(e, i)
                      /\ p = Received(r, c, CancelResult(s + 1, now, e, i))
      OBVIOUS
    <3>3. IsBook(book', s + 1, now, n, p)
      BY <2>1, <2>4, <2>8, <3>1, <3>2, ApplyIs DEF Cancellable
    <3>4. book'.orders = n
      <4>1. PICK b : b = book'
        OBVIOUS
      <4> QED BY <3>3, <4>1, FieldsOf
    <3>5. DOMAIN n = DOMAIN o
      BY <2>6, <3>2 DEF CancelledOrders
    <3>6. Len(n) = Len(o)
      BY <2>1, <3>5 DEF BookOk, OrdersOk
    <3> QED BY <3>4, <3>6 DEF PriceTimeStep
  <2> QED BY <2>3, <2>7, <2>8
<1>2. ASSUME Inductive, NEW now \in Times, ExpireOrders(now)
      PROVE  PriceTimeStep
  <2>1. book'.orders = ExpiredOrders(book.orders, now)
    <3>1. PICK b : b = book'
      OBVIOUS
    <3>2. IsBook(b, book.sequence, now, ExpiredOrders(book.orders, now), book.receipts)
      BY <1>2, <3>1, ExpireIs DEF ExpireOrders, Inductive
    <3> QED BY <3>1, <3>2, FieldsOf
  <2>2. DOMAIN book'.orders = DOMAIN book.orders
    BY <2>1 DEF ExpiredOrders
  <2> QED BY <1>2, <2>2 DEF PriceTimeStep, Inductive, BookOk, OrdersOk
<1>3. Inductive /\ [Next]_book => [PriceTimeStep]_book
  BY <1>1, <1>2 DEF Next
<1> QED BY <1>3, Always, PTL DEF Spec, PriceTimePriority
=============================================================================
