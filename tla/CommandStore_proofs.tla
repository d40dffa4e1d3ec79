-------------------------- MODULE CommandStore_proofs --------------------------
(***************************************************************************)
(* Theorems about CommandStore, for any owners, commands, instances with   *)
(* skewed clocks, and bounds: the four tables implement the in-memory book *)
(* of SerialBook, and a decision is final.  For these two it is enough     *)
(* that the store applies a command once, to the book without its          *)
(* receipts.  The invariants of the tables need what matching does, and    *)
(* take it from MatchingBook_proofs: the book of the tables is a book.     *)
(***************************************************************************)
EXTENDS CommandStore, MatchingBook_proofs

-----------------------------------------------------------------------------
(* The invariant: the commands table is a sequence of rows, each under the *)
(* request id of its command, and book time is within the clocks' error.   *)
IsRow(r) ==
    r = [command |-> r.command, preparedAt |-> r.preparedAt, deadline |-> r.deadline,
         status |-> r.status, signature |-> r.signature, result |-> r.result]

RowsInPlace ==
    /\ commands \in Seq(Rows)
    /\ \A id \in DOMAIN commands : IsRow(commands[id]) /\ commands[id].command.requestId = id

TimesInRange ==
    /\ clock \in 1..MaxClock
    /\ market.time \in Times

Inductive == RowsInPlace /\ TimesInRange

(* Every reading of an instance's clock, and so the time of the book that  *)
(* it leads to, is a time of SerialBook.                                   *)
LEMMA ReadingsInRange ==
    ASSUME TimesInRange, NEW reading \in Readings
    PROVE  EffectiveTime(reading) \in Times /\ EffectiveTime(reading) >= market.time
<1>1. reading \in Times
  BY BoundsAssumption DEF TimesInRange, Readings, Times
<1> QED BY <1>1, BoundsAssumption DEF TimesInRange, EffectiveTime, Times

(* Apply reads no receipts: with receipts r it gives the book that it      *)
(* gives without, and r with the new receipt.                              *)
LEMMA ReceiptsAreNotRead ==
    ASSUME NEW s, NEW t, NEW o, NEW r, NEW c, NEW now,
           NEW full, IsBook(full, s, t, o, r), NEW bare, IsBook(bare, s, t, o, <<>>)
    PROVE  LET a == Apply(bare, c, now)
           IN  /\ a.time = now
               /\ IsBook(Apply(full, c, now), a.sequence, a.time, a.orders,
                         Received(r, c, ResultOf(a, c)))
<1> DEFINE Core(b) == [Expire(b, now) EXCEPT !.sequence = @ + 1]
           next == ExpiredOrders(o, now)
<1>1. ASSUME NEW b, NEW x, IsBook(b, s, t, o, x)
      PROVE  IsBook(Core(b), s + 1, now, next, x)
  <2>1. PICK e : e = Expire(b, now)
    OBVIOUS
  <2>2. IsBook(e, s, now, next, x)
    BY <1>1, <2>1, ExpireIs
  <2> HIDE DEF next
  <2>3. IsBook([e EXCEPT !.sequence = @ + 1], s + 1, now, next, x)
    BY <2>2 DEF IsBook
  <2> QED BY <2>1, <2>3
<1>2. PICK coreF, coreB : coreF = Core(full) /\ coreB = Core(bare)
  OBVIOUS
<1>3. IsBook(coreF, s + 1, now, next, r) /\ IsBook(coreB, s + 1, now, next, <<>>)
  BY <1>1, <1>2
<1>4. ASSUME NEW rest, NEW result, NEW a,
             IsBook(a, s + 1, now, rest, Received(<<>>, c, result))
      PROVE  ResultOf(a, c) = result /\ a.sequence = s + 1 /\ a.time = now /\ a.orders = rest
  BY <1>4 DEF IsBook, ResultOf, Received
<1>5. CASE c.action = "Cancel"
  <2>1. Apply(full, c, now) = Cancel(coreF, c, now) /\ Apply(bare, c, now) = Cancel(coreB, c, now)
    BY <1>2, <1>5 DEF Apply
  <2> DEFINE i == CHOOSE k \in DOMAIN next : next[k].orderId = c.orderId
             after == CancelOrder(next[i])
             rest   == [next EXCEPT ![i] = after]
             result == [sequence |-> s + 1, time |-> now, order |-> after, matches |-> <<>>]
  <2>2. /\ IsBook(Apply(full, c, now), s + 1, now, rest, Received(r, c, result))
        /\ IsBook(Apply(bare, c, now), s + 1, now, rest, Received(<<>>, c, result))
    <3> HIDE DEF next
    <3> QED BY <1>3, <2>1, CancelIs
  <2> HIDE DEF rest, result
  <2> QED BY <1>4, <2>2
<1>6. CASE c.action # "Cancel"
  <2>1. Apply(full, c, now) = Place(coreF, c, now) /\ Apply(bare, c, now) = Place(coreB, c, now)
    BY <1>2, <1>6 DEF Apply
  <2> DEFINE m == MatchAll(next, c, s + 1, now)
             rest   == Append(m.orders, m.incoming)
             result == [sequence |-> s + 1, time |-> now, order |-> m.incoming,
                        matches |-> m.matches]
  <2>2. /\ IsBook(Apply(full, c, now), s + 1, now, rest, Received(r, c, result))
        /\ IsBook(Apply(bare, c, now), s + 1, now, rest, Received(<<>>, c, result))
    <3> HIDE DEF next
    <3> QED BY <1>3, <2>1, PlaceIs
  <2> HIDE DEF rest, result
  <2> QED BY <1>4, <2>2
<1> QED BY <1>5, <1>6

-----------------------------------------------------------------------------
(* A row that is decided keeps everything but its status, its signature    *)
(* and its result.                                                         *)
LEMMA DecidedRow ==
    ASSUME RowsInPlace, NEW id \in DOMAIN commands, NEW status, NEW signature, NEW result,
           Decide(id, status, signature, result)
    PROVE  /\ DOMAIN commands' = DOMAIN commands
           /\ commands' \in Seq(Rows')
           /\ \A i \in DOMAIN commands : i # id => commands'[i] = commands[i]
           /\ IsRow(commands'[id])
           /\ commands'[id].command = commands[id].command
           /\ commands'[id].preparedAt = commands[id].preparedAt
           /\ commands'[id].deadline = commands[id].deadline
           /\ commands'[id].status = status
           /\ commands'[id].signature = signature
           /\ commands'[id].result = result
<1> DEFINE r == commands[id]
           fields == {"command", "preparedAt", "deadline", "status", "signature", "result"}
<1>1. commands' = [commands EXCEPT ![id].status = status, ![id].signature = signature,
                                   ![id].result = result]
  BY DEF Decide
<1>2. r = [command |-> r.command, preparedAt |-> r.preparedAt, deadline |-> r.deadline,
           status |-> r.status, signature |-> r.signature, result |-> r.result]
  BY DEF RowsInPlace, IsRow
<1> HIDE DEF r
<1>3. DOMAIN commands' = DOMAIN commands
  BY <1>1
<1>4. \A i \in DOMAIN commands : i # id => commands'[i] = commands[i]
  BY <1>1
<1> DEFINE n == commands'[id]
<1>5. /\ n.command = r.command /\ n.preparedAt = r.preparedAt /\ n.deadline = r.deadline
      /\ n.status = status /\ n.signature = signature /\ n.result = result
  BY <1>1, <1>2 DEF r
<1>6. n = [f \in fields |-> n[f]]
  BY <1>1, <1>2 DEF r
<1>7. IsRow(n)
  <2> HIDE DEF n
  <2> QED BY <1>6 DEF IsRow
<1>8. commands' \in Seq(Rows')
  <2>1. PICK k \in Nat : DOMAIN commands = 1..k
    BY DEF RowsInPlace
  <2>2. commands' = [i \in 1..k |-> commands'[i]]
    BY <1>1, <2>1
  <2>3. \A i \in 1..k : commands'[i] \in Rows'
    BY <1>3, <2>1 DEF Rows
  <2> QED BY <2>1, <2>2, <2>3
<1> QED BY <1>3, <1>4, <1>5, <1>7, <1>8 DEF r

(* So does a row that Expire looks at, and only a pending one is closed.   *)
LEMMA ClosedRow ==
    ASSUME NEW r, IsRow(r), NEW now
    PROVE  LET n == CloseLate(r, now)
           IN  /\ IsRow(n)
               /\ n.command = r.command /\ n.deadline = r.deadline /\ n.result = r.result
               /\ n.preparedAt = r.preparedAt
               /\ (n.status = "accepted") = (r.status = "accepted")
               /\ n.status = "rejected" => n = r
               /\ r.status # "pending" => n = r
<1>1. CASE CloseLate(r, now) = r
  BY <1>1
<1>2. CASE r.status = "pending" /\ CloseLate(r, now) = [r EXCEPT !.status = "expired"]
  <2>1. PICK n : n = [r EXCEPT !.status = "expired"]
    OBVIOUS
  <2>2. n = [command |-> r.command, preparedAt |-> r.preparedAt, deadline |-> r.deadline,
             status |-> "expired", signature |-> r.signature, result |-> r.result]
    BY <2>1 DEF IsRow
  <2> QED BY <1>2, <2>1, <2>2 DEF IsRow
<1> QED BY <1>1, <1>2 DEF CloseLate

-----------------------------------------------------------------------------
(* The tables of a new market are as the invariant says.                   *)
LEMMA InitInductive == Init => Inductive
<1> SUFFICES ASSUME Init PROVE Inductive
  OBVIOUS
<1>1. RowsInPlace
  BY DEF Init, RowsInPlace, Rows
<1>2. TimesInRange
  BY BoundsAssumption DEF Init, TimesInRange, Times
<1> QED BY <1>1, <1>2 DEF Inductive

(* A new row goes to the end, under its id.                                *)
LEMMA PrepareRow ==
    ASSUME RowsInPlace, NEW c, NEW now, Prepare(c, now), c.requestId = NextId
    PROVE  /\ RowsInPlace'
           /\ DOMAIN commands' = DOMAIN commands \cup {NextId}
           /\ NextId \notin DOMAIN commands
           /\ \A id \in DOMAIN commands : commands'[id] = commands[id]
           /\ commands'[NextId].status = "pending" /\ commands'[NextId].command = c
           /\ commands'[NextId].preparedAt = now
           /\ commands'[NextId].deadline = now + CommandTTL
<1> DEFINE r == [command |-> c, preparedAt |-> now, deadline |-> now + CommandTTL,
                 status |-> "pending", signature |-> NoSignature, result |-> NoResult]
<1>1. commands' = Append(commands, r)
  BY DEF Prepare
<1>2. /\ IsRow(r) /\ r.status = "pending" /\ r.command = c
      /\ r.preparedAt = now /\ r.deadline = now + CommandTTL
  BY DEF IsRow
<1> HIDE DEF r
<1>3. PICK k \in Nat : k = Len(commands) /\ DOMAIN commands = 1..k
  BY DEF RowsInPlace
<1>4. commands' \in Seq(Rows \cup {r})
  BY <1>1 DEF RowsInPlace
<1>5. /\ DOMAIN commands' = 1..(k + 1)
      /\ commands'[k + 1] = r
      /\ \A id \in 1..k : commands'[id] = commands[id]
  BY <1>1, <1>3 DEF RowsInPlace
<1>6. commands' \in Seq(Rows')
  <2>1. commands' = [i \in 1..(k + 1) |-> commands'[i]]
    BY <1>4, <1>5
  <2>2. \A i \in 1..(k + 1) : commands'[i] \in Rows'
    BY <1>5 DEF Rows
  <2> QED BY <1>3, <2>1, <2>2
<1>7. \A id \in DOMAIN commands' : IsRow(commands'[id]) /\ commands'[id].command.requestId = id
  BY <1>2, <1>3, <1>5 DEF RowsInPlace, NextId
<1> QED BY <1>2, <1>3, <1>5, <1>6, <1>7 DEF RowsInPlace, NextId

(* The time of the book after an accepted command, or an expiry, is that   *)
(* of the transaction.                                                     *)
LEMMA AppliedAt ==
    ASSUME NEW c, NEW now PROVE Apply(Loaded, c, now).time = now
<1>1. IsBook(Loaded, market.sequence, market.time, orders, <<>>)
  BY DEF IsBook, Loaded
<1> QED BY <1>1, ReceiptsAreNotRead

LEMMA ExpiredAt ==
    ASSUME NEW now
    PROVE  IsBook(Expire(Loaded, now), market.sequence, now, ExpiredOrders(orders, now), <<>>)
<1>1. IsBook(Loaded, market.sequence, market.time, orders, <<>>)
  BY DEF IsBook, Loaded
<1> QED BY <1>1, ExpireIs

(* Every action is one transaction, or time passes.                        *)
LEMMA SubmitInductive ==
    ASSUME Inductive, NEW id \in DOMAIN commands, NEW signature, NEW now \in Times,
           SubmitLate(id, signature, now) \/ SubmitRejected(id, signature, now)
             \/ SubmitAccepted(id, signature, now)
    PROVE  Inductive'
<1>1. PICK status, result : Decide(id, status, signature, result)
  BY DEF SubmitLate, SubmitRejected, SubmitAccepted
<1>2. RowsInPlace'
  BY <1>1, DecidedRow DEF Inductive, RowsInPlace
<1>3. clock' = clock
  BY DEF SubmitLate, SubmitRejected, SubmitAccepted
<1>4. market'.time = market.time \/ market'.time = now
  <2>1. CASE SubmitAccepted(id, signature, now)
    BY <2>1, AppliedAt DEF SubmitAccepted, Save
  <2> QED BY <2>1 DEF SubmitLate, SubmitRejected
<1> QED BY <1>2, <1>3, <1>4 DEF Inductive, TimesInRange, Times

LEMMA ExpireInductive ==
    ASSUME Inductive, NEW now \in Times, ExpireAt(now) PROVE Inductive'
<1>1. commands' = [id \in DOMAIN commands |-> CloseLate(commands[id], now)]
  BY DEF ExpireAt
<1>2. RowsInPlace'
  <2>1. PICK k \in Nat : DOMAIN commands = 1..k
    BY DEF Inductive, RowsInPlace
  <2>2. \A id \in DOMAIN commands :
           IsRow(commands'[id]) /\ commands'[id].command = commands[id].command
    BY <1>1, ClosedRow DEF Inductive, RowsInPlace
  <2>3. commands' \in Seq(Rows')
    <3>1. \A id \in 1..k : commands'[id] \in Rows'
      BY <1>1, <2>1 DEF Rows
    <3>2. commands' = [id \in 1..k |-> commands'[id]]
      BY <1>1, <2>1
    <3> QED BY <2>1, <3>1, <3>2
  <2> QED BY <1>1, <2>2, <2>3 DEF Inductive, RowsInPlace
<1>3. clock' = clock
  BY DEF ExpireAt
<1>4. market'.time = market.time \/ market'.time = now
  BY ExpiredAt DEF ExpireAt, Save, IsBook
<1> QED BY <1>2, <1>3, <1>4 DEF Inductive, TimesInRange, Times

LEMMA StepInductive == Inductive /\ [Next]_vars => Inductive'
<1> SUFFICES ASSUME Inductive, [Next]_vars PROVE Inductive'
  OBVIOUS
<1>1. CASE PrepareAny
  <2>1. PICK c, now : c.requestId = NextId /\ Prepare(c, now)
    BY <1>1 DEF PrepareAny, PreparePlace, PrepareCancel, PlaceCommand, CancelCommand
  <2>2. RowsInPlace'
    BY <2>1, PrepareRow DEF Inductive
  <2> QED BY <2>1, <2>2 DEF Inductive, TimesInRange, Times, Prepare
<1>2. CASE SubmitAny
  BY <1>2, ReadingsInRange, SubmitInductive DEF SubmitAny, Submit, Inductive
<1>3. CASE ExpireAny
  BY <1>3, ReadingsInRange, ExpireInductive DEF ExpireAny, ExpireStale, Inductive
<1>4. CASE Advance
  BY <1>4, BoundsAssumption DEF Advance, Inductive, RowsInPlace, Rows, TimesInRange, Times
<1>5. CASE UNCHANGED vars
  BY <1>5 DEF vars, Inductive, RowsInPlace, Rows, TimesInRange, Times
<1> QED BY <1>1, <1>2, <1>3, <1>4, <1>5 DEF Next

LEMMA Always == Spec => []Inductive
BY InitInductive, StepInductive, PTL DEF Spec

-----------------------------------------------------------------------------
(* An answer once given stays the answer: whatever is retried, with        *)
(* whatever signature and by whatever instance, a row that is accepted,    *)
(* rejected or expired never changes again (Store.Submit, store.go 187).   *)
THEOREM DecidedOnce == Spec => DecisionIsFinal
<1>1. Inductive /\ [Next]_vars => [DecisionStep]_vars
  <2> SUFFICES ASSUME Inductive, Next PROVE DecisionStep
    BY DEF vars
  <2>1. CASE PrepareAny
    <3>1. PICK c, now : c.requestId = NextId /\ Prepare(c, now)
      BY <2>1 DEF PrepareAny, PreparePlace, PrepareCancel, PlaceCommand, CancelCommand
    <3> QED BY <3>1, PrepareRow DEF Inductive, DecisionStep
  <2>2. CASE SubmitAny
    <3>1. PICK id \in DOMAIN commands : \E status, signature, result :
            commands[id].status = "pending" /\ Decide(id, status, signature, result)
      BY <2>2 DEF SubmitAny, Submit, SubmitLate, SubmitRejected, SubmitAccepted
    <3>2. PICK status, signature, result :
            commands[id].status = "pending" /\ Decide(id, status, signature, result)
      BY <3>1
    <3> QED BY <3>2, DecidedRow DEF Inductive, DecisionStep
  <2>3. CASE ExpireAny
    <3>1. PICK now : commands' = [id \in DOMAIN commands |-> CloseLate(commands[id], now)]
      BY <2>3 DEF ExpireAny, ExpireStale, ExpireAt
    <3> QED BY <3>1, ClosedRow DEF Inductive, RowsInPlace, DecisionStep
  <2>4. CASE Advance
    BY <2>4 DEF Advance, DecisionStep
  <2> QED BY <2>1, <2>2, <2>3, <2>4 DEF Next
<1> QED BY <1>1, Always, PTL DEF Spec, DecisionIsFinal

-----------------------------------------------------------------------------
(* The refinement: the book that the tables stand for.                     *)
Receipt(id) == [command |-> commands[id].command, result |-> commands[id].result]
Receipts == [id \in Accepted |-> Receipt(id)]

LEMMA AbstractIs == IsBook(AbstractBook, market.sequence, market.time, orders, Receipts)
BY DEF IsBook, AbstractBook, Receipts, Receipt

(* What leaves the book's rows and the accepted commands alone.            *)
LEMMA SameBook ==
    ASSUME UNCHANGED <<market, orders>>, Accepted' = Accepted,
           \A id \in Accepted : commands'[id].command = commands[id].command
                                /\ commands'[id].result = commands[id].result
    PROVE  AbstractBook' = AbstractBook
<1>1. Receipts' = Receipts
  BY DEF Receipts, Receipt
<1> QED BY <1>1 DEF AbstractBook, Receipts, Receipt

(* An accepted command gets a receipt, and had none.                       *)
LEMMA AcceptIsReceived ==
    ASSUME Inductive, NEW id \in DOMAIN commands, NEW signature, NEW now,
           SubmitAccepted(id, signature, now)
    PROVE  LET c == commands[id].command
           IN  /\ c.requestId = id /\ id \notin DOMAIN Receipts
               /\ Receipts' = Received(Receipts, c, ResultOf(Apply(Loaded, c, now), c))
<1> DEFINE c == commands[id].command
           b == Apply(Loaded, c, now)
<1>1. Decide(id, "accepted", signature, ResultOf(b, c)) /\ commands[id].status = "pending"
  BY DEF SubmitAccepted
<1>2. c.requestId = id /\ id \notin Accepted
  BY <1>1 DEF Inductive, RowsInPlace, Accepted
<1>3. DOMAIN Receipts = Accepted
  BY DEF Receipts
<1>4. Receipts' = Received(Receipts, c, ResultOf(b, c))
  <2> HIDE DEF b
  <2>1. Accepted' = Accepted \cup {id}
    BY <1>1, DecidedRow DEF Inductive, Accepted
  <2>2. Receipt(id)' = [command |-> c, result |-> ResultOf(b, c)]
    BY <1>1, DecidedRow DEF Inductive, Receipt
  <2>3. \A i \in Accepted : i # id => Receipt(i)' = Receipt(i)
    BY <1>1, DecidedRow DEF Inductive, Receipt, Accepted
  <2> QED BY <1>2, <1>3, <2>1, <2>2, <2>3 DEF Receipts, Received
<1> QED BY <1>2, <1>3, <1>4

(* An accepted command is one call of Apply, of a command without receipt. *)
LEMMA AcceptIsApply ==
    ASSUME Inductive, NEW id \in DOMAIN commands, NEW signature, NEW now \in Times,
           SubmitAccepted(id, signature, now)
    PROVE  BookStep
<1> DEFINE c == commands[id].command
           b == Apply(Loaded, c, now)
           full == Apply(AbstractBook, c, now)
<1>1. Decide(id, "accepted", signature, ResultOf(b, c)) /\ commands[id].status = "pending"
  BY DEF SubmitAccepted
<1>2. c.requestId = id /\ id \notin Accepted
  BY <1>1 DEF Inductive, RowsInPlace, Accepted
<1>3. AbstractBook.receipts = Receipts /\ DOMAIN Receipts = Accepted
  BY AbstractIs DEF IsBook, Receipts
<1>4. Valid(AbstractBook, c, now)
  <2>1. Valid(Loaded, c, now)
    BY DEF SubmitAccepted
  <2>2. /\ AbstractBook.time = Loaded.time /\ AbstractBook.sequence = Loaded.sequence
        /\ AbstractBook.orders = Loaded.orders
    BY DEF AbstractBook, Loaded
  <2> HIDE DEF c
  <2> QED BY <2>1, <2>2 DEF Valid, HasOrder, OrderIndex
<1>5. IsBook(full, b.sequence, b.time, b.orders, Received(Receipts, c, ResultOf(b, c)))
  <2>1. IsBook(Loaded, market.sequence, market.time, orders, <<>>)
    BY DEF IsBook, Loaded
  <2> QED BY <2>1, AbstractIs, ReceiptsAreNotRead
<1>6. /\ market'.sequence = b.sequence /\ market'.time = b.time /\ orders' = b.orders
  BY DEF SubmitAccepted, Save
<1>7. Receipts' = Received(Receipts, c, ResultOf(b, c))
  BY AcceptIsReceived
<1>8. AbstractBook' = full
  BY <1>5, <1>6, <1>7 DEF IsBook, AbstractBook, Receipts, Receipt
<1>9. Book!ApplyCommand(c, now)
  <2> HIDE DEF c, full
  <2> QED BY <1>2, <1>3, <1>4, <1>8 DEF Book!ApplyCommand, full
<1> QED BY <1>9 DEF BookStep

(* A submission that is not accepted leaves the book alone.                *)
LEMMA SubmitIsApply ==
    ASSUME Inductive, NEW id \in DOMAIN commands, NEW signature, NEW now \in Times,
           SubmitLate(id, signature, now) \/ SubmitRejected(id, signature, now)
             \/ SubmitAccepted(id, signature, now)
    PROVE  BookStep \/ AbstractBook' = AbstractBook
<1>1. CASE SubmitLate(id, signature, now) \/ SubmitRejected(id, signature, now)
  <2>1. PICK status \in {"expired", "rejected"} : Decide(id, status, signature, NoResult)
    BY <1>1 DEF SubmitLate, SubmitRejected
  <2>2. commands[id].status = "pending"
    BY <1>1 DEF SubmitLate, SubmitRejected
  <2>3. Accepted' = Accepted /\ \A i \in Accepted : commands'[i] = commands[i]
    BY <2>1, <2>2, DecidedRow DEF Inductive, Accepted
  <2> QED BY <1>1, <2>3, SameBook DEF SubmitLate, SubmitRejected
<1>2. CASE SubmitAccepted(id, signature, now)
  BY <1>2, AcceptIsApply
<1> QED BY <1>1, <1>2

(* Expire gives the book of the tables at the new time, or leaves it.      *)
LEMMA ExpireIsExpire ==
    ASSUME Inductive, NEW now \in Times, now >= market.time, ExpireAt(now)
    PROVE  BookStep \/ AbstractBook' = AbstractBook
<1>1. Accepted' = Accepted /\ \A id \in Accepted : Receipt(id)' = Receipt(id)
  <2>1. commands' = [id \in DOMAIN commands |-> CloseLate(commands[id], now)]
    BY DEF ExpireAt
  <2> QED BY <2>1, ClosedRow DEF Inductive, RowsInPlace, Accepted, Receipt
<1>2. Receipts' = Receipts
  BY <1>1 DEF Receipts
<1> DEFINE b == Expire(Loaded, now)
<1>3. IsBook(b, market.sequence, now, ExpiredOrders(orders, now), <<>>)
  BY ExpiredAt
<1> HIDE DEF b
<1>4. CASE b.orders # orders
  <2>1. /\ market'.sequence = market.sequence /\ market'.time = now
        /\ orders' = ExpiredOrders(orders, now)
    BY <1>3, <1>4 DEF ExpireAt, Save, IsBook, b
  <2>2. IsBook(Expire(AbstractBook, now),
               market.sequence, now, ExpiredOrders(orders, now), Receipts)
    BY AbstractIs, ExpireIs
  <2>3. AbstractBook' = Expire(AbstractBook, now)
    BY <1>2, <2>1, <2>2 DEF IsBook, AbstractBook, Receipts, Receipt
  <2>4. AbstractBook.time = market.time
    BY DEF AbstractBook
  <2> QED BY <2>3, <2>4 DEF BookStep, Book!ExpireOrders
<1>5. CASE b.orders = orders
  BY <1>2, <1>5 DEF ExpireAt, b, AbstractBook, Receipts, Receipt
<1> QED BY <1>4, <1>5

(* Every step of the store is a step of the book, or leaves it alone.      *)
LEMMA StepIsBookStep == Inductive /\ [Next]_vars => [BookStep]_AbstractBook
<1> SUFFICES ASSUME Inductive, Next PROVE BookStep \/ AbstractBook' = AbstractBook
  BY SameBook DEF vars, Accepted
<1>1. CASE PrepareAny
  <2>1. PICK c, now : c.requestId = NextId /\ Prepare(c, now)
    BY <1>1 DEF PrepareAny, PreparePlace, PrepareCancel, PlaceCommand, CancelCommand
  <2>2. Accepted' = Accepted /\ \A id \in Accepted : commands'[id] = commands[id]
    BY <2>1, PrepareRow DEF Inductive, Accepted
  <2> QED BY <2>1, <2>2, SameBook DEF Prepare
<1>2. CASE SubmitAny
  BY <1>2, ReadingsInRange, SubmitIsApply DEF SubmitAny, Submit, Inductive
<1>3. CASE ExpireAny
  BY <1>3, ReadingsInRange, ExpireIsExpire DEF ExpireAny, ExpireStale, Inductive
<1>4. CASE Advance
  BY <1>4, SameBook DEF Advance, Accepted
<1> QED BY <1>1, <1>2, <1>3, <1>4 DEF Next

(* The store implements the in-memory book: for every matching of any      *)
(* commands, a step of the database applies one stored command that has no *)
(* receipt yet, or expires, or leaves the book alone (store.go 97 to 261). *)
THEOREM StoreImplementsBook == Spec => ImplementsBook
<1>1. Init => Book!Init
  <2> SUFFICES ASSUME Init PROVE AbstractBook = EmptyBook
    BY DEF Book!Init
  <2>1. Accepted = {}
    BY DEF Init, Accepted
  <2>2. Receipts = <<>>
    BY <2>1 DEF Receipts
  <2> QED BY <2>2 DEF Init, AbstractBook, EmptyBook, Receipts, Receipt
<1> QED BY <1>1, StepIsBookStep, Always, PTL DEF Spec, ImplementsBook

-----------------------------------------------------------------------------
(* The book of the tables is one that commands can make, so what           *)
(* MatchingBook_proofs shows of every book is true of the tables.          *)
BookHolds == BookOk(market.sequence, market.time, orders, Receipts)

(* A row: what Prepare checked of its command is still true.  A Place is   *)
(* under ids that the server gave it; a Cancel names an order of its owner.*)
Blank(c) == <<c.side, c.quantity, c.price, c.expiresAt>> = <<"", 0, 0, 0>>

PlaceRow(r, id) ==
    LET c == r.command
    IN  /\ c = [requestId |-> id, orderId |-> id, owner |-> c.owner, action |-> "Place",
                side |-> c.side, quantity |-> c.quantity, price |-> c.price,
                expiresAt |-> r.preparedAt + OrderTTL]
        /\ NotionalFits(c.quantity, c.price) /\ c.side \in Sides

OwnedIn(o, c) == \E i \in DOMAIN o : o[i].orderId = c.orderId /\ o[i].owner = c.owner

CancelRow(r, o) == r.command.action = "Cancel" /\ Blank(r.command) /\ OwnedIn(o, r.command)

RowOk(r, id, o) ==
    /\ r.preparedAt \in Nat /\ r.preparedAt >= 1 /\ r.deadline = r.preparedAt + CommandTTL
    /\ r.command.owner \in Eligible
    /\ IsRequest(r.command)
    /\ PlaceRow(r, id) \/ CancelRow(r, o)

RowsOk == \A id \in DOMAIN commands : RowOk(commands[id], id, orders)

(* An accepted row was signed by its owner and applied in time.            *)
AcceptedInTime == \A id \in Accepted : Authorised(id)

MatchesRecorded == matches = Recorded(Receipts)

Consistent ==
    /\ Inductive
    /\ BookHolds
    /\ RowsOk
    /\ AcceptedInTime
    /\ MatchesRecorded
    /\ RejectedOnlyWhenFull

-----------------------------------------------------------------------------
(* A step of the book keeps its orders and receipts.                       *)
LEMMA BookStepKeeps ==
    ASSUME Consistent, BookStep PROVE BookHolds' /\ OrdersStay(orders, orders')
<1>1. IsBook(AbstractBook, market.sequence, market.time, orders, Receipts)
  BY AbstractIs
<1>2. IsBook(AbstractBook', market'.sequence, market'.time, orders', Receipts')
  BY DEF IsBook, AbstractBook, Receipts, Receipt
<1>3. BookOk(market.sequence, market.time, orders, Receipts)
  BY DEF Consistent, BookHolds
<1>4. ASSUME NEW s, NEW t, NEW n, NEW p, IsBook(AbstractBook', s, t, n, p), BookOk(s, t, n, p),
             OrdersStay(orders, n)
      PROVE  BookHolds' /\ OrdersStay(orders, orders')
  <2>1. market'.sequence = s /\ market'.time = t /\ orders' = n /\ Receipts' = p
    BY <1>2, <1>4 DEF IsBook
  <2> QED BY <1>4, <2>1 DEF BookHolds
<1>5. CASE \E id \in DOMAIN commands, now \in Times :
              Book!ApplyCommand(commands[id].command, now)
  <2>1. PICK id \in DOMAIN commands, now \in Times :
              Book!ApplyCommand(commands[id].command, now)
    BY <1>5
  <2>2. PICK c : c = commands[id].command
    OBVIOUS
  <2>3. /\ c.requestId \notin DOMAIN AbstractBook.receipts /\ Valid(AbstractBook, c, now)
        /\ AbstractBook' = Apply(AbstractBook, c, now)
    BY <2>1, <2>2 DEF Book!ApplyCommand
  <2>4. AbstractBook.receipts = Receipts
    BY <1>1 DEF IsBook
  <2>5. IsRequest(c) /\ now \in Int
    BY <2>2, BoundsAssumption DEF Consistent, RowsOk, RowOk, Times
  <2>6. PICK n, p : /\ IsBook(Apply(AbstractBook, c, now), market.sequence + 1, now, n, p)
                    /\ BookOk(market.sequence + 1, now, n, p) /\ OrdersStay(orders, n)
    BY <1>1, <1>3, <2>3, <2>4, <2>5, ApplyKeeps
  <2> QED BY <1>4, <2>3, <2>6
<1>6. CASE \E now \in Times : Book!ExpireOrders(now)
  <2>1. PICK now \in Times : Book!ExpireOrders(now)
    BY <1>6
  <2>2. now >= AbstractBook.time /\ AbstractBook' = Expire(AbstractBook, now)
    BY <2>1 DEF Book!ExpireOrders
  <2>3. AbstractBook.time = market.time
    BY <1>1 DEF IsBook
  <2>4. now \in Int /\ market.time =< now
    BY <1>3, <2>2, <2>3, BoundsAssumption DEF BookOk, Times
  <2>5. PICK n : n = ExpiredOrders(orders, now)
    OBVIOUS
  <2>6. IsBook(AbstractBook', market.sequence, now, n, Receipts)
    BY <1>1, <2>2, <2>5, ExpireIs
  <2>7. BookOk(market.sequence, now, n, Receipts)
    BY <1>3, <2>4, <2>5, ExpireKeeps
  <2>8. OrdersStay(orders, n)
    BY <1>3, <2>4, <2>5, ExpiredOrdersAre DEF BookOk, OrdersOk, ExpiredTo, AgedList, OrdersStay
  <2> QED BY <1>4, <2>6, <2>7, <2>8
<1> QED BY <1>5, <1>6 DEF BookStep

LEMMA StepKeepsBook ==
    ASSUME Consistent, [Next]_vars PROVE BookHolds' /\ OrdersStay(orders, orders')
<1>1. BookStep \/ AbstractBook' = AbstractBook
  BY StepIsBookStep DEF Consistent
<1>2. CASE AbstractBook' = AbstractBook
  <2>1. market'.sequence = market.sequence /\ market'.time = market.time /\ orders' = orders
        /\ Receipts' = Receipts
    BY <1>2 DEF AbstractBook, Receipts, Receipt
  <2>2. \A i \in DOMAIN orders : Aged(orders[i], orders[i])
    BY DEF Consistent, BookHolds, BookOk, OrdersOk, Aged, SameTerms, IsOrder, Columns
  <2> QED BY <2>1, <2>2 DEF Consistent, BookHolds, OrdersStay
<1> QED BY <1>1, <1>2, BookStepKeeps

(* The rows, as far as they do not change.                                 *)
LEMMA RowStays ==
    ASSUME NEW r, NEW id, NEW o, RowOk(r, id, o), NEW p, OrdersStay(o, p),
           NEW n, n.command = r.command, n.preparedAt = r.preparedAt, n.deadline = r.deadline
    PROVE  RowOk(n, id, p)
<1>1. PICK c : c = r.command
  OBVIOUS
<1>2. OwnedIn(o, c) => OwnedIn(p, c)
  BY DEF OwnedIn, OrdersStay, Aged, SameTerms
<1>3. CancelRow(r, o) => CancelRow(n, p)
  BY <1>1, <1>2 DEF CancelRow
<1>4. PlaceRow(r, id) => PlaceRow(n, id)
  BY Zenon DEF PlaceRow
<1> QED BY <1>3, <1>4 DEF RowOk

(* A command is prepared: its row is as RowOk says.                        *)
LEMMA PlaceCommandIs ==
    ASSUME NEW owner, NEW side, NEW q \in Int, NEW p \in Int, NEW now \in Nat
    PROVE  LET c == PlaceCommand(owner, side, q, p, now)
           IN  /\ c.requestId = NextId /\ c.action = "Place" /\ IsRequest(c)
               /\ c = [requestId |-> NextId, orderId |-> NextId, owner |-> c.owner,
                       action |-> "Place", side |-> c.side, quantity |-> c.quantity,
                       price |-> c.price, expiresAt |-> now + OrderTTL]
BY TTLAssumption DEF PlaceCommand, IsRequest

LEMMA CancelCommandIs ==
    ASSUME NEW owner, NEW orderId
    PROVE  LET c == CancelCommand(owner, orderId)
           IN  c.requestId = NextId /\ c.action = "Cancel" /\ IsRequest(c)
<1>1. PICK none : none = ""
  OBVIOUS
<1>2. PICK c : c = CancelCommand(owner, orderId)
  OBVIOUS
<1>3. c = [requestId |-> NextId, orderId |-> orderId, owner |-> owner, action |-> "Cancel",
           side |-> none, quantity |-> 0, price |-> 0, expiresAt |-> 0]
  BY <1>1, <1>2, Zenon DEF CancelCommand
<1>4. c.requestId = NextId /\ c.action = "Cancel" /\ IsRequest(c)
  BY <1>3 DEF IsRequest
<1> QED BY <1>2, <1>4

(* What PrepareAny prepares.                                               *)
Preparable(c, now) ==
    /\ now \in Nat /\ c.requestId = NextId /\ IsRequest(c)
    /\ \/ c.action = "Cancel"
       \/ /\ c.action = "Place"
          /\ c = [requestId |-> NextId, orderId |-> NextId, owner |-> c.owner,
                  action |-> "Place", side |-> c.side, quantity |-> c.quantity,
                  price |-> c.price, expiresAt |-> now + OrderTTL]

LEMMA PrepareAnyIs ==
    ASSUME Inductive, PrepareAny
    PROVE  \E c, now : Preparable(c, now) /\ Prepare(c, now)
<1>1. PICK owner \in Owners, reading \in Readings :
          \/ \E place \in Places : PreparePlace(owner, place[1], place[2], place[3], reading)
          \/ \E i \in DOMAIN orders : PrepareCancel(owner, orders[i].orderId, reading)
  BY DEF PrepareAny
<1>2. PICK now : now = EffectiveTime(reading)
  OBVIOUS
<1>3. now \in Nat
  BY <1>2, ReadingsInRange, BoundsAssumption DEF Inductive, Times
<1>4. CASE \E place \in Places : PreparePlace(owner, place[1], place[2], place[3], reading)
  <2>1. PICK place \in Places : PreparePlace(owner, place[1], place[2], place[3], reading)
    BY <1>4
  <2>2. PICK c : c = PlaceCommand(owner, place[1], place[2], place[3], now)
    OBVIOUS
  <2>3. Preparable(c, now)
    <3>1. place[2] \in Int /\ place[3] \in Int
      BY PlacesAssumption
    <3> QED BY <1>3, <2>2, <3>1, PlaceCommandIs DEF Preparable
  <2>4. Prepare(c, now)
    BY <1>2, <2>1, <2>2 DEF PreparePlace
  <2> QED BY <2>3, <2>4
<1>5. CASE \E i \in DOMAIN orders : PrepareCancel(owner, orders[i].orderId, reading)
  <2>1. PICK i \in DOMAIN orders : PrepareCancel(owner, orders[i].orderId, reading)
    BY <1>5
  <2>2. PICK c : c = CancelCommand(owner, orders[i].orderId)
    OBVIOUS
  <2>3. Preparable(c, now)
    BY <1>3, <2>2, CancelCommandIs DEF Preparable
  <2>4. Prepare(c, now)
    BY <1>2, <2>1, <2>2 DEF PrepareCancel
  <2> QED BY <2>3, <2>4
<1> QED BY <1>1, <1>4, <1>5

LEMMA PreparedRowOk ==
    ASSUME Inductive, NEW c, NEW now, Preparable(c, now), Prepare(c, now)
    PROVE  RowOk(commands'[NextId], NextId, orders)
<1>1. PICK n, id : n = commands'[NextId] /\ id = NextId
  OBVIOUS
<1>2. n.command = c /\ n.preparedAt = now /\ n.deadline = now + CommandTTL
  BY <1>1, PrepareRow DEF Preparable, Inductive
<1>3. c.owner \in Eligible /\ Valid(Loaded, c, now)
  BY DEF Prepare
<1>4. IsBook(Loaded, market.sequence, market.time, orders, <<>>)
  BY DEF IsBook, Loaded
<1>5. now >= 1 /\ (Placeable(orders, c, now) \/ Cancellable(orders, c))
  BY <1>3, <1>4, ValidIs
<1>6. CASE c.action = "Cancel"
  <2>1. Blank(c)
    BY <1>3, <1>6, Zenon DEF Valid, Blank
  <2>2. OwnedIn(orders, c)
    BY <1>5, <1>6 DEF Placeable, Cancellable, OwnedIn
  <2>3. CancelRow(n, orders)
    BY <1>2, <1>6, <2>1, <2>2 DEF CancelRow
  <2> QED BY <1>1, <1>2, <1>3, <1>5, <2>3 DEF RowOk, Preparable
<1>7. CASE c.action = "Place"
  <2>1. NotionalFits(c.quantity, c.price) /\ c.side \in Sides
    BY <1>5, <1>7 DEF Placeable, Cancellable
  <2>2. c = [requestId |-> id, orderId |-> id, owner |-> c.owner, action |-> "Place",
             side |-> c.side, quantity |-> c.quantity, price |-> c.price,
             expiresAt |-> now + OrderTTL]
    BY <1>1, <1>7 DEF Preparable
  <2>3. PlaceRow(n, id)
    BY <1>2, <2>1, <2>2 DEF PlaceRow
  <2> QED BY <1>1, <1>2, <1>3, <1>5, <2>3 DEF RowOk, Preparable
<1> QED BY <1>6, <1>7 DEF Preparable

-----------------------------------------------------------------------------
(* A command that was valid when it was prepared is valid when it is       *)
(* submitted in time, unless the sequence numbers have run out.            *)
LEMMA StillValid ==
    ASSUME Consistent, NEW id \in DOMAIN commands, commands[id].status = "pending",
           NEW signature, NEW now \in Times, now >= market.time,
           Verified(commands[id], signature, now), market.sequence # MaxInt64
    PROVE  Valid(Loaded, commands[id].command, now)
<1>1. PICK row, c : row = commands[id] /\ c = row.command
  OBVIOUS
<1>2. /\ row.preparedAt \in Nat /\ row.preparedAt >= 1
      /\ row.deadline = row.preparedAt + CommandTTL
      /\ PlaceRow(row, id) \/ CancelRow(row, orders)
  BY <1>1 DEF Consistent, RowsOk, RowOk
<1>3. row.preparedAt <= now /\ now < row.deadline
  BY <1>1 DEF Verified
<1>4. now \in Int
  BY BoundsAssumption DEF Times
<1>5. now >= 1
  BY <1>2, <1>3, <1>4
<1>6. PICK b : b = Loaded
  OBVIOUS
<1>7. b.time = market.time /\ b.sequence = market.sequence /\ b.orders = orders
  BY <1>6 DEF Loaded
<1>8. CASE PlaceRow(row, id)
  <2>1. c.action = "Place" /\ c.orderId = id /\ c.expiresAt = row.preparedAt + OrderTTL
        /\ NotionalFits(c.quantity, c.price) /\ c.side \in Sides
    BY <1>1, <1>8 DEF PlaceRow
  <2>2. c.expiresAt > now
    BY <1>2, <1>3, <1>4, <2>1, TTLAssumption
  <2>3. ASSUME NEW i \in DOMAIN orders, orders[i].orderId = id PROVE FALSE
    <3>1. PICK j \in DOMAIN Receipts : PlacedBy(Receipts[j], orders[i])
      BY DEF Consistent, BookHolds, BookOk, PlacedOk, HasReceipts
    <3>2. j \in Accepted /\ Receipts[j].command = commands[j].command
      BY <3>1 DEF Receipts, Receipt
    <3>3. j \in DOMAIN commands /\ commands[j].status = "accepted"
      BY <3>2 DEF Accepted
    <3>4. commands[j].command.action = "Place" /\ commands[j].command.orderId = id
      BY <2>3, <3>1, <3>2 DEF PlacedBy
    <3>5. PlaceRow(commands[j], j)
      BY <3>3, <3>4 DEF Consistent, RowsOk, RowOk, CancelRow
    <3>6. commands[j].command.orderId = j
      <4>1. PICK x : x = commands[j].command
        OBVIOUS
      <4> QED BY <3>5, <4>1 DEF PlaceRow
    <3> QED BY <3>3, <3>4, <3>6
  <2>4. ~HasOrder(b, c.orderId)
    BY <1>7, <2>1, <2>3 DEF HasOrder
  <2> QED BY <1>1, <1>5, <1>6, <1>7, <2>1, <2>2, <2>4, Zenon DEF Valid
<1>9. CASE CancelRow(row, orders)
  <2>1. c.action = "Cancel" /\ Blank(c) /\ OwnedIn(orders, c)
    BY <1>1, <1>9 DEF CancelRow
  <2>2. PICK i \in DOMAIN orders : orders[i].orderId = c.orderId /\ orders[i].owner = c.owner
    BY <2>1 DEF OwnedIn
  <2>3. \A j \in DOMAIN orders : orders[j].orderId = c.orderId => j = i
    BY <2>2 DEF Consistent, BookHolds, BookOk, OrdersOk
  <2>4. HasOrder(b, c.orderId) /\ OrderIndex(b, c.orderId) = i
    BY <1>7, <2>2, <2>3 DEF HasOrder, OrderIndex
  <2>5. b.orders[OrderIndex(b, c.orderId)].owner = c.owner
    BY <1>7, <2>2, <2>4
  <2> QED BY <1>1, <1>5, <1>6, <1>7, <2>1, <2>4, <2>5, Zenon DEF Valid, Blank
<1> QED BY <1>2, <1>8, <1>9

(* The result of an accepted command bears the time of its transaction.    *)
LEMMA ResultTime ==
    ASSUME NEW c, NEW now PROVE ResultOf(Apply(Loaded, c, now), c).time = now
<1>1. IsBook(Loaded, market.sequence, market.time, orders, <<>>)
  BY DEF IsBook, Loaded
<1>2. ASSUME NEW b, NEW s, NEW n, NEW result, IsBook(b, s, now, n, Received(<<>>, c, result)),
             result.time = now
      PROVE  ResultOf(b, c).time = now
  BY <1>2 DEF IsBook, ResultOf, Received
<1>3. PICK b, next : b = Apply(Loaded, c, now) /\ next = ExpiredOrders(orders, now)
  OBVIOUS
<1>4. CASE c.action = "Cancel"
  <2>1. PICK i : i = CHOOSE k \in DOMAIN next : next[k].orderId = c.orderId
    OBVIOUS
  <2>2. PICK result : result = CancelResult(market.sequence + 1, now, next, i)
    OBVIOUS
  <2>3. IsBook(b, market.sequence + 1, now, CancelledOrders(next, i), Received(<<>>, c, result))
    BY <1>1, <1>3, <1>4, <2>1, <2>2, ApplyIs
  <2>4. result.time = now
    BY <2>2 DEF CancelResult
  <2> QED BY <1>2, <1>3, <2>3, <2>4
<1>5. CASE c.action # "Cancel"
  <2>1. PICK m : m = MatchAll(next, c, market.sequence + 1, now)
    OBVIOUS
  <2>2. PICK result : result = PlaceResult(market.sequence + 1, now, m)
    OBVIOUS
  <2>3. IsBook(b, market.sequence + 1, now, Append(m.orders, m.incoming), Received(<<>>, c, result))
    BY <1>1, <1>3, <1>5, <2>1, <2>2, ApplyIs
  <2>4. result.time = now
    BY <2>2 DEF PlaceResult
  <2> QED BY <1>2, <1>3, <2>3, <2>4
<1> QED BY <1>4, <1>5

LEMMA RecordedReceived ==
    ASSUME NEW r, NEW c, c.requestId \notin DOMAIN r, NEW result
    PROVE  Recorded(Received(r, c, result)) = Recorded(r) \cup ToSet(result.matches)
<1>1. PICK n, x, id : n = Received(r, c, result) /\ x = n[c.requestId] /\ id = c.requestId
  OBVIOUS
<1>2. OneMore(r, id, x, n) /\ x.result = result
  BY <1>1, NewReceipt
<1>3. /\ DOMAIN n = DOMAIN r \cup {id}
      /\ ToSet(n[id].result.matches) = ToSet(result.matches)
      /\ \A k \in DOMAIN r : ToSet(n[k].result.matches) = ToSet(r[k].result.matches)
  BY <1>2 DEF OneMore
<1> QED BY <1>1, <1>3 DEF Recorded

-----------------------------------------------------------------------------
(* Each action keeps the tables consistent.  RowsAt is what is left to     *)
(* show once the book is known to be one that commands can make.           *)
RowsAt ==
    /\ \A id \in DOMAIN commands' : RowOk(commands'[id], id, orders')
    /\ AcceptedInTime'
    /\ MatchesRecorded'
    /\ RejectedOnlyWhenFull'

LEMMA PrepareRowsAt ==
    ASSUME Consistent, PrepareAny PROVE RowsAt
<1>1. PICK c, now : Preparable(c, now) /\ Prepare(c, now)
  BY PrepareAnyIs DEF Consistent
<1>2. /\ DOMAIN commands' = DOMAIN commands \cup {NextId}
      /\ \A id \in DOMAIN commands : commands'[id] = commands[id]
      /\ commands'[NextId].status = "pending" /\ NextId \notin DOMAIN commands
  BY <1>1, PrepareRow DEF Preparable, Consistent, Inductive
<1>3. UNCHANGED <<market, orders, matches>>
  BY <1>1 DEF Prepare
<1>4. RowOk(commands'[NextId], NextId, orders)
  BY <1>1, PreparedRowOk DEF Consistent
<1>5. \A id \in DOMAIN commands' : RowOk(commands'[id], id, orders')
  BY <1>2, <1>3, <1>4 DEF Consistent, RowsOk
<1>6. Accepted' = Accepted
  BY <1>2 DEF Accepted
<1>7. Accepted \subseteq DOMAIN commands
  BY DEF Accepted
<1>8. AcceptedInTime'
  BY <1>2, <1>6, <1>7 DEF Consistent, AcceptedInTime, Authorised
<1>9. Receipts' = Receipts
  BY <1>2, <1>6, <1>7 DEF Receipts, Receipt
<1>10. MatchesRecorded'
  BY <1>3, <1>9 DEF Consistent, MatchesRecorded, Recorded
<1>11. RejectedOnlyWhenFull'
  BY <1>2, <1>3 DEF Consistent, RejectedOnlyWhenFull, Rows
<1> QED BY <1>5, <1>8, <1>10, <1>11 DEF RowsAt

(* A row that is decided.                                                  *)
LEMMA DecideRows ==
    ASSUME Consistent, OrdersStay(orders, orders'), NEW id \in DOMAIN commands,
           NEW status, NEW signature, NEW result, Decide(id, status, signature, result)
    PROVE  \A i \in DOMAIN commands' : RowOk(commands'[i], i, orders')
<1>1. /\ DOMAIN commands' = DOMAIN commands
      /\ \A i \in DOMAIN commands : i # id => commands'[i] = commands[i]
      /\ commands'[id].command = commands[id].command
      /\ commands'[id].preparedAt = commands[id].preparedAt
      /\ commands'[id].deadline = commands[id].deadline
  BY DecidedRow DEF Consistent, Inductive
<1> TAKE i \in DOMAIN commands'
<1>2. PICK r, n : r = commands[i] /\ n = commands'[i]
  OBVIOUS
<1>3. /\ i \in DOMAIN commands
      /\ n.command = r.command /\ n.preparedAt = r.preparedAt /\ n.deadline = r.deadline
  BY <1>1, <1>2
<1>4. RowOk(r, i, orders)
  BY <1>2, <1>3 DEF Consistent, RowsOk
<1>5. PICK p : p = orders'
  OBVIOUS
<1>6. RowOk(n, i, p)
  BY <1>3, <1>4, <1>5, RowStays
<1> QED BY <1>2, <1>5, <1>6

LEMMA RefusedRowsAt ==
    ASSUME Consistent, OrdersStay(orders, orders'), NEW id \in DOMAIN commands, NEW signature,
           NEW now \in Times, now >= market.time,
           SubmitLate(id, signature, now) \/ SubmitRejected(id, signature, now)
    PROVE  RowsAt
<1>1. PICK status \in {"expired", "rejected"} :
           /\ Decide(id, status, signature, NoResult)
           /\ status = "rejected" => market.sequence = MaxInt64
  BY StillValid DEF SubmitLate, SubmitRejected
<1>2. commands[id].status = "pending" /\ UNCHANGED <<market, orders, matches>>
  BY DEF SubmitLate, SubmitRejected
<1>3. /\ DOMAIN commands' = DOMAIN commands
      /\ \A i \in DOMAIN commands : i # id => commands'[i] = commands[i]
      /\ commands'[id].status = status
  BY <1>1, DecidedRow DEF Consistent, Inductive
<1>4. Accepted' = Accepted /\ \A i \in Accepted : commands'[i] = commands[i] /\ i \in DOMAIN commands
  BY <1>1, <1>2, <1>3 DEF Accepted
<1>5. Receipts' = Receipts
  BY <1>4 DEF Receipts, Receipt
<1>6. AcceptedInTime'
  BY <1>4 DEF Consistent, AcceptedInTime, Authorised
<1>7. MatchesRecorded'
  BY <1>2, <1>5 DEF Consistent, MatchesRecorded, Recorded
<1>8. RejectedOnlyWhenFull'
  BY <1>1, <1>2, <1>3 DEF Consistent, RejectedOnlyWhenFull, Rows
<1>9. \A i \in DOMAIN commands' : RowOk(commands'[i], i, orders')
  BY <1>1, DecideRows
<1> QED BY <1>6, <1>7, <1>8, <1>9 DEF RowsAt

LEMMA AcceptedRowsAt ==
    ASSUME Consistent, OrdersStay(orders, orders'), NEW id \in DOMAIN commands, NEW signature,
           NEW now \in Times, SubmitAccepted(id, signature, now)
    PROVE  RowsAt
<1>1. PICK c, b, result : /\ c = commands[id].command /\ b = Apply(Loaded, c, now)
                          /\ result = ResultOf(b, c)
  OBVIOUS
<1>2. /\ Decide(id, "accepted", signature, result) /\ Save(b, ToSet(result.matches))
      /\ commands[id].status = "pending" /\ Verified(commands[id], signature, now)
      /\ Valid(Loaded, c, now)
  BY <1>1 DEF SubmitAccepted
<1>3. market.sequence # MaxInt64
  BY <1>2, Zenon DEF Valid, Loaded
<1>4. /\ DOMAIN commands' = DOMAIN commands
      /\ \A i \in DOMAIN commands : i # id => commands'[i] = commands[i]
      /\ commands'[id].status = "accepted" /\ commands'[id].signature = signature
      /\ commands'[id].preparedAt = commands[id].preparedAt
      /\ commands'[id].result = result
  BY <1>2, DecidedRow DEF Consistent, Inductive
<1>5. result.time = now
  BY <1>1, ResultTime
<1>6. AcceptedInTime'
  <2>1. Authorised(id)'
    BY <1>2, <1>4, <1>5 DEF Verified, Authorised
  <2>2. \A i \in Accepted : i # id => Authorised(i)'
    BY <1>4 DEF Consistent, AcceptedInTime, Authorised, Accepted
  <2>3. \A i \in Accepted' : i = id \/ i \in Accepted
    BY <1>4 DEF Accepted
  <2> QED BY <2>1, <2>2, <2>3 DEF AcceptedInTime
<1>7. MatchesRecorded'
  <2>1. c.requestId \notin DOMAIN Receipts /\ Receipts' = Received(Receipts, c, result)
    BY <1>1, AcceptIsReceived DEF Consistent
  <2>2. Recorded(Receipts') = Recorded(Receipts) \cup ToSet(result.matches)
    BY <2>1, RecordedReceived
  <2>3. matches' = matches \cup ToSet(result.matches)
    BY <1>2 DEF Save
  <2> QED BY <2>2, <2>3 DEF Consistent, MatchesRecorded, Recorded
<1>8. RejectedOnlyWhenFull'
  BY <1>3, <1>4 DEF Consistent, RejectedOnlyWhenFull, Rows
<1>9. \A i \in DOMAIN commands' : RowOk(commands'[i], i, orders')
  BY <1>2, DecideRows
<1> QED BY <1>6, <1>7, <1>8, <1>9 DEF RowsAt

LEMMA ExpireRowsAt ==
    ASSUME Consistent, OrdersStay(orders, orders'), NEW now, ExpireAt(now)
    PROVE  RowsAt
<1>1. commands' = [id \in DOMAIN commands |-> CloseLate(commands[id], now)]
  BY DEF ExpireAt
<1>2. matches' = matches /\ market'.sequence = market.sequence
  BY ExpiredAt DEF ExpireAt, Save, IsBook
<1>3. DOMAIN commands' = DOMAIN commands
  BY <1>1
<1>4. ASSUME NEW id \in DOMAIN commands
      PROVE  LET r == commands[id]
                 n == commands'[id]
             IN  /\ n.command = r.command /\ n.preparedAt = r.preparedAt /\ n.deadline = r.deadline
                 /\ (n.status = "accepted") = (r.status = "accepted")
                 /\ n.status = "rejected" => n = r
                 /\ r.status # "pending" => n = r
  BY <1>1, ClosedRow DEF Consistent, Inductive, RowsInPlace
<1>5. Accepted' = Accepted /\ \A i \in Accepted : commands'[i] = commands[i] /\ i \in DOMAIN commands
  BY <1>3, <1>4 DEF Accepted
<1>6. Receipts' = Receipts
  BY <1>5 DEF Receipts, Receipt
<1>7. AcceptedInTime'
  BY <1>5 DEF Consistent, AcceptedInTime, Authorised
<1>8. MatchesRecorded'
  BY <1>2, <1>6 DEF Consistent, MatchesRecorded, Recorded
<1>9. RejectedOnlyWhenFull'
  BY <1>2, <1>3, <1>4 DEF Consistent, RejectedOnlyWhenFull, Rows
<1>10. ASSUME NEW i \in DOMAIN commands PROVE RowOk(commands'[i], i, orders')
  <2>1. PICK r, n, p : r = commands[i] /\ n = commands'[i] /\ p = orders'
    OBVIOUS
  <2>2. n.command = r.command /\ n.preparedAt = r.preparedAt /\ n.deadline = r.deadline
    BY <1>4, <2>1
  <2>3. RowOk(r, i, orders)
    BY <2>1 DEF Consistent, RowsOk
  <2>4. RowOk(n, i, p)
    BY <2>1, <2>2, <2>3, RowStays
  <2> QED BY <2>1, <2>4
<1> QED BY <1>3, <1>7, <1>8, <1>9, <1>10 DEF RowsAt

LEMMA OtherRowsAt ==
    ASSUME Consistent, UNCHANGED <<market, orders, matches, commands>> PROVE RowsAt
BY DEF Consistent, RowsAt, RowsOk, AcceptedInTime, Accepted, Authorised, MatchesRecorded,
       Recorded, Receipts, Receipt, RejectedOnlyWhenFull, Rows

LEMMA StepConsistent == Consistent /\ [Next]_vars => Consistent'
<1> SUFFICES ASSUME Consistent, [Next]_vars PROVE Consistent'
  OBVIOUS
<1>1. Inductive'
  BY StepInductive DEF Consistent
<1>2. BookHolds' /\ OrdersStay(orders, orders')
  BY StepKeepsBook
<1>3. RowsAt
  <2>1. CASE PrepareAny
    BY <2>1, PrepareRowsAt
  <2>2. CASE SubmitAny
    <3>1. PICK id \in DOMAIN commands, reading \in Readings,
               signature \in OwnerSignatures \cup OtherSignatures : Submit(id, signature, reading)
      BY <2>2 DEF SubmitAny
    <3>2. PICK now : now = EffectiveTime(reading)
      OBVIOUS
    <3>3. now \in Times /\ now >= market.time
      BY <3>2, ReadingsInRange DEF Consistent, Inductive
    <3> QED BY <1>2, <3>1, <3>2, <3>3, RefusedRowsAt, AcceptedRowsAt DEF Submit
  <2>3. CASE ExpireAny
    BY <1>2, <2>3, ExpireRowsAt DEF ExpireAny, ExpireStale
  <2>4. CASE Advance
    BY <2>4, OtherRowsAt DEF Advance
  <2>5. CASE UNCHANGED vars
    BY <2>5, OtherRowsAt DEF vars
  <2> QED BY <2>1, <2>2, <2>3, <2>4, <2>5 DEF Next
<1> QED BY <1>1, <1>2, <1>3 DEF Consistent, RowsAt, RowsOk

LEMMA InitConsistent == Init => Consistent
<1> SUFFICES ASSUME Init PROVE Consistent
  OBVIOUS
<1>1. Inductive
  BY InitInductive
<1>2. Accepted = {} /\ Receipts = <<>> /\ DOMAIN commands = {}
  BY DEF Init, Accepted, Receipts
<1>3. BookHolds
  BY <1>2, EmptyBookOk DEF Init, BookHolds
<1>4. RowsOk /\ AcceptedInTime /\ RejectedOnlyWhenFull
  BY <1>2 DEF RowsOk, AcceptedInTime, RejectedOnlyWhenFull, Rows
<1>5. MatchesRecorded
  <2>1. DOMAIN Receipts = {}
    BY <1>2 DEF Receipts
  <2> QED BY <2>1 DEF Init, MatchesRecorded, Recorded
<1> QED BY <1>1, <1>3, <1>4, <1>5 DEF Consistent

LEMMA AlwaysConsistent == Spec => []Consistent
BY InitConsistent, StepConsistent, PTL DEF Spec

(* A command that its owner signed in time is never refused: validation at *)
(* Prepare still holds at Submit, whatever happened in between, unless the *)
(* sequence numbers have run out (store.go 97 to 145 and 187 to 261).      *)
THEOREM RefusedOnlyWhenFull == Spec => []RejectedOnlyWhenFull
<1>1. Consistent => RejectedOnlyWhenFull
  BY DEF Consistent
<1> QED BY <1>1, AlwaysConsistent, PTL

(* The tables agree: each match row is of one accepted command, each match *)
(* of an accepted command has its row, and the matched column of an order  *)
(* is the sum of its match rows (Store.save, store.go 300 to 352).         *)
THEOREM TablesAlwaysAgree == Spec => []TablesAgree
<1>1. Consistent => TablesAgree
  <2> SUFFICES ASSUME Consistent PROVE TablesAgree
    OBVIOUS
  <2>1. DOMAIN Receipts = Accepted /\ \A id \in Accepted : Receipts[id].result = commands[id].result
    BY DEF Receipts, Receipt
  <2>2. matches = Recorded(Receipts)
    BY DEF Consistent, MatchesRecorded
  <2>3. matches = UNION {ToSet(commands[id].result.matches) : id \in Accepted}
    BY <2>1, <2>2 DEF Recorded
  <2>4. ASSUME NEW m \in matches
        PROVE  Cardinality({id \in Accepted : m \in ToSet(commands[id].result.matches)}) = 1
    <3>1. PICK S : S = {id \in Accepted : m \in ToSet(commands[id].result.matches)}
      OBVIOUS
    <3>2. PICK id \in Accepted : m \in ToSet(commands[id].result.matches)
      BY <2>3, <2>4
    <3>3. \A i \in Accepted : m \in ToSet(commands[i].result.matches) =>
                                m.id[1] = Receipts[i].result.sequence
      BY <2>1 DEF Consistent, BookHolds, BookOk, MatchesOk
    <3>4. \A i, j \in Accepted : i # j => Receipts[i].result.sequence # Receipts[j].result.sequence
      BY <2>1 DEF Consistent, BookHolds, BookOk, ReceiptsOk
    <3>5. S = {id}
      BY <3>1, <3>2, <3>3, <3>4
    <3> QED BY <3>1, <3>5, FS_Singleton
  <2>5. ASSUME NEW i \in DOMAIN orders
        PROVE  orders[i].matched = MapThenSumSet(LAMBDA m : m.quantity,
                                      {m \in matches : orders[i].orderId \in {m.maker, m.taker}})
    <3>1. orders[i].matched = Total(Of(matches, orders[i].orderId))
      BY <2>2 DEF Consistent, BookHolds, BookOk, TotalsOk
    <3> QED BY <3>1, TotalOf, Zenon
  <2> QED BY <2>3, <2>4, <2>5 DEF TablesAgree
<1> QED BY <1>1, AlwaysConsistent, PTL

(* An order rests only on its owner's authority: it comes from an accepted *)
(* Place of the same terms, signed by the owner and applied within the     *)
(* time it was shown, and so does its cancellation (store.go 187 to 261).  *)
THEOREM OrdersAlwaysAuthorised == Spec => []OrdersAuthorised
<1>1. Consistent => OrdersAuthorised
  <2> SUFFICES ASSUME Consistent, NEW i \in DOMAIN orders
               PROVE  LET o == orders[i]
                      IN  /\ \E id \in DOMAIN commands :
                                /\ Authorised(id)
                                /\ commands[id].command =
                                      [PlaceCommand(o.owner, o.side, o.quantity, o.price, 0)
                                         EXCEPT !.requestId = id, !.orderId = o.orderId,
                                                !.expiresAt = o.expiresAt]
                                /\ o.acceptedAt = commands[id].result.time
                                /\ o.sequence = commands[id].result.sequence
                          /\ o.reason = "Cancelled" =>
                                \E id \in DOMAIN commands :
                                   /\ Authorised(id)
                                   /\ commands[id].command.action = "Cancel"
                                   /\ commands[id].command.orderId = o.orderId
                                   /\ commands[id].command.owner = o.owner
    BY DEF OrdersAuthorised
  <2>1. PICK o : o = orders[i]
    OBVIOUS
  <2>2. HasReceipts(Receipts, o)
    BY <2>1 DEF Consistent, BookHolds, BookOk, PlacedOk
  <2>3. /\ DOMAIN Receipts = Accepted
        /\ \A id \in Accepted : /\ Receipts[id].command = commands[id].command
                                /\ Receipts[id].result = commands[id].result
                                /\ id \in DOMAIN commands /\ Authorised(id)
    BY DEF Receipts, Receipt, Accepted, Consistent, AcceptedInTime
  <2>4. PICK id \in Accepted : PlacedBy(Receipts[id], o)
    BY <2>2, <2>3 DEF HasReceipts
  <2>5. PICK row, c : row = commands[id] /\ c = row.command
    OBVIOUS
  <2>6. /\ c.action = "Place" /\ c.orderId = o.orderId /\ c.owner = o.owner /\ c.side = o.side
        /\ c.quantity = o.quantity /\ c.price = o.price /\ c.expiresAt = o.expiresAt
        /\ row.result.sequence = o.sequence /\ row.result.time = o.acceptedAt
    BY <2>3, <2>4, <2>5 DEF PlacedBy
  <2>7. PlaceRow(row, id)
    BY <2>3, <2>5, <2>6 DEF Consistent, RowsOk, RowOk, CancelRow
  <2>8. c = [requestId |-> id, orderId |-> id, owner |-> c.owner, action |-> "Place",
             side |-> c.side, quantity |-> c.quantity, price |-> c.price,
             expiresAt |-> row.preparedAt + OrderTTL]
    BY <2>5, <2>7 DEF PlaceRow
  <2>9. c = [PlaceCommand(o.owner, o.side, o.quantity, o.price, 0)
               EXCEPT !.requestId = id, !.orderId = o.orderId, !.expiresAt = o.expiresAt]
    <3>1. PICK z, next, late : /\ z = PlaceCommand(o.owner, o.side, o.quantity, o.price, 0)
                               /\ next = NextId /\ late = 0 + OrderTTL
      OBVIOUS
    <3>2. z = [requestId |-> next, orderId |-> next, owner |-> o.owner, action |-> "Place",
               side |-> o.side, quantity |-> o.quantity, price |-> o.price, expiresAt |-> late]
      BY <3>1 DEF PlaceCommand
    <3>3. [z EXCEPT !.requestId = id, !.orderId = o.orderId, !.expiresAt = o.expiresAt] =
             [requestId |-> id, orderId |-> o.orderId, owner |-> o.owner, action |-> "Place",
              side |-> o.side, quantity |-> o.quantity, price |-> o.price,
              expiresAt |-> o.expiresAt]
      <4> DEFINE fields == {"requestId", "orderId", "owner", "action", "side", "quantity",
                            "price", "expiresAt"}
      <4>1. PICK w : w = [z EXCEPT !.requestId = id, !.orderId = o.orderId,
                                   !.expiresAt = o.expiresAt]
        OBVIOUS
      <4>2. DOMAIN w = fields /\ w = [f \in fields |-> w[f]]
        BY <3>2, <4>1
      <4>3. /\ w.requestId = id /\ w.orderId = o.orderId /\ w.owner = o.owner
            /\ w.action = "Place" /\ w.side = o.side /\ w.quantity = o.quantity
            /\ w.price = o.price /\ w.expiresAt = o.expiresAt
        BY <3>2, <4>1
      <4>4. w = [requestId |-> id, orderId |-> o.orderId, owner |-> o.owner, action |-> "Place",
                 side |-> o.side, quantity |-> o.quantity, price |-> o.price,
                 expiresAt |-> o.expiresAt]
        BY <4>2, <4>3
      <4> QED BY <4>1, <4>4, Zenon
    <3>4. c = [requestId |-> id, orderId |-> o.orderId, owner |-> o.owner, action |-> "Place",
               side |-> o.side, quantity |-> o.quantity, price |-> o.price,
               expiresAt |-> o.expiresAt]
      <4>1. c.orderId = id
        BY <2>8
      <4>2. o.orderId = id /\ row.preparedAt + OrderTTL = o.expiresAt
        BY <2>6, <2>8, <4>1
      <4> QED BY <2>6, <2>8, <4>2
    <3> QED BY <3>1, <3>3, <3>4
  <2>10. o.reason = "Cancelled" =>
            \E jd \in DOMAIN commands :
               /\ Authorised(jd)
               /\ commands[jd].command.action = "Cancel"
               /\ commands[jd].command.orderId = o.orderId
               /\ commands[jd].command.owner = o.owner
    BY <2>2, <2>3 DEF HasReceipts, CancelledBy
  <2>11. \E jd \in DOMAIN commands :
            /\ Authorised(jd)
            /\ commands[jd].command =
                  [PlaceCommand(o.owner, o.side, o.quantity, o.price, 0)
                     EXCEPT !.requestId = jd, !.orderId = o.orderId, !.expiresAt = o.expiresAt]
            /\ o.acceptedAt = commands[jd].result.time
            /\ o.sequence = commands[jd].result.sequence
    <3>1. id \in DOMAIN commands /\ Authorised(id)
      BY <2>3
    <3>2. commands[id].command = c /\ o.acceptedAt = commands[id].result.time
          /\ o.sequence = commands[id].result.sequence
      BY <2>5, <2>6
    <3>3. commands[id].command =
             [PlaceCommand(o.owner, o.side, o.quantity, o.price, 0)
                EXCEPT !.requestId = id, !.orderId = o.orderId, !.expiresAt = o.expiresAt]
      BY <2>9, <3>2, Zenon
    <3> QED BY <3>1, <3>2, <3>3, Zenon
  <2> QED BY <2>1, <2>10, <2>11, Zenon
<1> QED BY <1>1, AlwaysConsistent, PTL
=============================================================================
