------------------------- MODULE MatchingBook_proofs -------------------------
(***************************************************************************)
(* Lemmas about the matching core, for any limits and any book.            *)
(*                                                                         *)
(* BookOk says what is true of every book that commands can make: of its   *)
(* orders, its receipts and their matches, the totals that relate them,    *)
(* and that no two orders could match.  Expire, Cancel and Place keep it   *)
(* (ExpireKeeps, CancelKeeps, PlaceKeeps, ApplyKeeps), and they only age   *)
(* orders and add receipts.                                                *)
(*                                                                         *)
(* Matching is a fold over a set of candidates, and a total of quantities  *)
(* is one over a set of matches.  What is true of a fold is shown by a     *)
(* least set or number for which it would fail (SmallestSet, LeastNumber). *)
(***************************************************************************)
EXTENDS MatchingBook, FiniteSetTheorems, WellFoundedInduction, SequenceTheorems, TLAPS

-----------------------------------------------------------------------------
(* Induction over numbers and finite sets, by a least counterexample.      *)
LEMMA LeastNumber ==
    ASSUME NEW T, T \subseteq Nat, T # {}
    PROVE  \E n \in T : \A k \in T : n =< k
<1> DEFINE Less == {s \in Nat \X Nat : s[1] < s[2]}
<1>1. IsWellFoundedOn(Less, Nat)
  BY NatLessThanWellFounded DEF OpToRel
<1>2. PICK n \in T : \A k \in T : ~(<<k, n>> \in Less)
  <2> HIDE DEF Less
  <2> QED BY <1>1, WFMin
<1>3. ASSUME NEW k \in T PROVE n =< k
  <2>1. n \in Nat /\ k \in Nat /\ <<k, n>> \notin Less
    BY <1>2
  <2> QED BY <2>1
<1> QED BY <1>3

LEMMA SmallestSet ==
    ASSUME NEW S, IsFiniteSet(S), NEW T, T \subseteq SUBSET S, T # {}
    PROVE  \E A \in T : \A B \in T : B \subseteq A => B = A
<1>1. IsWellFoundedOn(StrictSubsetOrdering(S), SUBSET S)
  BY FS_StrictSubsetOrderingWellFounded, FS_FiniteSubsetsOfFinite
<1>2. PICK A \in T : \A B \in T : ~(<<B, A>> \in StrictSubsetOrdering(S))
  BY <1>1, WFMin
<1>3. ASSUME NEW B \in T, B \subseteq A, B # A PROVE FALSE
  <2>1. <<B, A>> \in StrictSubsetOrdering(S)
    BY <1>3 DEF StrictSubsetOrdering
  <2> QED BY <1>2, <2>1
<1> QED BY <1>3

-----------------------------------------------------------------------------
(* The sum of the quantities of a set of matches.                          *)
Total(S) == MapThenSumSet(LAMBDA m : m.quantity, S)

Pick(S) == CHOOSE x \in S : TRUE

IsTotals(S, f) ==
    f = [T \in SUBSET S |-> IF T = {} THEN 0 ELSE Pick(T).quantity + f[T \ {Pick(T)}]]

LEMMA TotalIs ==
    ASSUME NEW S PROVE Total(S) = (CHOOSE f : IsTotals(S, f))[S]
BY DEF Total, MapThenSumSet, MapThenFoldSet, IsTotals, Pick

LEMMA TotalsExist ==
    ASSUME NEW S, IsFiniteSet(S) PROVE \E f : IsTotals(S, f)
<1> DEFINE Small(n) == {T \in SUBSET S : Cardinality(T) =< n}
           Term(T, f) == IF T = {} THEN 0 ELSE Pick(T).quantity + f[T \ {Pick(T)}]
           Upto(n, f) == f = [T \in Small(n) |-> Term(T, f)]
           Bad == {n \in Nat : ~\E f : Upto(n, f)}
<1>1. \A T \in SUBSET S : IsFiniteSet(T) /\ Cardinality(T) \in Nat /\ Cardinality(T) =< Cardinality(S)
  BY FS_Subset, FS_CardinalityType
<1>2. \A T : T # {} => Pick(T) \in T
  BY DEF Pick
<1>3. 0 \notin Bad
  <2>1. Small(0) = {{}}
    BY <1>1, FS_EmptySet
  <2> DEFINE f == [T \in Small(0) |-> 0]
  <2>2. \A T \in Small(0) : Term(T, f) = 0
    BY <2>1
  <2>3. Upto(0, f)
    <3> HIDE DEF Term
    <3> QED BY <2>2
  <2> QED BY <2>3
<1>4. ASSUME NEW n \in Nat, n + 1 \in Bad PROVE n \in Bad
  <2> SUFFICES ASSUME NEW g, Upto(n, g) PROVE FALSE
    OBVIOUS
  <2> DEFINE f == [T \in Small(n + 1) |-> Term(T, g)]
  <2>1. ASSUME NEW T \in Small(n) PROVE f[T] = g[T]
    <3>1. T \in Small(n + 1)
      BY <1>1
    <3> HIDE DEF Small, Term
    <3> QED BY <3>1
  <2>2. ASSUME NEW T \in Small(n + 1) PROVE Term(T, f) = Term(T, g)
    <3>1. CASE T = {}
      BY <3>1
    <3>2. CASE T # {}
      <4>1. Pick(T) \in T /\ IsFiniteSet(T)
        BY <1>1, <1>2, <3>2
      <4>2. Cardinality(T \ {Pick(T)}) = Cardinality(T) - 1
        BY <4>1, FS_RemoveElement
      <4>3. T \ {Pick(T)} \in Small(n)
        BY <1>1, <4>2
      <4> HIDE DEF Small, f
      <4> QED BY <2>1, <3>2, <4>3
    <3> QED BY <3>1, <3>2
  <2>3. Upto(n + 1, f)
    <3> HIDE DEF Small, Term
    <3> QED BY <2>2
  <2> QED BY <1>4, <2>3
<1>5. Bad = {}
  <2> SUFFICES ASSUME Bad # {} PROVE FALSE
    OBVIOUS
  <2> HIDE DEF Bad
  <2>1. Bad \subseteq Nat
    BY DEF Bad
  <2>2. PICK n \in Bad : \A k \in Bad : n =< k
    BY <2>1, LeastNumber
  <2>3. n \in Nat /\ n # 0
    BY <1>3, <2>1
  <2>4. n - 1 \in Nat /\ n = (n - 1) + 1
    BY <2>3
  <2>5. n - 1 \in Bad
    BY <1>4, <2>4
  <2> QED BY <2>2, <2>3, <2>5
<1>6. PICK f : Upto(Cardinality(S), f)
  BY <1>1, <1>5
<1>7. Small(Cardinality(S)) = SUBSET S
  BY <1>1
<1> QED BY <1>6, <1>7 DEF IsTotals

(* Two totals agree where both are defined.                                *)
LEMMA TotalsAgree ==
    ASSUME NEW S, IsFiniteSet(S), NEW f, IsTotals(S, f), NEW R \in SUBSET S, NEW g, IsTotals(R, g)
    PROVE  \A T \in SUBSET R : f[T] = g[T]
<1> DEFINE Bad == {T \in SUBSET R : f[T] # g[T]}
<1>1. IsFiniteSet(R)
  BY FS_Subset
<1> SUFFICES ASSUME Bad # {} PROVE FALSE
  OBVIOUS
<1>2. PICK A \in Bad : \A B \in Bad : B \subseteq A => B = A
  <2> HIDE DEF Bad
  <2>1. Bad \subseteq SUBSET R
    BY DEF Bad
  <2> QED BY <1>1, <2>1, SmallestSet
<1>3. A # {}
  BY DEF IsTotals
<1>4. Pick(A) \in A
  BY <1>3 DEF Pick
<1>5. f[A \ {Pick(A)}] = g[A \ {Pick(A)}]
  BY <1>2, <1>4
<1>6. f[A] = g[A]
  BY <1>3, <1>4, <1>5 DEF IsTotals
<1> QED BY <1>6

LEMMA TotalUnfolds ==
    ASSUME NEW S, IsFiniteSet(S)
    PROVE  Total(S) = IF S = {} THEN 0 ELSE Pick(S).quantity + Total(S \ {Pick(S)})
<1> DEFINE R == S \ {Pick(S)}
<1>1. PICK f : f = (CHOOSE h : IsTotals(S, h))
  OBVIOUS
<1>2. IsTotals(S, f)
  BY <1>1, TotalsExist
<1>3. IsFiniteSet(R)
  BY FS_Subset
<1>4. PICK g : g = (CHOOSE h : IsTotals(R, h))
  OBVIOUS
<1>5. IsTotals(R, g)
  BY <1>3, <1>4, TotalsExist
<1>6. Total(S) = f[S] /\ Total(R) = g[R]
  BY <1>1, <1>4, TotalIs
<1>7. f[R] = g[R]
  BY <1>2, <1>5, TotalsAgree
<1>8. f[S] = IF S = {} THEN 0 ELSE Pick(S).quantity + f[R]
  BY <1>2 DEF IsTotals
<1> QED BY <1>6, <1>7, <1>8

LEMMA TotalOfNone == Total({}) = 0
<1>1. IsFiniteSet({})
  BY FS_EmptySet
<1>2. Total({}) = IF {} = {} THEN 0 ELSE Pick({}).quantity + Total({} \ {Pick({})})
  BY <1>1, TotalUnfolds, Zenon
<1> QED BY <1>2

LEMMA TotalWithout ==
    ASSUME NEW S, IsFiniteSet(S), \A m \in S : m.quantity \in Int, NEW x \in S
    PROVE  Total(S) \in Int /\ Total(S) = x.quantity + Total(S \ {x})
<1> DEFINE Good(A) == Total(A) \in Int /\ \A y \in A : Total(A) = y.quantity + Total(A \ {y})
           Bad == {A \in SUBSET S : ~Good(A)}
<1>1. \A A \in SUBSET S : IsFiniteSet(A)
  BY FS_Subset
<1>2. Bad = {}
  <2> SUFFICES ASSUME Bad # {} PROVE FALSE
    OBVIOUS
  <2>1. PICK A \in Bad : \A B \in Bad : B \subseteq A => B = A
    <3> HIDE DEF Bad
    <3>1. Bad \subseteq SUBSET S
      BY DEF Bad
    <3> QED BY <3>1, SmallestSet
  <2>2. \A B \in SUBSET A : B # A => Good(B)
    <3> HIDE DEF Good
    <3> QED BY <2>1
  <2>3. A # {}
    <3>1. Good({})
      BY TotalOfNone
    <3> QED BY <2>1, <3>1
  <2> DEFINE p == Pick(A)
  <2>4. p \in A
    BY <2>3 DEF Pick
  <2>5. Total(A) = p.quantity + Total(A \ {p})
    BY <1>1, <2>3, TotalUnfolds
  <2> HIDE DEF p
  <2>6. Total(A) \in Int
    BY <2>2, <2>4, <2>5
  <2>7. ASSUME NEW y \in A, y # p PROVE Total(A) = y.quantity + Total(A \ {y})
    <3>1. (A \ {p}) \ {y} = (A \ {y}) \ {p}
      OBVIOUS
    <3>2. Total(A \ {p}) \in Int /\ Total(A \ {p}) = y.quantity + Total((A \ {p}) \ {y})
      BY <2>2, <2>4, <2>7
    <3>3. Total(A \ {y}) \in Int /\ Total(A \ {y}) = p.quantity + Total((A \ {y}) \ {p})
      BY <2>2, <2>4, <2>7
    <3>4. Total((A \ {p}) \ {y}) \in Int
      BY <2>2, <2>4
    <3>5. p.quantity \in Int /\ y.quantity \in Int
      BY <2>4
    <3> DEFINE rest == Total((A \ {p}) \ {y})
               u == Total(A \ {p})
               v == Total(A \ {y})
    <3>6. Total(A) = p.quantity + u /\ u = y.quantity + rest /\ v = p.quantity + rest
      BY <2>5, <3>1, <3>2, <3>3, Zenon
    <3> HIDE DEF rest, u, v, Good, Bad
    <3>7. rest \in Int
      BY <3>4 DEF rest
    <3>8. Total(A) = y.quantity + v
      BY <3>5, <3>6, <3>7
    <3> QED BY <3>8 DEF v
  <2> QED BY <2>4, <2>5, <2>6, <2>7
<1> QED BY <1>2

(* Another match adds its quantity.                                        *)
LEMMA TotalAdds ==
    ASSUME NEW S, IsFiniteSet(S), \A m \in S : m.quantity \in Int,
           NEW x, x \notin S, x.quantity \in Int
    PROVE  Total(S \cup {x}) = Total(S) + x.quantity
<1>1. IsFiniteSet(S \cup {x})
  BY FS_AddElement
<1>2. (S \cup {x}) \ {x} = S
  OBVIOUS
<1>3. Total(S \cup {x}) \in Int /\ Total(S \cup {x}) = x.quantity + Total(S)
  BY <1>1, <1>2, TotalWithout
<1>4. Total(S) \in Int
  <2>1. CASE S = {}
    BY <2>1, TotalOfNone
  <2>2. CASE S # {}
    BY <2>2, TotalWithout
  <2> QED BY <2>1, <2>2
<1> QED BY <1>3, <1>4
-----------------------------------------------------------------------------
(* An order: its terms are within the limits, and each unit of its        *)
(* quantity is in one of the four columns.                                 *)
OrderFields == {"orderId", "owner", "side", "quantity", "price", "expiresAt", "sequence",
                "acceptedAt", "remaining", "matched", "cancelled", "expired", "reason"}

Limited(o) ==
    /\ o.side \in Sides
    /\ NotionalFits(o.quantity, o.price)
    /\ o.price \in Int /\ o.sequence \in Nat
    /\ o.acceptedAt \in Int /\ o.expiresAt \in Int /\ o.acceptedAt < o.expiresAt

Columns(o) ==
    /\ o.remaining \in Nat /\ o.matched \in Nat /\ o.cancelled \in Nat /\ o.expired \in Nat
    /\ o.quantity = o.remaining + o.matched + o.cancelled + o.expired

IsOrder(o) == DOMAIN o = OrderFields /\ Limited(o) /\ Columns(o)

SameTerms(o, n) ==
    /\ n.orderId = o.orderId /\ n.owner = o.owner /\ n.side = o.side
    /\ n.quantity = o.quantity /\ n.price = o.price /\ n.expiresAt = o.expiresAt
    /\ n.sequence = o.sequence /\ n.acceptedAt = o.acceptedAt

(* One turn of the matching loop, by its outcome.                          *)
IsState(m) ==
    /\ DOMAIN m = {"orders", "incoming", "matches"}
    /\ DOMAIN m.incoming = OrderFields
    /\ \A i \in DOMAIN m.orders : DOMAIN m.orders[i] = OrderFields

NotByRequest(reason) == reason \in {"", "Self-trade prevention"}

Stopped(m, n) ==
    /\ n.orders = m.orders /\ n.matches = m.matches
    /\ DOMAIN n.incoming = OrderFields /\ SameTerms(m.incoming, n.incoming)
    /\ n.incoming.remaining = 0 /\ n.incoming.matched = m.incoming.matched
    /\ n.incoming.cancelled = m.incoming.remaining /\ n.incoming.expired = m.incoming.expired
    /\ NotByRequest(n.incoming.reason)

Filled(a, n, q) ==
    /\ DOMAIN n = OrderFields /\ SameTerms(a, n)
    /\ n.remaining = a.remaining - q /\ n.matched = a.matched + q
    /\ n.cancelled = a.cancelled /\ n.expired = a.expired /\ n.reason = a.reason

MatchOf(o, t, q, k, seq, now) ==
    [id |-> <<seq, k>>, maker |-> o.orderId, taker |-> t.orderId,
     buyer |-> IF t.side = "Sell" THEN o.owner ELSE t.owner,
     seller |-> IF t.side = "Sell" THEN t.owner ELSE o.owner,
     quantity |-> q, price |-> o.price, notional |-> q * o.price, time |-> now]

FilledAt(m, n, i, q, seq, now) ==
    /\ n.orders = [j \in DOMAIN m.orders |-> n.orders[j]]
    /\ \A j \in DOMAIN m.orders : j # i => n.orders[j] = m.orders[j]
    /\ Filled(m.orders[i], n.orders[i], q)
    /\ Filled(m.incoming, n.incoming, q)
    /\ n.matches = Append(m.matches,
                      MatchOf(m.orders[i], m.incoming, q, Len(m.matches) + 1, seq, now))

Smaller(x, y) == IF x < y THEN x ELSE y

LEMMA TurnIs ==
    ASSUME NEW m, IsState(m), NEW i \in DOMAIN m.orders, NEW seq, NEW now
    PROVE  LET n == MatchStep(m, i, seq, now)
               o == m.orders[i]
               t == m.incoming
           IN  /\ IsState(n)
               /\ \/ t.remaining = 0 /\ n = m
                  \/ t.remaining # 0 /\ o.owner = t.owner /\ Stopped(m, n)
                  \/ /\ t.remaining # 0 /\ o.owner # t.owner
                     /\ FilledAt(m, n, i, Smaller(t.remaining, o.remaining), seq, now)
<1> DEFINE o == m.orders[i]
           t == m.incoming
           q == Smaller(t.remaining, o.remaining)
<1>1. PICK n : n = MatchStep(m, i, seq, now)
  OBVIOUS
<1>2. CASE t.remaining = 0
  <2>1. n = m
    BY <1>1, <1>2 DEF MatchStep
  <2> QED BY <1>1, <1>2, <2>1
<1>3. CASE t.remaining # 0 /\ o.owner = t.owner
  <2>1. PICK u : u = [t EXCEPT !.cancelled = t.remaining, !.remaining = 0,
                               !.reason = "Self-trade prevention"]
    OBVIOUS
  <2>2. n = [m EXCEPT !.incoming.cancelled = t.remaining, !.incoming.remaining = 0,
                      !.incoming.reason = "Self-trade prevention"]
    BY <1>1, <1>3 DEF MatchStep
  <2>3. /\ DOMAIN n = {"orders", "incoming", "matches"}
        /\ n.orders = m.orders /\ n.matches = m.matches
    BY <2>2 DEF IsState
  <2>4. n.incoming = u
    BY <2>1, <2>2 DEF IsState
  <2>5. /\ DOMAIN u = OrderFields /\ SameTerms(t, u)
        /\ u.remaining = 0 /\ u.matched = t.matched
        /\ u.cancelled = t.remaining /\ u.expired = t.expired
        /\ NotByRequest(u.reason)
    <3> HIDE DEF t
    <3>1. DOMAIN t = OrderFields
      BY DEF IsState, t
    <3>2. PICK why : why = "Self-trade prevention"
      OBVIOUS
    <3>3. NotByRequest(why)
      BY <3>2, Zenon DEF NotByRequest
    <3>4. u = [t EXCEPT !.cancelled = t.remaining, !.remaining = 0, !.reason = why]
      BY <2>1, <3>2, Zenon
    <3> QED BY <3>1, <3>3, <3>4 DEF OrderFields, SameTerms
  <2>6. IsState(n) /\ Stopped(m, n)
    BY <2>3, <2>4, <2>5 DEF IsState, Stopped
  <2> QED BY <1>1, <1>3, <2>6
<1>4. CASE t.remaining # 0 /\ o.owner # t.owner
  <2> HIDE DEF q
  <2>1. n = Fill(m, i, q, seq, now)
    <3>1. q = IF t.remaining < o.remaining THEN t.remaining ELSE o.remaining
      BY DEF q, Smaller
    <3> QED BY <1>1, <1>4, <3>1 DEF MatchStep
  <2>2. PICK os : os = [m.orders EXCEPT ![i].remaining = @ - q, ![i].matched = @ + q]
    OBVIOUS
  <2>3. PICK u : u = [t EXCEPT !.remaining = @ - q, !.matched = @ + q]
    OBVIOUS
  <2>4. PICK x : x = MatchOf(o, t, q, Len(m.matches) + 1, seq, now)
    OBVIOUS
  <2>5. n = [orders |-> os, incoming |-> u, matches |-> Append(m.matches, x)]
    BY <2>1, <2>2, <2>3, <2>4 DEF Fill, MatchOf
  <2>6. DOMAIN o = OrderFields /\ DOMAIN t = OrderFields
    BY DEF IsState
  <2>7. Filled(t, u, q)
    <3> HIDE DEF t
    <3> QED BY <2>3, <2>6 DEF OrderFields, SameTerms, Filled
  <2>8. /\ DOMAIN os = DOMAIN m.orders
        /\ os = [j \in DOMAIN m.orders |-> os[j]]
        /\ \A j \in DOMAIN m.orders : j # i => os[j] = m.orders[j]
    BY <2>2
  <2>9. os[i] = [o EXCEPT !.remaining = @ - q, !.matched = @ + q]
    BY <2>2
  <2>10. Filled(o, os[i], q)
    <3> HIDE DEF o
    <3> QED BY <2>6, <2>9 DEF OrderFields, SameTerms, Filled
  <2>11. FilledAt(m, n, i, q, seq, now)
    BY <2>4, <2>5, <2>7, <2>8, <2>10 DEF FilledAt
  <2>12. IsState(n)
    BY <2>5, <2>7, <2>8, <2>10 DEF IsState, Filled
  <2> QED BY <1>1, <1>4, <2>11, <2>12 DEF q
<1> QED BY <1>2, <1>3, <1>4
-----------------------------------------------------------------------------
(* A new order for c is placed among resting orders o.                     *)
Placing(o, c, seq, now) ==
    /\ IsFiniteSet(DOMAIN o)
    /\ \A i \in DOMAIN o : IsOrder(o[i]) /\ o[i].orderId # c.orderId
    /\ \A i, j \in DOMAIN o :
          i # j => o[i].orderId # o[j].orderId /\ o[i].sequence # o[j].sequence
    /\ IsOrder(IncomingOrder(c, seq, now))

(* Candidates are in one order of priority.                                *)
LEMMA PriorityIsAnOrder ==
    ASSUME NEW o, NEW c, NEW seq, NEW now, Placing(o, c, seq, now)
    PROVE  /\ \A i, j \in DOMAIN o : i # j => Precedes(c, o[i], o[j]) \/ Precedes(c, o[j], o[i])
           /\ \A i, j \in DOMAIN o : ~(Precedes(c, o[i], o[j]) /\ Precedes(c, o[j], o[i]))
           /\ \A i, j, k \in DOMAIN o :
                 Precedes(c, o[i], o[j]) /\ Precedes(c, o[j], o[k]) => Precedes(c, o[i], o[k])
<1>1. \A i \in DOMAIN o : o[i].price \in Int /\ o[i].sequence \in Nat
  BY DEF Placing, IsOrder, Limited
<1>2. \A i, j \in DOMAIN o : i # j => o[i].sequence # o[j].sequence
  BY DEF Placing
<1>3. c.side = "Buy" \/ c.side = "Sell"
  BY DEF Placing, IsOrder, Limited, IncomingOrder, Sides
<1> QED BY <1>1, <1>2, <1>3 DEF Precedes

LEMMA LastIsLast ==
    ASSUME NEW o, NEW c, NEW seq, NEW now, Placing(o, c, seq, now),
           NEW S \in SUBSET DOMAIN o, S # {}
    PROVE  LET i == LastInTurn(o, c, S)
           IN  i \in S /\ \A j \in S \ {i} : Precedes(c, o[j], o[i])
<1> DEFINE HasLast(A) == \E i \in A : \A j \in A \ {i} : Precedes(c, o[j], o[i])
           Bad == {A \in SUBSET S : A # {} /\ ~HasLast(A)}
<1>1. IsFiniteSet(S)
  BY FS_Subset DEF Placing
<1>2. Bad = {}
  <2> SUFFICES ASSUME Bad # {} PROVE FALSE
    OBVIOUS
  <2>1. PICK A \in Bad : \A B \in Bad : B \subseteq A => B = A
    <3> HIDE DEF Bad
    <3>1. Bad \subseteq SUBSET S
      BY DEF Bad
    <3> QED BY <1>1, <3>1, SmallestSet
  <2>2. PICK x : x \in A
    OBVIOUS
  <2>3. A \ {x} # {}
    <3> SUFFICES ASSUME A = {x} PROVE FALSE
      BY <2>2
    <3> QED BY <2>1
  <2>4. PICK y \in A \ {x} : \A j \in (A \ {x}) \ {y} : Precedes(c, o[j], o[y])
    <3>1. HasLast(A \ {x})
      <4> HIDE DEF HasLast
      <4> QED BY <2>1, <2>2, <2>3
    <3> QED BY <3>1
  <2>5. CASE Precedes(c, o[y], o[x])
    <3>1. \A j \in A \ {x} : Precedes(c, o[j], o[x])
      BY <2>2, <2>4, <2>5, PriorityIsAnOrder
    <3> QED BY <2>1, <2>2, <3>1
  <2>6. CASE Precedes(c, o[x], o[y])
    <3>1. \A j \in A \ {y} : Precedes(c, o[j], o[y])
      BY <2>4, <2>6
    <3> QED BY <2>1, <2>4, <3>1
  <2>7. x \in DOMAIN o /\ y \in DOMAIN o /\ x # y
    BY <2>2, <2>4
  <2> QED BY <2>5, <2>6, <2>7, PriorityIsAnOrder
<1>3. HasLast(S)
  BY <1>2
<1> QED BY <1>3 DEF LastInTurn

-----------------------------------------------------------------------------
(* The loop is the recursion that takes the candidates in turn.            *)
Start(o, c, seq, now) ==
    [orders |-> o, incoming |-> IncomingOrder(c, seq, now), matches |-> <<>>]

IsAfter(o, c, seq, now, after) ==
    after = [S \in SUBSET Candidates(o, c) |->
               IF S = {} THEN Start(o, c, seq, now)
               ELSE MatchStep(after[S \ {LastInTurn(o, c, S)}], LastInTurn(o, c, S), seq, now)]

LEMMA AfterExists ==
    ASSUME NEW o, NEW c, NEW seq, NEW now, Placing(o, c, seq, now)
    PROVE  \E after : IsAfter(o, c, seq, now, after)
<1> DEFINE All == Candidates(o, c)
           Small(n) == {T \in SUBSET All : Cardinality(T) =< n}
           Term(T, f) == IF T = {} THEN Start(o, c, seq, now)
                         ELSE MatchStep(f[T \ {LastInTurn(o, c, T)}], LastInTurn(o, c, T), seq, now)
           Upto(n, f) == f = [T \in Small(n) |-> Term(T, f)]
           Bad == {n \in Nat : ~\E f : Upto(n, f)}
<1>0. All \subseteq DOMAIN o /\ IsFiniteSet(All)
  BY FS_Subset DEF Candidates, Placing
<1>1. \A T \in SUBSET All : IsFiniteSet(T) /\ Cardinality(T) \in Nat
                            /\ Cardinality(T) =< Cardinality(All)
  BY <1>0, FS_Subset, FS_CardinalityType
<1>2. \A T \in SUBSET All : T # {} => LastInTurn(o, c, T) \in T
  BY <1>0, LastIsLast
<1> HIDE DEF All
<1>3. 0 \notin Bad
  <2>1. Small(0) = {{}}
    BY <1>1, FS_EmptySet
  <2> DEFINE f == [T \in Small(0) |-> Start(o, c, seq, now)]
  <2>2. \A T \in Small(0) : Term(T, f) = Start(o, c, seq, now)
    BY <2>1
  <2>3. Upto(0, f)
    <3> HIDE DEF Term
    <3> QED BY <2>2
  <2> QED BY <2>3
<1>4. ASSUME NEW n \in Nat, n + 1 \in Bad PROVE n \in Bad
  <2> SUFFICES ASSUME NEW g, Upto(n, g) PROVE FALSE
    OBVIOUS
  <2> DEFINE f == [T \in Small(n + 1) |-> Term(T, g)]
  <2>1. ASSUME NEW T \in Small(n) PROVE f[T] = g[T]
    <3>1. T \in Small(n + 1)
      BY <1>1
    <3> HIDE DEF Small, Term
    <3> QED BY <3>1
  <2>2. ASSUME NEW T \in Small(n + 1) PROVE Term(T, f) = Term(T, g)
    <3>1. CASE T = {}
      BY <3>1
    <3>2. CASE T # {}
      <4> DEFINE last == LastInTurn(o, c, T)
      <4>1. last \in T /\ IsFiniteSet(T)
        BY <1>1, <1>2, <3>2
      <4> HIDE DEF last
      <4>2. Cardinality(T \ {last}) = Cardinality(T) - 1
        BY <4>1, FS_RemoveElement
      <4>3. T \ {last} \in Small(n)
        BY <1>1, <4>2
      <4>4. f[T \ {last}] = g[T \ {last}]
        <5> HIDE DEF Small, f
        <5> QED BY <2>1, <4>3
      <4> HIDE DEF f
      <4> QED BY <3>2, <4>4 DEF last
    <3> QED BY <3>1, <3>2
  <2>3. Upto(n + 1, f)
    <3> HIDE DEF Small, Term
    <3> QED BY <2>2
  <2> QED BY <1>4, <2>3
<1>5. Bad = {}
  <2> SUFFICES ASSUME Bad # {} PROVE FALSE
    OBVIOUS
  <2> HIDE DEF Bad
  <2>1. Bad \subseteq Nat
    BY DEF Bad
  <2>2. PICK n \in Bad : \A k \in Bad : n =< k
    BY <2>1, LeastNumber
  <2>3. n \in Nat /\ n # 0
    BY <1>3, <2>1
  <2>4. n - 1 \in Nat /\ n = (n - 1) + 1
    BY <2>3
  <2>5. n - 1 \in Bad
    BY <1>4, <2>4
  <2> QED BY <2>2, <2>3, <2>5
<1>6. PICK f : Upto(Cardinality(All), f)
  BY <1>1, <1>5
<1>7. Small(Cardinality(All)) = SUBSET All
  BY <1>1
<1> QED BY <1>6, <1>7 DEF IsAfter, All

LEMMA MatchAllIs ==
    ASSUME NEW o, NEW c, NEW seq, NEW now, Placing(o, c, seq, now)
    PROVE  \E after : /\ IsAfter(o, c, seq, now, after)
                      /\ MatchAll(o, c, seq, now) = after[Candidates(o, c)]
<1>1. PICK after : after = (CHOOSE f : IsAfter(o, c, seq, now, f))
  OBVIOUS
<1>2. IsAfter(o, c, seq, now, after)
  BY <1>1, AfterExists
<1>3. MatchAll(o, c, seq, now) = (CHOOSE f : IsAfter(o, c, seq, now, f))[Candidates(o, c)]
  BY DEF MatchAll, MapThenFoldSet, IsAfter, Start
<1> QED BY <1>1, <1>2, <1>3
-----------------------------------------------------------------------------
(* What is true after the turns of the candidates in S.  The orders and    *)
(* the incoming order keep their terms; what is filled leaves their        *)
(* remaining for their matched column.                                     *)
Traded(a, n) ==
    /\ IsOrder(n) /\ SameTerms(a, n)
    /\ n.matched >= a.matched /\ n.remaining + n.matched = a.remaining + a.matched
    /\ n.cancelled = a.cancelled /\ n.expired = a.expired /\ n.reason = a.reason

RestingAfter(o, S, m) ==
    /\ m.orders = [i \in DOMAIN o |-> m.orders[i]]
    /\ \A i \in DOMAIN o : Traded(o[i], m.orders[i])
    /\ \A i \in DOMAIN o \ S : m.orders[i] = o[i]

TakerAfter(t, m) ==
    /\ IsOrder(m.incoming) /\ SameTerms(t, m.incoming)
    /\ m.incoming.expired = 0
    /\ m.incoming.cancelled > 0 => m.incoming.remaining = 0
    /\ NotByRequest(m.incoming.reason)

(* The matches are numbered, and each is of a candidate that had its turn. *)
InTerms(x, a, t, now) ==
    /\ x.maker = a.orderId /\ x.taker = t.orderId
    /\ a.owner # t.owner
    /\ x.buyer = (IF t.side = "Sell" THEN a.owner ELSE t.owner)
    /\ x.seller = (IF t.side = "Sell" THEN t.owner ELSE a.owner)
    /\ x.quantity \in 1..a.quantity
    /\ x.price = a.price /\ x.notional = x.quantity * a.price
    /\ x.time = now

MatchesAfter(o, t, seq, now, S, m) ==
    /\ m.matches \in Seq(ToSet(m.matches))
    /\ \A k \in DOMAIN m.matches :
          /\ m.matches[k].id = <<seq, k>>
          /\ \E i \in S : InTerms(m.matches[k], o[i], t, now)

(* With the earlier matches A, the columns are the totals of the matches.  *)
Of(A, id) == {x \in A : id \in {x.maker, x.taker}}

TotalsAfter(o, t, A, m) ==
    /\ \A i \in DOMAIN o : m.orders[i].matched = Total(Of(A \cup ToSet(m.matches), o[i].orderId))
    /\ m.incoming.matched = Total(Of(A \cup ToSet(m.matches), t.orderId))

(* Who is filled, or stops the incoming order, comes after orders that are *)
(* used up; and the incoming order goes on only if all of them are.        *)
UsedUpBefore(o, c, S, m, i) ==
    \A j \in S : Precedes(c, o[j], o[i]) => m.orders[j].remaining = 0

PriorityAfter(o, c, S, m) ==
    /\ \A i \in S : m.orders[i].matched > o[i].matched =>
                       o[i].owner # c.owner /\ UsedUpBefore(o, c, S, m, i)
    /\ m.incoming.cancelled > 0 =>
          \E i \in S : o[i].owner = c.owner /\ UsedUpBefore(o, c, S, m, i)
    /\ m.incoming.remaining > 0 => \A i \in S : m.orders[i].remaining = 0

Before(o, c, seq, A) ==
    /\ IsFiniteSet(A)
    /\ \A x \in A : x.quantity \in Int /\ x.id[1] # seq
    /\ \A i \in DOMAIN o : o[i].matched = Total(Of(A, o[i].orderId))
    /\ Of(A, c.orderId) = {}

After(o, c, seq, now, A, S, m) ==
    LET t == IncomingOrder(c, seq, now)
    IN  /\ IsState(m)
        /\ RestingAfter(o, S, m)
        /\ TakerAfter(t, m)
        /\ MatchesAfter(o, t, seq, now, S, m)
        /\ TotalsAfter(o, t, A, m)
        /\ PriorityAfter(o, c, S, m)

(* One more turn, of a candidate that comes after those in S.              *)
Turn(o, c, seq, now, A, S, i, m, n) ==
    /\ Placing(o, c, seq, now)
    /\ Before(o, c, seq, A)
    /\ S \subseteq DOMAIN o /\ i \in DOMAIN o \ S
    /\ Crosses(c, o[i])
    /\ \A j \in S : Precedes(c, o[j], o[i])
    /\ After(o, c, seq, now, A, S, m)
    /\ n = MatchStep(m, i, seq, now)

LEMMA TurnOf ==
    ASSUME NEW o, NEW c, NEW seq, NEW now, NEW A, NEW S, NEW i, NEW m, NEW n,
           Turn(o, c, seq, now, A, S, i, m, n)
    PROVE  LET t == m.incoming
               q == Smaller(t.remaining, o[i].remaining)
           IN  /\ IsState(n) /\ m.orders[i] = o[i] /\ IsOrder(o[i]) /\ IsOrder(t)
               /\ DOMAIN m.orders = DOMAIN o
               /\ t.owner = c.owner /\ t.orderId = c.orderId /\ t.side = c.side
               /\ \/ t.remaining = 0 /\ n = m
                  \/ t.remaining > 0 /\ o[i].owner = c.owner /\ Stopped(m, n)
                  \/ /\ t.remaining > 0 /\ o[i].owner # c.owner
                     /\ FilledAt(m, n, i, q, seq, now)
                     /\ q \in Nat /\ q >= 1 /\ q =< t.remaining /\ q =< o[i].remaining
                     /\ q = t.remaining \/ q = o[i].remaining
<1> DEFINE t == m.incoming
           q == Smaller(t.remaining, o[i].remaining)
<1>1. i \in DOMAIN o /\ IsState(m) /\ m.orders[i] = o[i] /\ DOMAIN m.orders = DOMAIN o
  BY DEF Turn, After, RestingAfter
<1>2. IsOrder(o[i]) /\ IsOrder(t) /\ t.owner = c.owner /\ t.orderId = c.orderId /\ t.side = c.side
  BY DEF Turn, After, TakerAfter, Placing, SameTerms, IncomingOrder
<1>3. t.remaining \in Nat /\ o[i].remaining \in Nat /\ o[i].remaining > 0
  BY <1>2 DEF IsOrder, Columns, Turn, Crosses
<1>4. t.remaining > 0 =>
         q \in Nat /\ q >= 1 /\ q =< t.remaining /\ q =< o[i].remaining
         /\ (q = t.remaining \/ q = o[i].remaining)
  <2> HIDE DEF t
  <2> QED BY <1>3 DEF Smaller
<1>5. n = MatchStep(m, i, seq, now)
  BY DEF Turn
<1>6. /\ IsState(n)
      /\ \/ t.remaining = 0 /\ n = m
         \/ t.remaining # 0 /\ o[i].owner = t.owner /\ Stopped(m, n)
         \/ /\ t.remaining # 0 /\ o[i].owner # t.owner
            /\ FilledAt(m, n, i, q, seq, now)
  BY <1>1, <1>5, TurnIs
<1> HIDE DEF t, q
<1>7. t.remaining # 0 => t.remaining > 0
  BY <1>3
<1>8. QED BY <1>1, <1>2, <1>4, <1>6, <1>7 DEF t, q

LEMMA RestingTurn ==
    ASSUME NEW o, NEW c, NEW seq, NEW now, NEW A, NEW S, NEW i, NEW m, NEW n,
           Turn(o, c, seq, now, A, S, i, m, n)
    PROVE  RestingAfter(o, S \cup {i}, n)
<1> DEFINE q == Smaller(m.incoming.remaining, o[i].remaining)
<1>1. RestingAfter(o, S, m)
  BY DEF Turn, After
<1>2. m.orders[i] = o[i] /\ IsOrder(o[i]) /\ i \in DOMAIN o
  BY TurnOf DEF Turn
<1>3. CASE n.orders = m.orders
  BY <1>1, <1>3 DEF RestingAfter
<1>4. CASE FilledAt(m, n, i, q, seq, now) /\ q \in Nat /\ q =< o[i].remaining
  <2> HIDE DEF q
  <2>1. Traded(o[i], n.orders[i])
    <3>1. Filled(o[i], n.orders[i], q)
      BY <1>2, <1>4 DEF FilledAt
    <3> QED BY <1>2, <1>4, <3>1 DEF Filled, Traded, IsOrder, Limited, Columns, SameTerms
  <2> QED BY <1>1, <1>4, <2>1 DEF RestingAfter, FilledAt
<1>5. n = m \/ Stopped(m, n) \/ (FilledAt(m, n, i, q, seq, now) /\ q \in Nat /\ q =< o[i].remaining)
  BY TurnOf
<1> QED BY <1>3, <1>4, <1>5 DEF Stopped

LEMMA TakerTurn ==
    ASSUME NEW o, NEW c, NEW seq, NEW now, NEW A, NEW S, NEW i, NEW m, NEW n,
           Turn(o, c, seq, now, A, S, i, m, n)
    PROVE  TakerAfter(IncomingOrder(c, seq, now), n)
<1> DEFINE q == Smaller(m.incoming.remaining, o[i].remaining)
           t == IncomingOrder(c, seq, now)
<1>1. PICK u, v : u = m.incoming /\ v = n.incoming
  OBVIOUS
<1>2. /\ IsOrder(u) /\ SameTerms(t, u) /\ u.expired = 0
      /\ u.cancelled > 0 => u.remaining = 0
      /\ NotByRequest(u.reason)
  BY <1>1 DEF Turn, After, TakerAfter
<1>3. u.remaining > 0 => u.cancelled = 0
  BY <1>2 DEF IsOrder, Columns
<1> SUFFICES /\ IsOrder(v) /\ SameTerms(t, v) /\ v.expired = 0
             /\ v.cancelled > 0 => v.remaining = 0
             /\ NotByRequest(v.reason)
  BY <1>1 DEF TakerAfter
<1> HIDE DEF t, q
<1>4. CASE n = m
  BY <1>1, <1>2, <1>4
<1>5. CASE u.remaining > 0 /\ Stopped(m, n)
  <2>1. /\ DOMAIN v = OrderFields /\ SameTerms(u, v)
        /\ v.remaining = 0 /\ v.matched = u.matched
        /\ v.cancelled = u.remaining /\ v.expired = u.expired
        /\ NotByRequest(v.reason)
    BY <1>1, <1>5 DEF Stopped
  <2>2. SameTerms(t, v)
    BY <1>2, <2>1 DEF SameTerms
  <2>3. Columns(v) /\ Limited(v)
    BY <1>2, <1>3, <1>5, <2>1 DEF IsOrder, Columns, Limited, SameTerms
  <2> QED BY <1>2, <2>1, <2>2, <2>3 DEF IsOrder
<1>6. CASE u.remaining > 0 /\ FilledAt(m, n, i, q, seq, now) /\ q \in Nat /\ q =< u.remaining
  <2>1. Filled(u, v, q)
    BY <1>1, <1>6 DEF FilledAt
  <2>2. SameTerms(t, v)
    BY <1>2, <2>1 DEF SameTerms, Filled
  <2>3. Columns(v) /\ Limited(v)
    BY <1>2, <1>3, <1>6, <2>1 DEF IsOrder, Columns, Limited, SameTerms, Filled
  <2> QED BY <1>2, <1>3, <1>6, <2>1, <2>2, <2>3 DEF IsOrder, Filled
<1>7. \/ n = m
      \/ u.remaining > 0 /\ Stopped(m, n)
      \/ u.remaining > 0 /\ FilledAt(m, n, i, q, seq, now) /\ q \in Nat /\ q =< u.remaining
  BY <1>1, TurnOf DEF q
<1> QED BY <1>4, <1>5, <1>6, <1>7

(* The list s, extended by x to r.                                         *)
Extended(s, x, r) ==
    /\ r \in Seq(ToSet(r)) /\ Len(s) \in Nat
    /\ DOMAIN s = 1..Len(s) /\ DOMAIN r = 1..(Len(s) + 1)
    /\ r[Len(s) + 1] = x
    /\ \A k \in DOMAIN s : r[k] = s[k]
    /\ ToSet(r) = ToSet(s) \cup {x}

LEMMA AppendIs ==
    ASSUME NEW s, NEW x, s \in Seq(ToSet(s))
    PROVE  Extended(s, x, Append(s, x))
<1>1. PICK T : T = ToSet(s) \cup {x}
  OBVIOUS
<1>2. s \in Seq(T) /\ x \in T
  BY <1>1, SeqMonotonic
<1>3. PICK r : r = Append(s, x)
  OBVIOUS
<1>4. /\ r \in Seq(T) /\ Len(s) \in Nat
      /\ DOMAIN s = 1..Len(s) /\ DOMAIN r = 1..(Len(s) + 1)
      /\ r[Len(s) + 1] = x
      /\ \A k \in DOMAIN s : r[k] = s[k]
  BY <1>2, <1>3
<1>5. ToSet(r) = T
  <2>1. DOMAIN r = DOMAIN s \cup {Len(s) + 1}
    BY <1>4
  <2> QED BY <1>1, <1>4, <2>1 DEF ToSet
<1> QED BY <1>1, <1>3, <1>4, <1>5 DEF Extended

LEMMA MatchesTurn ==
    ASSUME NEW o, NEW c, NEW seq, NEW now, NEW A, NEW S, NEW i, NEW m, NEW n,
           Turn(o, c, seq, now, A, S, i, m, n)
    PROVE  MatchesAfter(o, IncomingOrder(c, seq, now), seq, now, S \cup {i}, n)
<1> DEFINE q == Smaller(m.incoming.remaining, o[i].remaining)
           t == IncomingOrder(c, seq, now)
<1>1. MatchesAfter(o, t, seq, now, S, m)
  BY DEF Turn, After
<1>2. m.orders[i] = o[i] /\ IsOrder(o[i])
  BY TurnOf
<1>3. t.owner = c.owner /\ t.orderId = c.orderId /\ t.side = c.side
  BY DEF IncomingOrder
<1>4. m.incoming.owner = c.owner /\ m.incoming.orderId = c.orderId /\ m.incoming.side = c.side
  BY TurnOf
<1> HIDE DEF t
<1>5. CASE n.matches = m.matches
  BY <1>1, <1>5 DEF MatchesAfter, t
<1>6. CASE /\ FilledAt(m, n, i, q, seq, now) /\ q \in Nat /\ q >= 1 /\ q =< o[i].remaining
           /\ o[i].owner # c.owner
  <2> HIDE DEF q
  <2>1. PICK x : x = MatchOf(o[i], m.incoming, q, Len(m.matches) + 1, seq, now)
    OBVIOUS
  <2>2. n.matches = Append(m.matches, x)
    BY <1>2, <1>6, <2>1 DEF FilledAt
  <2>3. q \in 1..o[i].quantity
    BY <1>2, <1>6 DEF IsOrder, Columns
  <2>4. InTerms(x, o[i], t, now) /\ x.id = <<seq, Len(m.matches) + 1>>
    BY <1>3, <1>4, <1>6, <2>1, <2>3 DEF InTerms, MatchOf
  <2>5. /\ n.matches \in Seq(ToSet(n.matches))
        /\ Len(m.matches) \in Nat /\ DOMAIN m.matches = 1..Len(m.matches)
        /\ DOMAIN n.matches = 1..(Len(m.matches) + 1)
        /\ n.matches[Len(m.matches) + 1] = x
        /\ \A k \in DOMAIN m.matches : n.matches[k] = m.matches[k]
    <3>1. Extended(m.matches, x, n.matches)
      BY <1>1, <2>2, AppendIs DEF MatchesAfter
    <3> QED BY <3>1 DEF Extended
  <2>6. ASSUME NEW k \in DOMAIN n.matches
        PROVE  n.matches[k].id = <<seq, k>> /\ \E j \in S \cup {i} : InTerms(n.matches[k], o[j], t, now)
    <3>1. CASE k = Len(m.matches) + 1
      BY <2>4, <2>5, <3>1
    <3>2. CASE k # Len(m.matches) + 1
      <4>1. k \in DOMAIN m.matches
        BY <2>5, <3>2
      <4> QED BY <1>1, <2>5, <4>1 DEF MatchesAfter
    <3> QED BY <3>1, <3>2
  <2> QED BY <2>5, <2>6 DEF MatchesAfter, t
<1>7. \/ n = m
      \/ Stopped(m, n)
      \/ /\ FilledAt(m, n, i, q, seq, now) /\ q \in Nat /\ q >= 1 /\ q =< o[i].remaining
         /\ o[i].owner # c.owner
  BY TurnOf
<1> QED BY <1>5, <1>6, <1>7 DEF Stopped
LEMMA ListIsFinite ==
    ASSUME NEW s, s \in Seq(ToSet(s)) PROVE IsFiniteSet(ToSet(s))
<1>1. Len(s) \in Nat /\ DOMAIN s = 1..Len(s) /\ s \in [1..Len(s) -> ToSet(s)]
  OBVIOUS
<1>2. s \in Surjection(1..Len(s), ToSet(s))
  BY <1>1 DEF Surjection, ToSet
<1>3. IsFiniteSet(1..Len(s))
  BY <1>1, FS_Interval
<1> QED BY <1>2, <1>3, FS_Surjection

(* One more match of x.quantity, in the totals of both its orders.         *)
LEMMA TotalGrows ==
    ASSUME NEW A, IsFiniteSet(A), \A y \in A : y.quantity \in Int,
           NEW x, x \notin A, x.quantity \in Int, NEW id
    PROVE  Total(Of(A \cup {x}, id)) =
              IF id \in {x.maker, x.taker} THEN Total(Of(A, id)) + x.quantity
              ELSE Total(Of(A, id))
<1>1. Of(A, id) \subseteq A
  BY DEF Of
<1>2. IsFiniteSet(Of(A, id))
  BY <1>1, FS_Subset
<1>3. CASE id \in {x.maker, x.taker}
  <2>1. Of(A \cup {x}, id) = Of(A, id) \cup {x}
    BY <1>3 DEF Of
  <2>2. Total(Of(A, id) \cup {x}) = Total(Of(A, id)) + x.quantity
    BY <1>1, <1>2, TotalAdds
  <2> QED BY <1>3, <2>1, <2>2
<1>4. CASE id \notin {x.maker, x.taker}
  <2>1. Of(A \cup {x}, id) = Of(A, id)
    BY <1>4 DEF Of
  <2> QED BY <1>4, <2>1
<1> QED BY <1>3, <1>4

LEMMA TotalsTurn ==
    ASSUME NEW o, NEW c, NEW seq, NEW now, NEW A, NEW S, NEW i, NEW m, NEW n,
           Turn(o, c, seq, now, A, S, i, m, n)
    PROVE  TotalsAfter(o, IncomingOrder(c, seq, now), A, n)
<1> DEFINE q == Smaller(m.incoming.remaining, o[i].remaining)
           t == IncomingOrder(c, seq, now)
<1>1. TotalsAfter(o, t, A, m) /\ MatchesAfter(o, t, seq, now, S, m)
  BY DEF Turn, After
<1>2. m.orders[i] = o[i] /\ DOMAIN m.orders = DOMAIN o /\ m.incoming.orderId = c.orderId
  BY TurnOf
<1>3. t.orderId = c.orderId
  BY DEF IncomingOrder
<1>4. S \subseteq DOMAIN o /\ i \in DOMAIN o /\ Placing(o, c, seq, now) /\ Before(o, c, seq, A)
  BY DEF Turn
<1> HIDE DEF t, q
<1>5. CASE n = m \/ Stopped(m, n)
  BY <1>1, <1>5 DEF TotalsAfter, Stopped, t
<1>6. CASE FilledAt(m, n, i, q, seq, now) /\ q \in Nat
  <2>1. PICK x : x = MatchOf(o[i], m.incoming, q, Len(m.matches) + 1, seq, now)
    OBVIOUS
  <2>2. /\ x.id = <<seq, Len(m.matches) + 1>> /\ x.quantity = q
        /\ x.maker = o[i].orderId /\ x.taker = c.orderId
    BY <1>2, <2>1 DEF MatchOf
  <2> DEFINE B == A \cup ToSet(m.matches)
  <2>3. Extended(m.matches, x, n.matches)
    BY <1>1, <1>2, <1>6, <2>1, AppendIs DEF MatchesAfter, FilledAt
  <2>4. A \cup ToSet(n.matches) = B \cup {x}
    BY <2>3 DEF Extended
  <2>5. IsFiniteSet(B)
    BY <1>1, <1>4, ListIsFinite, FS_Union DEF MatchesAfter, Before
  <2>6. \A y \in B : y.quantity \in Int
    <3> SUFFICES ASSUME NEW y \in ToSet(m.matches) PROVE y.quantity \in Int
      BY <1>4 DEF Before
    <3>1. PICK k \in DOMAIN m.matches : y = m.matches[k]
      BY DEF ToSet
    <3>2. PICK j \in S : InTerms(y, o[j], t, now)
      BY <1>1, <3>1 DEF MatchesAfter
    <3>3. o[j].quantity \in Int
      BY <1>4, <3>2, MaxQuantityAssumption, MaxInt64Assumption
         DEF Placing, IsOrder, Limited, NotionalFits
    <3> QED BY <3>2, <3>3 DEF InTerms
  <2>7. x \notin B
    <3>1. x \notin A
      BY <1>4, <2>2 DEF Before
    <3>2. ASSUME NEW k \in DOMAIN m.matches PROVE x # m.matches[k]
      <4>1. m.matches[k].id = <<seq, k>> /\ k \in 1..Len(m.matches) /\ Len(m.matches) \in Nat
        BY <1>1, <2>3 DEF MatchesAfter, Extended
      <4>2. <<seq, k>> # <<seq, Len(m.matches) + 1>>
        BY <4>1
      <4> QED BY <2>2, <4>1, <4>2
    <3> QED BY <3>1, <3>2 DEF ToSet
  <2>8. x.quantity \in Int
    BY <1>6, <2>2
  <2> HIDE DEF B
  <2>9. ASSUME NEW id
        PROVE  Total(Of(B \cup {x}, id)) =
                  IF id \in {o[i].orderId, c.orderId} THEN Total(Of(B, id)) + q ELSE Total(Of(B, id))
    <3>1. Total(Of(B \cup {x}, id)) =
            IF id \in {x.maker, x.taker} THEN Total(Of(B, id)) + x.quantity ELSE Total(Of(B, id))
      BY <2>5, <2>6, <2>7, <2>8, TotalGrows
    <3> QED BY <2>2, <3>1
  <2>10. ASSUME NEW j \in DOMAIN o PROVE n.orders[j].matched = Total(Of(B \cup {x}, o[j].orderId))
    <3>1. m.orders[j].matched = Total(Of(B, o[j].orderId))
      BY <1>1 DEF TotalsAfter, B
    <3>2. CASE j = i
      BY <1>2, <1>6, <2>9, <3>1, <3>2 DEF FilledAt, Filled
    <3>3. CASE j # i
      <4>1. o[j].orderId # o[i].orderId /\ o[j].orderId # c.orderId
        BY <1>4, <3>3 DEF Placing
      <4> QED BY <1>2, <1>6, <2>9, <3>1, <3>3, <4>1 DEF FilledAt
    <3> QED BY <3>2, <3>3
  <2>11. n.incoming.matched = Total(Of(B \cup {x}, t.orderId))
    <3>1. m.incoming.matched = Total(Of(B, t.orderId))
      BY <1>1 DEF TotalsAfter, B
    <3> QED BY <1>3, <1>6, <2>9, <3>1 DEF FilledAt, Filled
  <2> QED BY <2>4, <2>10, <2>11 DEF TotalsAfter, t
<1>7. n = m \/ Stopped(m, n) \/ (FilledAt(m, n, i, q, seq, now) /\ q \in Nat)
  BY TurnOf DEF q
<1> QED BY <1>5, <1>6, <1>7

LEMMA PriorityTurn ==
    ASSUME NEW o, NEW c, NEW seq, NEW now, NEW A, NEW S, NEW i, NEW m, NEW n,
           Turn(o, c, seq, now, A, S, i, m, n)
    PROVE  PriorityAfter(o, c, S \cup {i}, n)
<1> DEFINE q == Smaller(m.incoming.remaining, o[i].remaining)
<1>1. PICK u, v : u = m.incoming /\ v = n.incoming
  OBVIOUS
<1>2. /\ \A j \in S : m.orders[j].matched > o[j].matched =>
                        o[j].owner # c.owner /\ UsedUpBefore(o, c, S, m, j)
      /\ u.cancelled > 0 => \E j \in S : o[j].owner = c.owner /\ UsedUpBefore(o, c, S, m, j)
      /\ u.remaining > 0 => \A j \in S : m.orders[j].remaining = 0
  BY <1>1 DEF Turn, After, PriorityAfter
<1>3. S \subseteq DOMAIN o /\ i \in DOMAIN o \ S /\ Placing(o, c, seq, now)
  BY DEF Turn
<1>4. \A j \in S : Precedes(c, o[j], o[i]) /\ ~Precedes(c, o[i], o[j])
  BY <1>3, PriorityIsAnOrder DEF Turn
<1>5. ~Precedes(c, o[i], o[i])
  BY <1>3, PriorityIsAnOrder
<1>6. DOMAIN m.orders = DOMAIN o /\ m.orders[i] = o[i] /\ IsOrder(o[i]) /\ IsOrder(u)
  BY <1>1, TurnOf
<1>7. u.cancelled > 0 => u.remaining = 0
  BY <1>1 DEF Turn, After, TakerAfter
<1>8. ASSUME \A j \in S : n.orders[j] = m.orders[j], NEW j \in S, UsedUpBefore(o, c, S, m, j)
      PROVE  UsedUpBefore(o, c, S \cup {i}, n, j)
  BY <1>4, <1>8 DEF UsedUpBefore
<1>9. ASSUME u.remaining > 0, \A j \in S : n.orders[j] = m.orders[j]
      PROVE  UsedUpBefore(o, c, S \cup {i}, n, i)
  BY <1>2, <1>5, <1>9 DEF UsedUpBefore
<1> HIDE DEF q
<1>10. CASE u.remaining = 0 /\ n = m
  <2>1. ~(n.orders[i].matched > o[i].matched)
    BY <1>6, <1>10 DEF IsOrder, Columns
  <2>2. v = u
    BY <1>1, <1>10
  <2>3. v.remaining = 0
    BY <1>10, <2>2
  <2>4. \A j \in S \cup {i} : n.orders[j].matched > o[j].matched =>
                       o[j].owner # c.owner /\ UsedUpBefore(o, c, S \cup {i}, n, j)
    BY <1>2, <1>8, <1>10, <2>1
  <2>5. v.cancelled > 0 =>
          \E j \in S \cup {i} : o[j].owner = c.owner /\ UsedUpBefore(o, c, S \cup {i}, n, j)
    BY <1>2, <1>8, <1>10, <2>2
  <2>6. ~(v.remaining > 0)
    BY <2>3
  <2> QED BY <1>1, <2>4, <2>5, <2>6 DEF PriorityAfter
<1>11. CASE u.remaining > 0 /\ o[i].owner = c.owner /\ Stopped(m, n)
  <2>1. n.orders = m.orders /\ v.remaining = 0
    BY <1>1, <1>11 DEF Stopped
  <2>2. ~(n.orders[i].matched > o[i].matched) /\ ~(v.remaining > 0)
    BY <1>6, <2>1 DEF IsOrder, Columns
  <2>3. \A j \in S \cup {i} : n.orders[j].matched > o[j].matched =>
                       o[j].owner # c.owner /\ UsedUpBefore(o, c, S \cup {i}, n, j)
    BY <1>2, <1>8, <2>1, <2>2
  <2>4. UsedUpBefore(o, c, S \cup {i}, n, i)
    BY <1>9, <1>11, <2>1
  <2> QED BY <1>1, <1>11, <2>2, <2>3, <2>4 DEF PriorityAfter
<1>12. CASE /\ u.remaining > 0 /\ o[i].owner # c.owner
            /\ FilledAt(m, n, i, q, seq, now)
            /\ q \in Nat
            /\ q = u.remaining \/ q = o[i].remaining
  <2>1. \A j \in S : n.orders[j] = m.orders[j]
    BY <1>3, <1>6, <1>12 DEF FilledAt
  <2>2. Filled(o[i], n.orders[i], q) /\ Filled(u, v, q)
    BY <1>1, <1>6, <1>12 DEF FilledAt
  <2>3. UsedUpBefore(o, c, S \cup {i}, n, i)
    BY <1>9, <1>12, <2>1
  <2>4. \A j \in S \cup {i} : n.orders[j].matched > o[j].matched =>
                       o[j].owner # c.owner /\ UsedUpBefore(o, c, S \cup {i}, n, j)
    BY <1>2, <1>8, <1>12, <2>1, <2>3
  <2>5. ~(v.cancelled > 0)
    BY <1>6, <1>7, <1>12, <2>2 DEF Filled, IsOrder, Columns
  <2>6. v.remaining > 0 => n.orders[i].remaining = 0
    BY <1>6, <1>12, <2>2 DEF Filled, IsOrder, Columns
  <2>7. v.remaining > 0 => \A j \in S \cup {i} : n.orders[j].remaining = 0
    BY <1>2, <1>12, <2>1, <2>6
  <2> QED BY <1>1, <2>4, <2>5, <2>7 DEF PriorityAfter
<1>13. \/ u.remaining = 0 /\ n = m
       \/ u.remaining > 0 /\ o[i].owner = c.owner /\ Stopped(m, n)
       \/ /\ u.remaining > 0 /\ o[i].owner # c.owner
          /\ FilledAt(m, n, i, q, seq, now)
          /\ q \in Nat
          /\ q = u.remaining \/ q = o[i].remaining
  BY <1>1, TurnOf DEF q
<1> QED BY <1>10, <1>11, <1>12, <1>13

-----------------------------------------------------------------------------
(* Before the first turn, and after the last.                              *)
LEMMA StartIs ==
    ASSUME NEW o, NEW c, NEW seq, NEW now, NEW A, Placing(o, c, seq, now), Before(o, c, seq, A),
           o = [i \in DOMAIN o |-> o[i]]
    PROVE  After(o, c, seq, now, A, {}, Start(o, c, seq, now))
<1> DEFINE t == IncomingOrder(c, seq, now)
<1>1. PICK m : m = Start(o, c, seq, now)
  OBVIOUS
<1>2. m.orders = o /\ m.incoming = t /\ m.matches = <<>> /\ DOMAIN m = {"orders", "incoming", "matches"}
  BY <1>1 DEF Start
<1>3. IsOrder(t) /\ \A i \in DOMAIN o : IsOrder(o[i])
  BY DEF Placing
<1>4. /\ t.remaining \in Nat /\ t.matched = 0 /\ t.cancelled = 0 /\ t.expired = 0
      /\ t.orderId = c.orderId
  BY <1>3 DEF IncomingOrder, IsOrder, Columns
<1>5. NotByRequest(t.reason)
  BY Zenon DEF IncomingOrder, NotByRequest
<1> HIDE DEF t
<1>6. IsState(m)
  BY <1>2, <1>3 DEF IsState, IsOrder
<1>7. RestingAfter(o, {}, m)
  BY <1>2, <1>3 DEF RestingAfter, Traded, SameTerms, IsOrder, Columns
<1>8. TakerAfter(t, m)
  BY <1>2, <1>3, <1>4, <1>5 DEF TakerAfter, SameTerms
<1>9. ToSet(m.matches) = {}
  BY <1>2 DEF ToSet
<1>10. MatchesAfter(o, t, seq, now, {}, m)
  BY <1>2, <1>9 DEF MatchesAfter
<1>11. TotalsAfter(o, t, A, m)
  BY <1>2, <1>4, <1>9, TotalOfNone DEF TotalsAfter, Before
<1>12. PriorityAfter(o, c, {}, m)
  BY <1>2, <1>4 DEF PriorityAfter
<1> QED BY <1>1, <1>6, <1>7, <1>8, <1>10, <1>11, <1>12 DEF After, t

LEMMA NextTurn ==
    ASSUME NEW o, NEW c, NEW seq, NEW now, NEW A, NEW S, NEW i, NEW m, NEW n,
           Turn(o, c, seq, now, A, S, i, m, n)
    PROVE  After(o, c, seq, now, A, S \cup {i}, n)
BY TurnOf, RestingTurn, TakerTurn, MatchesTurn, TotalsTurn, PriorityTurn DEF After

LEMMA MatchedAll ==
    ASSUME NEW o, NEW c, NEW seq, NEW now, NEW A, Placing(o, c, seq, now), Before(o, c, seq, A),
           o = [i \in DOMAIN o |-> o[i]]
    PROVE  After(o, c, seq, now, A, Candidates(o, c), MatchAll(o, c, seq, now))
<1> DEFINE All == Candidates(o, c)
<1>1. PICK after : IsAfter(o, c, seq, now, after) /\ MatchAll(o, c, seq, now) = after[All]
  BY MatchAllIs
<1> DEFINE Bad == {S \in SUBSET All : ~After(o, c, seq, now, A, S, after[S])}
<1>2. All \subseteq DOMAIN o /\ IsFiniteSet(All)
  BY FS_Subset DEF Candidates, Placing
<1>3. Bad = {}
  <2> SUFFICES ASSUME Bad # {} PROVE FALSE
    OBVIOUS
  <2>1. PICK S \in Bad : \A T \in Bad : T \subseteq S => T = S
    <3> HIDE DEF Bad, All
    <3>1. Bad \subseteq SUBSET All
      BY DEF Bad
    <3> QED BY <1>2, <3>1, SmallestSet
  <2>2. S # {}
    <3>1. after[{}] = Start(o, c, seq, now)
      BY <1>1 DEF IsAfter
    <3>2. After(o, c, seq, now, A, {}, after[{}])
      BY <3>1, StartIs
    <3> QED BY <2>1, <3>2
  <2> DEFINE i == LastInTurn(o, c, S)
  <2>3. i \in S /\ \A j \in S \ {i} : Precedes(c, o[j], o[i])
    BY <1>2, <2>1, <2>2, LastIsLast
  <2>4. after[S] = MatchStep(after[S \ {i}], i, seq, now)
    BY <1>1, <2>1, <2>2 DEF IsAfter
  <2> HIDE DEF i
  <2>5. After(o, c, seq, now, A, S \ {i}, after[S \ {i}])
    BY <2>1, <2>3
  <2>6. Crosses(c, o[i])
    BY <2>1, <2>3 DEF Candidates
  <2>7. Turn(o, c, seq, now, A, S \ {i}, i, after[S \ {i}], after[S])
    BY <1>2, <2>1, <2>3, <2>4, <2>5, <2>6 DEF Turn
  <2>8. (S \ {i}) \cup {i} = S
    BY <2>3
  <2>9. After(o, c, seq, now, A, S, after[S])
    BY <2>7, <2>8, NextTurn
  <2> QED BY <2>1, <2>9
<1> QED BY <1>1, <1>3
-----------------------------------------------------------------------------
(* The operators of the book on a book that is given by its four fields.   *)
IsBook(b, s, t, o, r) == b = [sequence |-> s, time |-> t, orders |-> o, receipts |-> r]
ExpiredOrders(o, now) == [i \in DOMAIN o |-> ExpireOrder(o[i], now)]
Received(r, c, result) ==
    [id \in DOMAIN r \cup {c.requestId} |->
        IF id = c.requestId THEN [command |-> c, result |-> result] ELSE r[id]]

LEMMA ExpireIs ==
    ASSUME NEW s, NEW t, NEW o, NEW r, NEW now, NEW b, IsBook(b, s, t, o, r)
    PROVE  IsBook(Expire(b, now), s, now, ExpiredOrders(o, now), r)
<1> DEFINE fields == {"sequence", "time", "orders", "receipts"}
           next == ExpiredOrders(b.orders, now)
<1>1. PICK e : e = [b EXCEPT !.orders = next, !.time = now]
  OBVIOUS
<1>2. Expire(b, now) = e
  BY <1>1 DEF Expire, ExpiredOrders
<1>3. b.orders = o
  BY DEF IsBook
<1> HIDE DEF next
<1>4. DOMAIN e = fields
  BY <1>1 DEF IsBook
<1>5. e.sequence = s /\ e.time = now /\ e.orders = next /\ e.receipts = r
  BY <1>1 DEF IsBook
<1>6. e = [f \in fields |-> e[f]]
  BY <1>1, <1>4 DEF IsBook
<1>7. e = [sequence |-> s, time |-> now, orders |-> next, receipts |-> r]
  BY <1>5, <1>6
<1> QED BY <1>2, <1>3, <1>7 DEF IsBook, next

(* A receipt, a cancelled order and a placed one change only their fields. *)
LEMMA WithReceiptIs ==
    ASSUME NEW s, NEW t, NEW o, NEW r, NEW c, NEW result, NEW b, IsBook(b, s, t, o, r)
    PROVE  IsBook(WithReceipt(b, c, result), s, t, o, Received(r, c, result))
BY DEF IsBook, WithReceipt, Received

LEMMA CancelIs ==
    ASSUME NEW s, NEW t, NEW o, NEW r, NEW c, NEW now, NEW b, IsBook(b, s, t, o, r)
    PROVE  LET i == CHOOSE k \in DOMAIN o : o[k].orderId = c.orderId
               after == CancelOrder(o[i])
           IN  IsBook(Cancel(b, c, now), s, t, [o EXCEPT ![i] = after],
                      Received(r, c, [sequence |-> s, time |-> now, order |-> after,
                                      matches |-> <<>>]))
<1> DEFINE i == CHOOSE k \in DOMAIN o : o[k].orderId = c.orderId
           after == CancelOrder(o[i])
           result == [sequence |-> s, time |-> now, order |-> after, matches |-> <<>>]
<1>1. OrderIndex(b, c.orderId) = i /\ b.orders[i] = o[i] /\ b.sequence = s
  BY DEF IsBook, OrderIndex
<1>2. PICK e : e = [b EXCEPT !.orders[i] = after]
  OBVIOUS
<1>3. Cancel(b, c, now) = WithReceipt(e, c, result)
  BY <1>1, <1>2 DEF Cancel
<1>4. IsBook(e, s, t, [o EXCEPT ![i] = after], r)
  <2> HIDE DEF after, i
  <2> QED BY <1>2 DEF IsBook
<1> QED BY <1>3, <1>4, WithReceiptIs

LEMMA PlaceIs ==
    ASSUME NEW s, NEW t, NEW o, NEW r, NEW c, NEW now, NEW b, IsBook(b, s, t, o, r)
    PROVE  LET m == MatchAll(o, c, s, now)
           IN  IsBook(Place(b, c, now), s, t, Append(m.orders, m.incoming),
                      Received(r, c, [sequence |-> s, time |-> now, order |-> m.incoming,
                                      matches |-> m.matches]))
<1> DEFINE m == MatchAll(o, c, s, now)
           next == Append(m.orders, m.incoming)
           result == [sequence |-> s, time |-> now, order |-> m.incoming, matches |-> m.matches]
<1>1. b.orders = o /\ b.sequence = s
  BY DEF IsBook
<1>2. PICK e : e = [b EXCEPT !.orders = next]
  OBVIOUS
<1>3. Place(b, c, now) = WithReceipt(e, c, result)
  BY <1>1, <1>2 DEF Place
<1>4. IsBook(e, s, t, next, r)
  <2> HIDE DEF next
  <2> QED BY <1>2 DEF IsBook
<1> QED BY <1>3, <1>4, WithReceiptIs

(* Apply: the new book after a Cancel, and after a Place.                  *)
CancelledOrders(o, i) == [o EXCEPT ![i] = CancelOrder(o[i])]
CancelResult(s, now, o, i) ==
    [sequence |-> s, time |-> now, order |-> CancelOrder(o[i]), matches |-> <<>>]
PlaceResult(s, now, m) ==
    [sequence |-> s, time |-> now, order |-> m.incoming, matches |-> m.matches]

LEMMA ApplyIs ==
    ASSUME NEW s, NEW t, NEW o, NEW r, NEW c, NEW now, NEW b, IsBook(b, s, t, o, r)
    PROVE  LET next == ExpiredOrders(o, now)
               i == CHOOSE k \in DOMAIN next : next[k].orderId = c.orderId
               m == MatchAll(next, c, s + 1, now)
           IN  /\ c.action = "Cancel" =>
                     IsBook(Apply(b, c, now), s + 1, now, CancelledOrders(next, i),
                            Received(r, c, CancelResult(s + 1, now, next, i)))
               /\ c.action # "Cancel" =>
                     IsBook(Apply(b, c, now), s + 1, now, Append(m.orders, m.incoming),
                            Received(r, c, PlaceResult(s + 1, now, m)))
<1> DEFINE next == ExpiredOrders(o, now)
           i == CHOOSE k \in DOMAIN next : next[k].orderId = c.orderId
           m == MatchAll(next, c, s + 1, now)
<1>1. PICK e : e = Expire(b, now)
  OBVIOUS
<1>2. IsBook(e, s, now, next, r)
  BY <1>1, ExpireIs
<1>3. PICK core : core = [e EXCEPT !.sequence = @ + 1]
  OBVIOUS
<1>4. IsBook(core, s + 1, now, next, r)
  <2> HIDE DEF next
  <2> QED BY <1>2, <1>3 DEF IsBook
<1>5. ASSUME c.action = "Cancel"
      PROVE  IsBook(Apply(b, c, now), s + 1, now, CancelledOrders(next, i),
                    Received(r, c, CancelResult(s + 1, now, next, i)))
  <2>1. Apply(b, c, now) = Cancel(core, c, now)
    BY <1>1, <1>3, <1>5 DEF Apply
  <2> HIDE DEF next
  <2> QED BY <1>4, <2>1, CancelIs DEF CancelledOrders, CancelResult
<1>6. ASSUME c.action # "Cancel"
      PROVE  IsBook(Apply(b, c, now), s + 1, now, Append(m.orders, m.incoming),
                    Received(r, c, PlaceResult(s + 1, now, m)))
  <2>1. Apply(b, c, now) = Place(core, c, now)
    BY <1>1, <1>3, <1>6 DEF Apply
  <2> HIDE DEF next
  <2> QED BY <1>4, <2>1, PlaceIs DEF PlaceResult
<1> QED BY <1>5, <1>6
-----------------------------------------------------------------------------
(* A product that is accepted does not overflow, nor does one of a part.   *)
LEMMA NotionalBound ==
    ASSUME NEW q, NEW p \in Int, NotionalFits(q, p), NEW k \in 1..q
    PROVE  k * p =< MaxInt64
<1> DEFINE d == MaxInt64 \div q
<1>1. q \in Nat /\ q >= 1 /\ k \in Nat /\ k =< q /\ p \in Nat /\ MaxInt64 \in Nat
  BY MaxQuantityAssumption, MaxInt64Assumption DEF NotionalFits
<1>2. d \in Nat /\ q * d =< MaxInt64
  BY <1>1, Z3
<1>3. p =< d
  BY DEF NotionalFits
<1> HIDE DEF d
<1>4. k * p =< q * p
  BY <1>1, Z3
<1>5. q * p =< q * d
  BY <1>1, <1>2, <1>3, Z3
<1>6. k * p \in Int /\ q * p \in Int /\ q * d \in Int
  BY <1>1, <1>2, Z3
<1> QED BY <1>1, <1>2, <1>4, <1>5, <1>6

-----------------------------------------------------------------------------
(* What is true of every book that commands can make: its sequence number  *)
(* s, its time t, its orders o and its receipts r.  The orders are within  *)
(* their limits, none accepted later than now, no two alike.               *)
OrdersOk(s, t, o) ==
    /\ o \in Seq(ToSet(o))
    /\ \A i \in DOMAIN o : IsOrder(o[i]) /\ o[i].sequence \in 1..s /\ o[i].acceptedAt =< t
    /\ \A i, j \in DOMAIN o :
          i # j => o[i].orderId # o[j].orderId /\ o[i].sequence # o[j].sequence

(* The receipts are numbered 1, 2, ..., s.                                 *)
ReceiptsOk(s, r) ==
    /\ s \in Nat
    /\ IsFiniteSet(DOMAIN r) /\ Cardinality(DOMAIN r) = s
    /\ \A id \in DOMAIN r :
          /\ r[id].result.sequence \in 1..s
          /\ r[id].result.matches \in Seq(ToSet(r[id].result.matches))
    /\ \A k \in 1..s : \E id \in DOMAIN r : r[id].result.sequence = k
    /\ \A id, jd \in DOMAIN r : id # jd => r[id].result.sequence # r[jd].result.sequence

(* Each order has the receipt of its Place, and if it was cancelled by     *)
(* request the receipt of its owner's Cancel.                              *)
PlacedBy(x, n) ==
    LET c == x.command
    IN  /\ c.action = "Place" /\ c.orderId = n.orderId /\ c.owner = n.owner /\ c.side = n.side
        /\ c.quantity = n.quantity /\ c.price = n.price /\ c.expiresAt = n.expiresAt
        /\ x.result.sequence = n.sequence /\ x.result.time = n.acceptedAt

CancelledBy(x, n) ==
    LET c == x.command
    IN  c.action = "Cancel" /\ c.orderId = n.orderId /\ c.owner = n.owner

HasReceipts(r, n) ==
    /\ \E id \in DOMAIN r : PlacedBy(r[id], n)
    /\ n.reason = "Cancelled" => \E id \in DOMAIN r : CancelledBy(r[id], n)

PlacedOk(o, r) == \A i \in DOMAIN o : HasReceipts(r, o[i])

(* Each match is inside the terms of an earlier and a later order.         *)
Agreed(x, a, t) ==
    /\ InTerms(x, a, t, x.time)
    /\ a.side # t.side
    /\ \/ t.side = "Buy" /\ t.price >= a.price
       \/ t.side = "Sell" /\ t.price =< a.price
    /\ x.quantity \in Int /\ x.notional =< MaxInt64
    /\ a.sequence < t.sequence /\ x.id[1] = t.sequence
    /\ a.acceptedAt =< x.time /\ x.time < a.expiresAt
    /\ t.acceptedAt =< x.time /\ x.time < t.expiresAt

MatchesOk(o, r) ==
    \A id \in DOMAIN r : \A x \in ToSet(r[id].result.matches) :
       /\ x.id[1] = r[id].result.sequence
       /\ \E i, j \in DOMAIN o : Agreed(x, o[i], o[j])

(* The matched columns are the totals of the matches of all receipts.      *)
Recorded(r) == UNION {ToSet(r[id].result.matches) : id \in DOMAIN r}

TotalsOk(o, r) ==
    /\ IsFiniteSet(Recorded(r))
    /\ \A i \in DOMAIN o : o[i].matched = Total(Of(Recorded(r), o[i].orderId))

(* No two orders that rest could match.                                    *)
NotCrossed(o) ==
    \A i, j \in DOMAIN o :
       o[i].side = "Buy" /\ o[j].side = "Sell" /\ o[i].remaining > 0 /\ o[j].remaining > 0
          => o[i].price < o[j].price

BookOk(s, t, o, r) ==
    /\ t \in Int
    /\ OrdersOk(s, t, o)
    /\ ReceiptsOk(s, r)
    /\ PlacedOk(o, r)
    /\ MatchesOk(o, r)
    /\ TotalsOk(o, r)
    /\ NotCrossed(o)

(* An order later: quantity only leaves the remaining column.              *)
Aged(a, n) ==
    /\ IsOrder(n) /\ SameTerms(a, n)
    /\ n.remaining =< a.remaining
    /\ n.matched >= a.matched /\ n.cancelled >= a.cancelled /\ n.expired >= a.expired

AgedList(o, n) ==
    /\ n = [i \in DOMAIN o |-> n[i]]
    /\ \A i \in DOMAIN o : Aged(o[i], n[i])

LEMMA AgedTwice ==
    ASSUME NEW o, NEW n, NEW p, AgedList(o, n), AgedList(n, p),
           \A i \in DOMAIN o : IsOrder(o[i])
    PROVE  AgedList(o, p)
<1>1. DOMAIN n = DOMAIN o
  BY DEF AgedList
<1>2. ASSUME NEW i \in DOMAIN o PROVE Aged(o[i], p[i])
  <2>1. PICK a, b, c : a = o[i] /\ b = n[i] /\ c = p[i]
    OBVIOUS
  <2>2. Aged(a, b) /\ Aged(b, c) /\ IsOrder(a)
    BY <1>1, <2>1 DEF AgedList
  <2>3. Aged(a, c)
    BY <2>2 DEF Aged, SameTerms, IsOrder, Columns
  <2> QED BY <2>1, <2>3
<1> QED BY <1>1, <1>2 DEF AgedList

LEMMA AgedOrders ==
    ASSUME NEW s \in Nat, NEW t \in Int, NEW o, NEW n, OrdersOk(s, t, o), AgedList(o, n),
           NEW z \in Nat, s =< z, NEW now \in Int, t =< now
    PROVE  /\ OrdersOk(z, now, n)
           /\ NotCrossed(o) => NotCrossed(n)
           /\ \A r : MatchesOk(o, r) => MatchesOk(n, r)
<1>1. PICK k \in Nat : DOMAIN o = 1..k
  BY DEF OrdersOk
<1>2. DOMAIN n = 1..k /\ n = [i \in 1..k |-> n[i]]
  BY <1>1 DEF AgedList
<1>3. n \in Seq(ToSet(n))
  <2>1. \A i \in 1..k : n[i] \in ToSet(n)
    BY <1>2 DEF ToSet
  <2> QED BY <1>2, <2>1
<1>4. \A i \in 1..k : Aged(o[i], n[i]) /\ SameTerms(o[i], n[i]) /\ IsOrder(n[i]) /\ IsOrder(o[i])
  BY <1>1 DEF AgedList, OrdersOk, Aged
<1>5. ASSUME NEW i \in 1..k
      PROVE  /\ n[i].sequence \in 1..z /\ n[i].acceptedAt =< now
  <2>1. PICK a : a = o[i].acceptedAt
    OBVIOUS
  <2>2. a \in Int /\ a =< t /\ n[i].acceptedAt = a /\ o[i].sequence \in 1..s
        /\ n[i].sequence = o[i].sequence
    BY <1>1, <1>4, <2>1 DEF OrdersOk, SameTerms, IsOrder, Limited
  <2> QED BY <2>2
<1>6. OrdersOk(z, now, n)
  BY <1>1, <1>2, <1>3, <1>4, <1>5 DEF OrdersOk, SameTerms
<1>7. ASSUME NotCrossed(o) PROVE NotCrossed(n)
  <2> SUFFICES ASSUME NEW i \in 1..k, NEW j \in 1..k, n[i].side = "Buy", n[j].side = "Sell",
                      n[i].remaining > 0, n[j].remaining > 0
               PROVE  n[i].price < n[j].price
    BY <1>2 DEF NotCrossed
  <2>1. o[i].remaining > 0 /\ o[j].remaining > 0
    BY <1>4 DEF Aged, IsOrder, Columns
  <2> QED BY <1>1, <1>4, <1>7, <2>1 DEF NotCrossed, SameTerms
<1>8. ASSUME NEW r, MatchesOk(o, r) PROVE MatchesOk(n, r)
  <2>1. ASSUME NEW x, NEW i \in 1..k, NEW j \in 1..k, Agreed(x, o[i], o[j])
        PROVE  Agreed(x, n[i], n[j])
    <3>1. SameTerms(o[i], n[i]) /\ SameTerms(o[j], n[j])
      BY <1>4
    <3> QED BY <2>1, <3>1 DEF Agreed, InTerms, SameTerms
  <2> QED BY <1>1, <1>2, <1>8, <2>1 DEF MatchesOk
<1> QED BY <1>6, <1>7, <1>8

LEMMA AgedReceipts ==
    ASSUME NEW r, NEW a, NEW n, SameTerms(a, n), HasReceipts(r, a),
           n.reason = "Cancelled" => a.reason = "Cancelled"
    PROVE  HasReceipts(r, n)
BY DEF HasReceipts, PlacedBy, CancelledBy, SameTerms

-----------------------------------------------------------------------------
(* Expire.                                                                 *)
LEMMA ExpireOrderIs ==
    ASSUME NEW a, IsOrder(a), NEW now \in Int
    PROVE  LET n == ExpireOrder(a, now)
           IN  /\ Aged(a, n) /\ n.matched = a.matched
               /\ n.remaining > 0 => now < n.expiresAt
               /\ now < a.expiresAt => n = a
               /\ n.reason = "Cancelled" => a.reason = "Cancelled"
<1>1. PICK n : n = ExpireOrder(a, now)
  OBVIOUS
<1>2. a.expiresAt \in Int /\ a.remaining \in Nat
  BY DEF IsOrder, Limited, Columns
<1>3. CASE a.expiresAt =< now /\ a.remaining > 0
  <2>1. n = [a EXCEPT !.expired = @ + a.remaining, !.remaining = 0, !.reason = "Expired"]
    BY <1>1, <1>3 DEF ExpireOrder
  <2>2. /\ DOMAIN n = OrderFields /\ SameTerms(a, n)
        /\ n.remaining = 0 /\ n.expired = a.expired + a.remaining
        /\ n.matched = a.matched /\ n.cancelled = a.cancelled /\ n.reason = "Expired"
    BY <2>1 DEF IsOrder, OrderFields, SameTerms
  <2>3. Columns(n) /\ Limited(n)
    BY <2>2 DEF IsOrder, Columns, Limited, SameTerms
  <2>4. Aged(a, n)
    BY <2>2, <2>3 DEF Aged, IsOrder, Columns
  <2>5. ~(now < a.expiresAt)
    BY <1>2, <1>3
  <2> QED BY <1>1, <2>2, <2>4, <2>5
<1>4. CASE ~(a.expiresAt =< now /\ a.remaining > 0)
  <2>1. n = a
    BY <1>1, <1>4 DEF ExpireOrder
  <2>2. Aged(a, a)
    BY DEF Aged, SameTerms, IsOrder, Columns
  <2>3. a.remaining > 0 => now < a.expiresAt
    BY <1>2, <1>4
  <2> QED BY <1>1, <2>1, <2>2, <2>3
<1> QED BY <1>3, <1>4

(* The orders of a book, after Expire.                                     *)
ExpiredTo(o, n, now) ==
    /\ AgedList(o, n)
    /\ \A i \in DOMAIN o :
          /\ n[i].matched = o[i].matched
          /\ n[i].remaining > 0 => now < n[i].expiresAt
          /\ now < o[i].expiresAt => n[i] = o[i]
          /\ n[i].reason = "Cancelled" => o[i].reason = "Cancelled"

LEMMA ExpiredOrdersAre ==
    ASSUME NEW o, \A i \in DOMAIN o : IsOrder(o[i]), NEW now \in Int
    PROVE  ExpiredTo(o, ExpiredOrders(o, now), now)
<1>1. PICK n : n = ExpiredOrders(o, now)
  OBVIOUS
<1>2. n = [i \in DOMAIN o |-> n[i]] /\ \A i \in DOMAIN o : n[i] = ExpireOrder(o[i], now)
  BY <1>1 DEF ExpiredOrders
<1> QED BY <1>1, <1>2, ExpireOrderIs DEF ExpiredTo, AgedList

LEMMA ExpireKeeps ==
    ASSUME NEW s, NEW t, NEW o, NEW r, BookOk(s, t, o, r), NEW now \in Int, t =< now
    PROVE  BookOk(s, now, ExpiredOrders(o, now), r)
<1>1. PICK n : n = ExpiredOrders(o, now)
  OBVIOUS
<1>2. ExpiredTo(o, n, now)
  BY <1>1, ExpiredOrdersAre DEF BookOk, OrdersOk
<1>3. s \in Nat /\ t \in Int /\ s =< s
  BY DEF BookOk, ReceiptsOk
<1>4. OrdersOk(s, now, n) /\ NotCrossed(n) /\ MatchesOk(n, r)
  BY <1>2, <1>3, AgedOrders DEF BookOk, ExpiredTo
<1>5. DOMAIN n = DOMAIN o
  BY <1>2 DEF ExpiredTo, AgedList
<1>6. ASSUME NEW i \in DOMAIN o
      PROVE  HasReceipts(r, n[i]) /\ n[i].matched = Total(Of(Recorded(r), n[i].orderId))
  <2>1. SameTerms(o[i], n[i]) /\ n[i].matched = o[i].matched
        /\ (n[i].reason = "Cancelled" => o[i].reason = "Cancelled")
    BY <1>2 DEF ExpiredTo, AgedList, Aged
  <2>2. HasReceipts(r, n[i])
    BY <2>1, AgedReceipts DEF BookOk, PlacedOk
  <2>3. n[i].orderId = o[i].orderId
    BY <2>1 DEF SameTerms
  <2> QED BY <2>1, <2>2, <2>3 DEF BookOk, TotalsOk
<1>7. PlacedOk(n, r) /\ TotalsOk(n, r)
  BY <1>5, <1>6 DEF PlacedOk, TotalsOk, BookOk
<1> QED BY <1>1, <1>4, <1>7 DEF BookOk
-----------------------------------------------------------------------------
(* A new receipt.                                                          *)
(* The receipts n are the receipts r with x under id.                      *)
OneMore(r, id, x, n) ==
    /\ id \notin DOMAIN r /\ DOMAIN n = DOMAIN r \cup {id}
    /\ n[id] = x
    /\ \A k \in DOMAIN r : n[k] = r[k]

LEMMA NewReceipt ==
    ASSUME NEW r, NEW c, c.requestId \notin DOMAIN r, NEW result,
           NEW n, n = Received(r, c, result), NEW x, x = n[c.requestId]
    PROVE  OneMore(r, c.requestId, x, n) /\ x.command = c /\ x.result = result
<1>1. /\ DOMAIN n = DOMAIN r \cup {c.requestId}
      /\ x = [command |-> c, result |-> result]
      /\ \A id \in DOMAIN r : n[id] = r[id]
  BY DEF Received
<1> QED BY <1>1 DEF OneMore

LEMMA ReceiptsGrow ==
    ASSUME NEW s, NEW r, ReceiptsOk(s, r), NEW id, NEW x, NEW n, OneMore(r, id, x, n),
           x.result.sequence = s + 1, x.result.matches \in Seq(ToSet(x.result.matches))
    PROVE  ReceiptsOk(s + 1, n) /\ Recorded(n) = Recorded(r) \cup ToSet(x.result.matches)
<1>1. /\ s \in Nat /\ IsFiniteSet(DOMAIN r) /\ Cardinality(DOMAIN r) = s
      /\ \A k \in DOMAIN r : r[k].result.sequence \in 1..s
                             /\ r[k].result.matches \in Seq(ToSet(r[k].result.matches))
      /\ \A k \in 1..s : \E j \in DOMAIN r : r[j].result.sequence = k
      /\ \A j, k \in DOMAIN r : j # k => r[j].result.sequence # r[k].result.sequence
  BY DEF ReceiptsOk
<1>2. /\ id \notin DOMAIN r /\ DOMAIN n = DOMAIN r \cup {id} /\ n[id] = x
      /\ \A k \in DOMAIN r : n[k] = r[k]
  BY DEF OneMore
<1>3. IsFiniteSet(DOMAIN n) /\ Cardinality(DOMAIN n) = s + 1
  <2>1. PICK D : D = DOMAIN r
    OBVIOUS
  <2>2. IsFiniteSet(D) /\ Cardinality(D) = s /\ id \notin D
    BY <1>1, <1>2, <2>1
  <2>3. IsFiniteSet(D \cup {id}) /\ Cardinality(D \cup {id}) = s + 1
    BY <2>2, FS_AddElement
  <2> QED BY <1>2, <2>1, <2>3
<1>4. s + 1 \in Nat /\ 1..(s + 1) = 1..s \cup {s + 1} /\ s + 1 \notin 1..s
  BY <1>1
<1>5. \A k \in DOMAIN n : n[k].result.sequence \in 1..(s + 1)
                          /\ n[k].result.matches \in Seq(ToSet(n[k].result.matches))
  BY <1>1, <1>2, <1>4
<1>6. \A k \in 1..(s + 1) : \E j \in DOMAIN n : n[j].result.sequence = k
  BY <1>1, <1>2, <1>4
<1>7. \A j, k \in DOMAIN n : j # k => n[j].result.sequence # n[k].result.sequence
  BY <1>1, <1>2, <1>4
<1>8. Recorded(n) = Recorded(r) \cup ToSet(x.result.matches)
  <2>1. \A k \in DOMAIN r : ToSet(n[k].result.matches) = ToSet(r[k].result.matches)
    BY <1>2
  <2>2. ToSet(n[id].result.matches) = ToSet(x.result.matches)
    BY <1>2
  <2> QED BY <1>2, <2>1, <2>2 DEF Recorded
<1> QED BY <1>3, <1>4, <1>5, <1>6, <1>7, <1>8 DEF ReceiptsOk

LEMMA ReceiptsKept ==
    ASSUME NEW r, NEW id, NEW x, NEW n, OneMore(r, id, x, n), NEW a, HasReceipts(r, a)
    PROVE  HasReceipts(n, a)
BY DEF OneMore, HasReceipts

LEMMA MatchesGrow ==
    ASSUME NEW o, NEW r, MatchesOk(o, r), NEW id, NEW x, NEW n, OneMore(r, id, x, n),
           \A y \in ToSet(x.result.matches) :
              y.id[1] = x.result.sequence /\ \E i, j \in DOMAIN o : Agreed(y, o[i], o[j])
    PROVE  MatchesOk(o, n)
BY DEF OneMore, MatchesOk

(* The guards of Apply, on the fields of the book.                         *)
Placeable(o, c, now) ==
    /\ c.action = "Place"
    /\ NotionalFits(c.quantity, c.price)
    /\ \A i \in DOMAIN o : o[i].orderId # c.orderId
    /\ c.side \in Sides
    /\ c.expiresAt > now

Cancellable(o, c) ==
    /\ c.action = "Cancel"
    /\ \E i \in DOMAIN o : o[i].orderId = c.orderId
    /\ o[CHOOSE i \in DOMAIN o : o[i].orderId = c.orderId].owner = c.owner

LEMMA ValidIs ==
    ASSUME NEW s, NEW t, NEW o, NEW r, NEW b, IsBook(b, s, t, o, r), NEW c, NEW now,
           Valid(b, c, now)
    PROVE  /\ now >= t /\ now >= 1 /\ s # MaxInt64
           /\ Placeable(o, c, now) \/ Cancellable(o, c)
<1>1. b.sequence = s /\ b.time = t /\ b.orders = o
  BY DEF IsBook
<1>2. now >= b.time /\ now >= 1 /\ b.sequence # MaxInt64
  BY Zenon DEF Valid
<1>3. \/ /\ c.action = "Place"
         /\ NotionalFits(c.quantity, c.price)
         /\ ~HasOrder(b, c.orderId)
         /\ c.side \in Sides
         /\ c.expiresAt > now
      \/ /\ c.action = "Cancel"
         /\ HasOrder(b, c.orderId)
         /\ b.orders[OrderIndex(b, c.orderId)].owner = c.owner
  BY Zenon DEF Valid
<1> QED BY <1>1, <1>2, <1>3 DEF Placeable, Cancellable, HasOrder, OrderIndex

(* Integers, as the code's are.                                            *)
IsRequest(c) == c.quantity \in Int /\ c.price \in Int /\ c.expiresAt \in Int

-----------------------------------------------------------------------------
(* Cancel.                                                                 *)
LEMMA CancelOrderIs ==
    ASSUME NEW a, IsOrder(a)
    PROVE  Aged(a, CancelOrder(a)) /\ CancelOrder(a).matched = a.matched
<1>1. PICK n : n = CancelOrder(a)
  OBVIOUS
<1>2. PICK k, why : k = a.cancelled + a.remaining
                    /\ why = (IF k > 0 THEN "Cancelled" ELSE a.reason)
  OBVIOUS
<1>3. n = [a EXCEPT !.cancelled = k, !.remaining = 0, !.reason = why]
  BY <1>1, <1>2 DEF CancelOrder
<1>4. /\ DOMAIN n = OrderFields /\ SameTerms(a, n)
      /\ n.remaining = 0 /\ n.cancelled = k /\ n.matched = a.matched /\ n.expired = a.expired
  BY <1>3 DEF IsOrder, OrderFields, SameTerms
<1>5. Columns(n) /\ Limited(n)
  BY <1>2, <1>4 DEF IsOrder, Columns, Limited, SameTerms
<1>6. Aged(a, n)
  BY <1>2, <1>4, <1>5 DEF Aged, IsOrder, Columns
<1> QED BY <1>1, <1>4, <1>6

LEMMA CancelKeeps ==
    ASSUME NEW s, NEW now, NEW o, NEW r, BookOk(s, now, o, r),
           NEW c, Cancellable(o, c), c.requestId \notin DOMAIN r
    PROVE  LET i == CHOOSE k \in DOMAIN o : o[k].orderId = c.orderId
           IN  /\ BookOk(s + 1, now, CancelledOrders(o, i),
                         Received(r, c, CancelResult(s + 1, now, o, i)))
               /\ AgedList(o, CancelledOrders(o, i))
<1>1. PICK i : i = CHOOSE k \in DOMAIN o : o[k].orderId = c.orderId
  OBVIOUS
<1>2. i \in DOMAIN o /\ o[i].orderId = c.orderId /\ o[i].owner = c.owner /\ c.action = "Cancel"
  BY <1>1 DEF Cancellable
<1>3. \A k \in DOMAIN o : IsOrder(o[k])
  BY DEF BookOk, OrdersOk
<1>4. PICK n, result, p, id : /\ n = CancelledOrders(o, i)
                             /\ result = CancelResult(s + 1, now, o, i)
                             /\ p = Received(r, c, result)
                             /\ id = c.requestId
  OBVIOUS
<1>5. /\ DOMAIN n = DOMAIN o /\ n = [k \in DOMAIN o |-> n[k]]
      /\ n[i] = CancelOrder(o[i])
      /\ \A k \in DOMAIN o : k # i => n[k] = o[k]
  BY <1>2, <1>4 DEF CancelledOrders
<1>6. \A a : IsOrder(a) => Aged(a, a)
  BY DEF Aged, SameTerms, IsOrder, Columns
<1>7. \A k \in DOMAIN o : Aged(o[k], n[k]) /\ SameTerms(o[k], n[k]) /\ n[k].matched = o[k].matched
  BY <1>2, <1>3, <1>5, <1>6, CancelOrderIs DEF Aged
<1>8. AgedList(o, n)
  BY <1>5, <1>7 DEF AgedList
<1>9. s \in Nat /\ now \in Int /\ s + 1 \in Nat /\ s =< s + 1 /\ now =< now
  BY DEF BookOk, ReceiptsOk
<1>10. OrdersOk(s + 1, now, n) /\ NotCrossed(n) /\ MatchesOk(n, r)
  BY <1>8, <1>9, AgedOrders DEF BookOk
<1>11. PICK x : x = p[id]
  OBVIOUS
<1>12. OneMore(r, id, x, p) /\ x.command = c /\ x.result = result
  BY <1>4, <1>11, NewReceipt
<1>13. result.sequence = s + 1 /\ result.matches = <<>> /\ ToSet(result.matches) = {}
  BY <1>4 DEF CancelResult, ToSet
<1>14. result.matches \in Seq(ToSet(result.matches))
  BY <1>13
<1>15. ReceiptsOk(s + 1, p) /\ Recorded(p) = Recorded(r)
  <2>1. /\ x.result.sequence = s + 1 /\ ToSet(x.result.matches) = {}
        /\ x.result.matches \in Seq(ToSet(x.result.matches))
    BY <1>12, <1>13, <1>14
  <2>2. ReceiptsOk(s, r)
    BY DEF BookOk
  <2>3. ReceiptsOk(s + 1, p) /\ Recorded(p) = Recorded(r) \cup ToSet(x.result.matches)
    BY <1>12, <2>1, <2>2, ReceiptsGrow
  <2> QED BY <2>1, <2>3
<1>16. MatchesOk(n, p)
  BY <1>10, <1>12, <1>13, MatchesGrow
<1>17. ASSUME NEW k \in DOMAIN o PROVE HasReceipts(p, n[k])
  <2>1. HasReceipts(p, o[k])
    BY <1>12, ReceiptsKept DEF BookOk, PlacedOk
  <2>2. CASE k # i
    BY <1>5, <2>1, <2>2
  <2>3. CASE k = i
    <3>1. SameTerms(o[i], n[i])
      BY <1>2, <1>7
    <3>2. CancelledBy(p[id], n[i])
      BY <1>2, <1>11, <1>12, <3>1 DEF CancelledBy, SameTerms
    <3>3. id \in DOMAIN p
      BY <1>12 DEF OneMore
    <3>4. \E j \in DOMAIN p : PlacedBy(p[j], n[i])
      BY <2>1, <2>3, <3>1 DEF HasReceipts, PlacedBy, SameTerms
    <3> QED BY <2>3, <3>2, <3>3, <3>4 DEF HasReceipts
  <2> QED BY <2>2, <2>3
<1>18. PlacedOk(n, p)
  BY <1>5, <1>17 DEF PlacedOk
<1>19. TotalsOk(n, p)
  <2>1. \A k \in DOMAIN n : n[k].matched = Total(Of(Recorded(r), n[k].orderId))
    BY <1>5, <1>7 DEF BookOk, TotalsOk, SameTerms
  <2> QED BY <1>15, <2>1 DEF BookOk, TotalsOk
<1> QED BY <1>1, <1>4, <1>8, <1>9, <1>10, <1>15, <1>16, <1>18, <1>19 DEF BookOk
-----------------------------------------------------------------------------
(* Place: the loop begins as its lemmas assume.                            *)
LEMMA PlaceBegins ==
    ASSUME NEW s, NEW now, NEW o, NEW r, BookOk(s, now, o, r),
           NEW c, Placeable(o, c, now), IsRequest(c)
    PROVE  Placing(o, c, s + 1, now) /\ Before(o, c, s + 1, Recorded(r))
<1>1. s \in Nat /\ now \in Int /\ OrdersOk(s, now, o)
  BY DEF BookOk, ReceiptsOk
<1>2. PICK t : t = IncomingOrder(c, s + 1, now)
  OBVIOUS
<1>3. /\ DOMAIN t = OrderFields
      /\ t.side = c.side /\ t.quantity = c.quantity /\ t.price = c.price
      /\ t.expiresAt = c.expiresAt /\ t.sequence = s + 1 /\ t.acceptedAt = now
      /\ t.remaining = c.quantity /\ t.matched = 0 /\ t.cancelled = 0 /\ t.expired = 0
  BY <1>2 DEF IncomingOrder, OrderFields
<1>4. c.quantity \in Nat
  BY MaxQuantityAssumption, MaxInt64Assumption DEF Placeable, NotionalFits
<1>5. Columns(t)
  BY <1>3, <1>4 DEF Columns
<1>6. Limited(t)
  BY <1>1, <1>3 DEF Limited, Placeable, IsRequest
<1>7. Placing(o, c, s + 1, now)
  <2>1. PICK k \in Nat : DOMAIN o = 1..k
    BY <1>1 DEF OrdersOk
  <2>2. IsFiniteSet(DOMAIN o)
    BY <2>1, FS_Interval
  <2> QED BY <1>1, <1>2, <1>3, <1>5, <1>6, <2>2 DEF Placing, IsOrder, OrdersOk, Placeable
<1>8. ASSUME NEW x \in Recorded(r)
      PROVE  x.quantity \in Int /\ x.id[1] # s + 1 /\ c.orderId \notin {x.maker, x.taker}
  <2>1. PICK id \in DOMAIN r : x \in ToSet(r[id].result.matches)
    BY DEF Recorded
  <2>2. PICK i \in DOMAIN o, j \in DOMAIN o : Agreed(x, o[i], o[j])
    BY <2>1 DEF BookOk, MatchesOk
  <2>3. x.id[1] = o[j].sequence /\ o[j].sequence \in 1..s
    BY <1>1, <2>2 DEF Agreed, OrdersOk
  <2>4. x.maker = o[i].orderId /\ x.taker = o[j].orderId /\ x.quantity \in Int
    BY <2>2 DEF Agreed, InTerms
  <2> QED BY <1>1, <2>3, <2>4 DEF Placeable
<1>9. Of(Recorded(r), c.orderId) = {}
  BY <1>8 DEF Of
<1>10. Before(o, c, s + 1, Recorded(r))
  BY <1>8, <1>9 DEF Before, BookOk, TotalsOk
<1> QED BY <1>7, <1>10

(* A match that the loop makes is inside the terms of both orders.         *)
LEMMA NewMatchAgreed ==
    ASSUME NEW s \in Nat, NEW now \in Int, NEW a, IsOrder(a), a.sequence \in 1..s,
           a.acceptedAt =< now, NEW c, Crosses(c, a), now < a.expiresAt,
           NEW t, IsOrder(t), SameTerms(IncomingOrder(c, s + 1, now), t),
           NEW x, InTerms(x, a, t, now), x.id[1] = s + 1
    PROVE  Agreed(x, a, t)
<1>1. /\ t.side = c.side /\ t.price = c.price /\ t.sequence = s + 1 /\ t.acceptedAt = now
      /\ now < t.expiresAt
  BY DEF SameTerms, IncomingOrder, IsOrder, Limited
<1>2. a.side # t.side
  BY <1>1 DEF Crosses
<1>3. (t.side = "Buy" /\ t.price >= a.price) \/ (t.side = "Sell" /\ t.price =< a.price)
  BY <1>1 DEF Crosses
<1>4. x.quantity \in 1..a.quantity /\ x.notional = x.quantity * a.price /\ x.time = now
  BY DEF InTerms
<1>5. a.price \in Int /\ NotionalFits(a.quantity, a.price)
  BY DEF IsOrder, Limited
<1>6. x.notional =< MaxInt64
  BY <1>4, <1>5, NotionalBound
<1>7. x.quantity \in Int /\ a.sequence < t.sequence
  BY <1>1, <1>4
<1>8. now =< now
  OBVIOUS
<1> QED BY <1>1, <1>2, <1>3, <1>4, <1>6, <1>7, <1>8 DEF Agreed

(* The orders after a Place: n, with the taker u behind them.              *)
Placed(s, now, o, r, c, m) ==
    /\ BookOk(s, now, o, r)
    /\ \A i \in DOMAIN o : o[i].remaining > 0 => now < o[i].expiresAt
    /\ Placeable(o, c, now) /\ IsRequest(c) /\ c.requestId \notin DOMAIN r
    /\ m = MatchAll(o, c, s + 1, now)

LEMMA PlacedAfter ==
    ASSUME NEW s, NEW now, NEW o, NEW r, NEW c, NEW m, Placed(s, now, o, r, c, m)
    PROVE  /\ After(o, c, s + 1, now, Recorded(r), Candidates(o, c), m)
           /\ s \in Nat /\ now \in Int /\ OrdersOk(s, now, o)
           /\ AgedList(o, m.orders) /\ DOMAIN m.orders = DOMAIN o
           /\ \A i \in DOMAIN o : m.orders[i].reason = o[i].reason
           /\ OrdersOk(s, now, m.orders) /\ NotCrossed(m.orders) /\ MatchesOk(m.orders, r)
<1>1. Placing(o, c, s + 1, now) /\ Before(o, c, s + 1, Recorded(r))
  BY PlaceBegins DEF Placed
<1>2. s \in Nat /\ now \in Int /\ OrdersOk(s, now, o)
  BY DEF Placed, BookOk, ReceiptsOk
<1>3. o = [i \in DOMAIN o |-> o[i]]
  BY <1>2 DEF OrdersOk
<1>4. After(o, c, s + 1, now, Recorded(r), Candidates(o, c), m)
  BY <1>1, <1>3, MatchedAll DEF Placed
<1>5. RestingAfter(o, Candidates(o, c), m)
  BY <1>4 DEF After
<1>6. ASSUME NEW i \in DOMAIN o PROVE Aged(o[i], m.orders[i]) /\ m.orders[i].reason = o[i].reason
  <2>1. Traded(o[i], m.orders[i]) /\ IsOrder(o[i])
    BY <1>2, <1>5 DEF RestingAfter, OrdersOk
  <2> QED BY <2>1 DEF Traded, Aged, IsOrder, Columns
<1>7. AgedList(o, m.orders) /\ DOMAIN m.orders = DOMAIN o
  BY <1>5, <1>6 DEF RestingAfter, AgedList
<1>8. s =< s /\ now =< now
  BY <1>2
<1>9. OrdersOk(s, now, m.orders) /\ NotCrossed(m.orders) /\ MatchesOk(m.orders, r)
  BY <1>2, <1>7, <1>8, AgedOrders DEF Placed, BookOk
<1> QED BY <1>2, <1>4, <1>6, <1>7, <1>9

LEMMA PlacedTaker ==
    ASSUME NEW s, NEW now, NEW o, NEW r, NEW c, NEW m, Placed(s, now, o, r, c, m),
           NEW u, u = m.incoming, NEW t, t = IncomingOrder(c, s + 1, now)
    PROVE  /\ IsOrder(u) /\ SameTerms(t, u) /\ u.reason # "Cancelled"
           /\ u.orderId = c.orderId /\ u.owner = c.owner /\ u.side = c.side
           /\ u.quantity = c.quantity /\ u.price = c.price /\ u.expiresAt = c.expiresAt
           /\ u.sequence = s + 1 /\ u.acceptedAt = now
<1>1. TakerAfter(t, m)
  BY PlacedAfter DEF After
<1>2. IsOrder(u) /\ SameTerms(t, u) /\ NotByRequest(u.reason)
  BY <1>1 DEF TakerAfter
<1>3. u.reason # "Cancelled"
  BY <1>2, Zenon DEF NotByRequest
<1>4. /\ t.orderId = c.orderId /\ t.owner = c.owner /\ t.side = c.side
      /\ t.quantity = c.quantity /\ t.price = c.price /\ t.expiresAt = c.expiresAt
      /\ t.sequence = s + 1 /\ t.acceptedAt = now
  BY DEF IncomingOrder
<1> QED BY <1>2, <1>3, <1>4 DEF SameTerms

Behind(o, m, q, k) ==
    /\ k \in Nat /\ DOMAIN m.orders = 1..k /\ DOMAIN o = 1..k /\ DOMAIN q = 1..(k + 1)
    /\ k + 1 \in 1..(k + 1) /\ k + 1 \notin 1..k
    /\ 1..(k + 1) = 1..k \cup {k + 1}
    /\ q[k + 1] = m.incoming
    /\ \A i \in 1..k : q[i] = m.orders[i]
    /\ \A i \in 1..k : Aged(o[i], m.orders[i]) /\ SameTerms(o[i], m.orders[i])
    /\ q \in Seq(ToSet(q))

LEMMA PlacedList ==
    ASSUME NEW s, NEW now, NEW o, NEW r, NEW c, NEW m, Placed(s, now, o, r, c, m),
           NEW q, q = Append(m.orders, m.incoming)
    PROVE  \E k : Behind(o, m, q, k)
<1>1. m.orders \in Seq(ToSet(m.orders)) /\ DOMAIN m.orders = DOMAIN o
  BY PlacedAfter DEF OrdersOk
<1>2. Extended(m.orders, m.incoming, q)
  BY <1>1, AppendIs
<1>3. PICK k \in Nat : k = Len(m.orders)
  BY <1>2 DEF Extended
<1>4. /\ DOMAIN m.orders = 1..k /\ DOMAIN q = 1..(k + 1) /\ q[k + 1] = m.incoming
      /\ \A i \in 1..k : q[i] = m.orders[i]
      /\ q \in Seq(ToSet(q))
  BY <1>2, <1>3 DEF Extended
<1>5. k + 1 \in 1..(k + 1) /\ k + 1 \notin 1..k /\ 1..(k + 1) = 1..k \cup {k + 1}
  OBVIOUS
<1>6. \A i \in DOMAIN o : Aged(o[i], m.orders[i]) /\ SameTerms(o[i], m.orders[i])
  BY PlacedAfter DEF AgedList, Aged
<1> QED BY <1>1, <1>4, <1>5, <1>6 DEF Behind

LEMMA PlacedOrders ==
    ASSUME NEW s, NEW now, NEW o, NEW r, NEW c, NEW m, Placed(s, now, o, r, c, m),
           NEW q, q = Append(m.orders, m.incoming)
    PROVE  OrdersOk(s + 1, now, q)
<1>0. PICK k : Behind(o, m, q, k)
  BY PlacedList
<1>1. /\ k \in Nat /\ DOMAIN m.orders = 1..k /\ DOMAIN o = 1..k /\ DOMAIN q = 1..(k + 1)
      /\ 1..(k + 1) = 1..k \cup {k + 1}
      /\ q[k + 1] = m.incoming
      /\ \A i \in 1..k : q[i] = m.orders[i]
      /\ q \in Seq(ToSet(q))
  BY <1>0 DEF Behind
<1>2. s \in Nat /\ now \in Int /\ OrdersOk(s, now, m.orders)
  BY PlacedAfter
<1>3. PICK u : u = m.incoming
  OBVIOUS
<1>4. IsOrder(u) /\ u.orderId = c.orderId /\ u.sequence = s + 1 /\ u.acceptedAt = now
  BY <1>3, PlacedTaker
<1>5. ASSUME NEW i \in 1..k
      PROVE  /\ IsOrder(q[i]) /\ q[i].sequence \in 1..s /\ q[i].acceptedAt =< now
             /\ q[i].orderId # c.orderId
  <2>1. IsOrder(q[i]) /\ q[i].sequence \in 1..s /\ q[i].acceptedAt =< now
    BY <1>1, <1>2 DEF OrdersOk
  <2>2. SameTerms(o[i], m.orders[i]) /\ o[i].orderId # c.orderId
    BY <1>1, PlacedAfter DEF AgedList, Aged, Placed, Placeable
  <2> QED BY <1>1, <2>1, <2>2 DEF SameTerms
<1>6. \A i \in 1..(k + 1) : IsOrder(q[i]) /\ q[i].sequence \in 1..(s + 1) /\ q[i].acceptedAt =< now
  BY <1>1, <1>2, <1>3, <1>4, <1>5
<1>7. ASSUME NEW i \in 1..k, NEW j \in 1..k, i # j
      PROVE  q[i].orderId # q[j].orderId /\ q[i].sequence # q[j].sequence
  <2>1. m.orders[i].orderId # m.orders[j].orderId /\ m.orders[i].sequence # m.orders[j].sequence
    BY <1>1, <1>2, <1>7 DEF OrdersOk
  <2> QED BY <1>1, <2>1
<1>8. ASSUME NEW i \in 1..k PROVE q[i].orderId # u.orderId /\ q[i].sequence # u.sequence
  <2>1. q[i].sequence \in 1..s /\ q[i].orderId # c.orderId
    BY <1>5
  <2>2. \A v \in 1..s : v # s + 1
    BY <1>2
  <2> QED BY <1>4, <2>1, <2>2
<1> QED BY <1>1, <1>3, <1>6, <1>7, <1>8 DEF OrdersOk

LEMMA PlacedReceipts ==
    ASSUME NEW s, NEW now, NEW o, NEW r, NEW c, NEW m, Placed(s, now, o, r, c, m),
           NEW q, q = Append(m.orders, m.incoming),
           NEW p, p = Received(r, c, PlaceResult(s + 1, now, m))
    PROVE  /\ ReceiptsOk(s + 1, p) /\ Recorded(p) = Recorded(r) \cup ToSet(m.matches)
           /\ PlacedOk(q, p)
           /\ \E x : /\ OneMore(r, c.requestId, x, p)
                     /\ x.result.sequence = s + 1 /\ x.result.matches = m.matches
<1>1. PICK x, result, id : x = p[id] /\ result = PlaceResult(s + 1, now, m) /\ id = c.requestId
  OBVIOUS
<1>2. OneMore(r, id, x, p) /\ x.command = c /\ x.result = result
  BY <1>1, NewReceipt DEF Placed
<1>3. result.sequence = s + 1 /\ result.time = now /\ result.matches = m.matches
  BY <1>1 DEF PlaceResult
<1>4. m.matches \in Seq(ToSet(m.matches))
  BY PlacedAfter DEF After, MatchesAfter
<1>5. /\ x.result.sequence = s + 1 /\ x.result.matches = m.matches
      /\ x.result.matches \in Seq(ToSet(x.result.matches))
  BY <1>2, <1>3, <1>4
<1>6. ReceiptsOk(s, r) /\ PlacedOk(o, r)
  BY DEF Placed, BookOk
<1>7. ReceiptsOk(s + 1, p) /\ Recorded(p) = Recorded(r) \cup ToSet(m.matches)
  BY <1>2, <1>5, <1>6, ReceiptsGrow
<1>0. PICK k : Behind(o, m, q, k)
  BY PlacedList
<1>8. /\ k \in Nat /\ DOMAIN o = 1..k /\ DOMAIN q = 1..(k + 1)
      /\ 1..(k + 1) = 1..k \cup {k + 1}
      /\ q[k + 1] = m.incoming
      /\ \A i \in 1..k : q[i] = m.orders[i]
  BY <1>0 DEF Behind
<1>9. ASSUME NEW i \in 1..k PROVE HasReceipts(p, q[i])
  <2>1. HasReceipts(p, o[i])
    BY <1>2, <1>6, <1>8, ReceiptsKept DEF PlacedOk
  <2>2. SameTerms(o[i], m.orders[i])
    BY <1>0 DEF Behind
  <2>3. m.orders[i].reason = o[i].reason
    BY <1>8, PlacedAfter
  <2>4. HasReceipts(p, m.orders[i])
    BY <2>1, <2>2, <2>3, AgedReceipts
  <2> QED BY <1>8, <2>4
<1>10. HasReceipts(p, q[k + 1])
  <2>1. PICK u : u = m.incoming
    OBVIOUS
  <2>2. /\ u.orderId = c.orderId /\ u.owner = c.owner /\ u.side = c.side
        /\ u.quantity = c.quantity /\ u.price = c.price /\ u.expiresAt = c.expiresAt
        /\ u.sequence = s + 1 /\ u.acceptedAt = now /\ u.reason # "Cancelled"
    BY <2>1, PlacedTaker
  <2>3. c.action = "Place" /\ id \in DOMAIN p /\ p[id] = x
    BY <1>1, <1>2 DEF Placed, Placeable, OneMore
  <2>4. PlacedBy(x, u)
    BY <1>2, <1>3, <2>2, <2>3 DEF PlacedBy
  <2> QED BY <1>8, <2>1, <2>2, <2>3, <2>4 DEF HasReceipts
<1>11. PlacedOk(q, p)
  BY <1>8, <1>9, <1>10 DEF PlacedOk
<1> QED BY <1>1, <1>2, <1>5, <1>7, <1>11

LEMMA PlacedMatches ==
    ASSUME NEW s, NEW now, NEW o, NEW r, NEW c, NEW m, Placed(s, now, o, r, c, m),
           NEW q, q = Append(m.orders, m.incoming),
           NEW p, p = Received(r, c, PlaceResult(s + 1, now, m))
    PROVE  MatchesOk(q, p)
<1>0. PICK k : Behind(o, m, q, k)
  BY PlacedList
<1>1. /\ k \in Nat /\ DOMAIN m.orders = 1..k /\ DOMAIN o = 1..k /\ DOMAIN q = 1..(k + 1)
      /\ k + 1 \in 1..(k + 1) /\ 1..(k + 1) = 1..k \cup {k + 1}
      /\ q[k + 1] = m.incoming
      /\ \A i \in 1..k : q[i] = m.orders[i]
  BY <1>0 DEF Behind
<1>2. PICK x : /\ OneMore(r, c.requestId, x, p)
               /\ x.result.sequence = s + 1 /\ x.result.matches = m.matches
  BY PlacedReceipts
<1>3. MatchesOk(q, r)
  <2>1. MatchesOk(m.orders, r)
    BY PlacedAfter
  <2>2. \A i \in DOMAIN m.orders : i \in DOMAIN q /\ q[i] = m.orders[i]
    BY <1>1
  <2> QED BY <2>1, <2>2 DEF MatchesOk
<1>4. PICK t, u : t = IncomingOrder(c, s + 1, now) /\ u = m.incoming
  OBVIOUS
<1>5. s \in Nat /\ now \in Int /\ OrdersOk(s, now, o)
  BY PlacedAfter
<1>6. MatchesAfter(o, t, s + 1, now, Candidates(o, c), m)
  BY <1>4, PlacedAfter DEF After
<1>7. ASSUME NEW y \in ToSet(m.matches)
      PROVE  y.id[1] = s + 1 /\ \E i, j \in DOMAIN q : Agreed(y, q[i], q[j])
  <2>1. PICK j \in DOMAIN m.matches : y = m.matches[j]
    BY DEF ToSet
  <2>2. y.id = <<s + 1, j>>
    BY <1>6, <2>1 DEF MatchesAfter
  <2>3. y.id[1] = s + 1
    BY <2>2
  <2>4. PICK i \in Candidates(o, c) : InTerms(y, o[i], t, now)
    BY <1>6, <2>1 DEF MatchesAfter
  <2>5. i \in 1..k /\ Crosses(c, o[i])
    BY <1>1, <2>4 DEF Candidates
  <2>6. IsOrder(o[i]) /\ o[i].sequence \in 1..s /\ o[i].acceptedAt =< now /\ now < o[i].expiresAt
    BY <1>1, <1>5, <2>5 DEF OrdersOk, Placed, Crosses
  <2>7. IsOrder(u) /\ SameTerms(t, u)
    BY <1>4, PlacedTaker
  <2>8. InTerms(y, o[i], u, now)
    BY <2>4, <2>7 DEF InTerms, SameTerms
  <2>9. Agreed(y, o[i], u)
    BY <1>4, <1>5, <2>3, <2>5, <2>6, <2>7, <2>8, NewMatchAgreed
  <2>10. SameTerms(o[i], m.orders[i])
    BY <1>1, <2>5, PlacedAfter DEF AgedList, Aged
  <2>11. Agreed(y, m.orders[i], u)
    BY <2>9, <2>10 DEF Agreed, InTerms, SameTerms
  <2>12. Agreed(y, q[i], q[k + 1])
    BY <1>1, <1>4, <2>5, <2>11
  <2> QED BY <1>1, <2>3, <2>5, <2>12
<1> QED BY <1>2, <1>3, <1>7, MatchesGrow

LEMMA PlacedTotals ==
    ASSUME NEW s, NEW now, NEW o, NEW r, NEW c, NEW m, Placed(s, now, o, r, c, m),
           NEW q, q = Append(m.orders, m.incoming),
           NEW p, p = Received(r, c, PlaceResult(s + 1, now, m))
    PROVE  TotalsOk(q, p)
<1>0. PICK k : Behind(o, m, q, k)
  BY PlacedList
<1>1. /\ k \in Nat /\ DOMAIN o = 1..k /\ DOMAIN q = 1..(k + 1)
      /\ 1..(k + 1) = 1..k \cup {k + 1}
      /\ q[k + 1] = m.incoming
      /\ \A i \in 1..k : q[i] = m.orders[i]
  BY <1>0 DEF Behind
<1>2. PICK A, t, u : A = Recorded(r) \cup ToSet(m.matches) /\ t = IncomingOrder(c, s + 1, now)
                     /\ u = m.incoming
  OBVIOUS
<1>3. Recorded(p) = A
  BY <1>2, PlacedReceipts
<1>4. IsFiniteSet(Recorded(r))
  BY DEF Placed, BookOk, TotalsOk
<1>5. m.matches \in Seq(ToSet(m.matches))
  BY PlacedAfter DEF After, MatchesAfter
<1>6. IsFiniteSet(A)
  BY <1>2, <1>4, <1>5, ListIsFinite, FS_Union
<1>7. TotalsAfter(o, t, Recorded(r), m)
  BY <1>2, PlacedAfter DEF After
<1>8. \A i \in 1..k : m.orders[i].matched = Total(Of(A, o[i].orderId))
  BY <1>1, <1>2, <1>7 DEF TotalsAfter
<1>9. u.matched = Total(Of(A, t.orderId))
  BY <1>2, <1>7 DEF TotalsAfter
<1>10. \A i \in 1..k : m.orders[i].orderId = o[i].orderId
  BY <1>0 DEF Behind, SameTerms
<1>11. u.orderId = t.orderId
  BY <1>2, PlacedTaker DEF SameTerms
<1>12. \A i \in 1..k : q[i].matched = Total(Of(A, q[i].orderId))
  BY <1>1, <1>8, <1>10
<1>13. q[k + 1].matched = Total(Of(A, q[k + 1].orderId))
  BY <1>1, <1>2, <1>9, <1>11
<1>14. \A i \in DOMAIN q : q[i].matched = Total(Of(A, q[i].orderId))
  BY <1>1, <1>12, <1>13
<1> QED BY <1>3, <1>6, <1>14 DEF TotalsOk

LEMMA PlacedNotCrossed ==
    ASSUME NEW s, NEW now, NEW o, NEW r, NEW c, NEW m, Placed(s, now, o, r, c, m),
           NEW q, q = Append(m.orders, m.incoming)
    PROVE  NotCrossed(q)
<1>0. PICK k : Behind(o, m, q, k)
  BY PlacedList
<1>1. /\ k \in Nat /\ DOMAIN m.orders = 1..k /\ DOMAIN o = 1..k /\ DOMAIN q = 1..(k + 1)
      /\ 1..(k + 1) = 1..k \cup {k + 1}
      /\ q[k + 1] = m.incoming
      /\ \A i \in 1..k : q[i] = m.orders[i]
  BY <1>0 DEF Behind
<1>2. PICK u : u = m.incoming
  OBVIOUS
<1>3. IsOrder(u) /\ u.side = c.side /\ u.price = c.price
  BY <1>2, PlacedTaker
<1>4. u.remaining > 0 => \A i \in Candidates(o, c) : m.orders[i].remaining = 0
  BY <1>2, PlacedAfter DEF After, PriorityAfter
<1>5. NotCrossed(m.orders) /\ OrdersOk(s, now, m.orders)
  BY PlacedAfter
<1>6. ASSUME u.remaining > 0, NEW i \in 1..k, q[i].remaining > 0, q[i].side # u.side
      PROVE  /\ u.side = "Buy" => u.price < q[i].price
             /\ u.side = "Sell" => q[i].price < u.price
  <2>1. IsOrder(q[i]) /\ q[i] = m.orders[i]
    BY <1>1, <1>5 DEF OrdersOk
  <2>2. SameTerms(o[i], q[i]) /\ q[i].remaining =< o[i].remaining /\ IsOrder(o[i])
    <3>1. OrdersOk(s, now, o)
      BY PlacedAfter
    <3>2. Aged(o[i], m.orders[i]) /\ SameTerms(o[i], m.orders[i])
      BY <1>0 DEF Behind
    <3> QED BY <1>1, <2>1, <3>1, <3>2 DEF Aged, OrdersOk
  <2>3. o[i].remaining > 0 /\ o[i].side = q[i].side /\ o[i].price = q[i].price
    BY <1>6, <2>1, <2>2 DEF SameTerms, IsOrder, Columns
  <2>4. i \notin Candidates(o, c)
    BY <1>4, <1>6, <2>1
  <2>5. ~Crosses(c, o[i])
    BY <1>1, <2>4 DEF Candidates
  <2>6. o[i].price \in Int /\ c.price \in Int
    BY <1>3, <2>2 DEF IsOrder, Limited
  <2>7. o[i].side # c.side
    BY <1>3, <1>6, <2>3
  <2>8. ~(c.side = "Buy" /\ c.price >= o[i].price) /\ ~(c.side = "Sell" /\ c.price =< o[i].price)
    BY <2>3, <2>5, <2>7 DEF Crosses
  <2>9. /\ c.side = "Buy" => c.price < o[i].price
        /\ c.side = "Sell" => o[i].price < c.price
    BY <2>6, <2>8
  <2> QED BY <1>3, <2>3, <2>9
<1> SUFFICES ASSUME NEW i \in 1..(k + 1), NEW j \in 1..(k + 1), q[i].side = "Buy", q[j].side = "Sell",
                    q[i].remaining > 0, q[j].remaining > 0
             PROVE  q[i].price < q[j].price
  BY <1>1 DEF NotCrossed
<1>7. CASE i \in 1..k /\ j \in 1..k
  BY <1>1, <1>5, <1>7 DEF NotCrossed
<1>8. CASE i = k + 1 /\ j \in 1..k
  BY <1>1, <1>2, <1>6, <1>8
<1>9. CASE i \in 1..k /\ j = k + 1
  BY <1>1, <1>2, <1>6, <1>9
<1>10. ~(i = k + 1 /\ j = k + 1)
  OBVIOUS
<1> QED BY <1>1, <1>7, <1>8, <1>9, <1>10

LEMMA PlaceKeeps ==
    ASSUME NEW s, NEW now, NEW o, NEW r, NEW c, NEW m, Placed(s, now, o, r, c, m)
    PROVE  BookOk(s + 1, now, Append(m.orders, m.incoming),
                  Received(r, c, PlaceResult(s + 1, now, m)))
BY PlacedAfter, PlacedOrders, PlacedReceipts, PlacedMatches, PlacedTotals, PlacedNotCrossed
   DEF BookOk

-----------------------------------------------------------------------------
(* Apply, of a command that is valid and has no receipt.                   *)
ReceiptsStay(r, n) == \A id \in DOMAIN r : id \in DOMAIN n /\ n[id] = r[id]

OrdersStay(o, n) == \A i \in DOMAIN o : i \in DOMAIN n /\ Aged(o[i], n[i])

LEMMA ReceivedStays ==
    ASSUME NEW r, NEW c, c.requestId \notin DOMAIN r, NEW result
    PROVE  ReceiptsStay(r, Received(r, c, result))
BY DEF ReceiptsStay, Received

LEMMA ApplyKeeps ==
    ASSUME NEW s, NEW t, NEW o, NEW r, NEW b, IsBook(b, s, t, o, r), BookOk(s, t, o, r),
           NEW c, IsRequest(c), c.requestId \notin DOMAIN r, NEW now \in Int, Valid(b, c, now)
    PROVE  \E n, p : /\ IsBook(Apply(b, c, now), s + 1, now, n, p)
                     /\ BookOk(s + 1, now, n, p)
                     /\ OrdersStay(o, n) /\ ReceiptsStay(r, p)
<1>1. t =< now /\ (Placeable(o, c, now) \/ Cancellable(o, c))
  <2>1. now >= t /\ (Placeable(o, c, now) \/ Cancellable(o, c))
    BY ValidIs
  <2> QED BY <2>1 DEF BookOk
<1>2. PICK e : e = ExpiredOrders(o, now)
  OBVIOUS
<1>3. BookOk(s, now, e, r)
  BY <1>1, <1>2, ExpireKeeps
<1>4. ExpiredTo(o, e, now) /\ AgedList(o, e) /\ DOMAIN e = DOMAIN o
  BY <1>2, ExpiredOrdersAre DEF BookOk, OrdersOk, ExpiredTo, AgedList
<1>5. \A i \in DOMAIN o : SameTerms(o[i], e[i])
  BY <1>4 DEF AgedList, Aged
<1>6. ASSUME NEW n, AgedList(e, n) PROVE OrdersStay(o, n)
  <2>1. AgedList(o, n)
    BY <1>4, <1>6, AgedTwice DEF BookOk, OrdersOk
  <2> QED BY <2>1 DEF AgedList, OrdersStay
<1>7. CASE Cancellable(o, c)
  <2>1. PICK i : i = CHOOSE k \in DOMAIN e : e[k].orderId = c.orderId
    OBVIOUS
  <2>2. Cancellable(e, c)
    <3>1. PICK j : j = CHOOSE k \in DOMAIN o : o[k].orderId = c.orderId
      OBVIOUS
    <3>2. j \in DOMAIN o /\ o[j].orderId = c.orderId /\ o[j].owner = c.owner /\ c.action = "Cancel"
      BY <1>7, <3>1 DEF Cancellable
    <3>3. e[j].orderId = c.orderId /\ e[j].owner = c.owner
      BY <1>5, <3>2 DEF SameTerms
    <3>4. i \in DOMAIN e /\ e[i].orderId = c.orderId
      BY <1>4, <2>1, <3>2, <3>3
    <3>5. i = j
      BY <1>3, <1>4, <3>2, <3>3, <3>4 DEF BookOk, OrdersOk
    <3> QED BY <1>4, <2>1, <3>2, <3>3, <3>5 DEF Cancellable
  <2>3. PICK n, p : /\ n = CancelledOrders(e, i)
                    /\ p = Received(r, c, CancelResult(s + 1, now, e, i))
    OBVIOUS
  <2>4. BookOk(s + 1, now, n, p) /\ AgedList(e, n)
    BY <1>3, <2>1, <2>2, <2>3, CancelKeeps
  <2>5. IsBook(Apply(b, c, now), s + 1, now, n, p)
    BY <1>2, <2>1, <2>2, <2>3, ApplyIs DEF Cancellable
  <2> QED BY <1>6, <2>3, <2>4, <2>5, ReceivedStays
<1>8. CASE Placeable(o, c, now)
  <2>1. PICK m : m = MatchAll(e, c, s + 1, now)
    OBVIOUS
  <2>2. Placeable(e, c, now)
    BY <1>4, <1>5, <1>8 DEF Placeable, SameTerms
  <2>3. Placed(s, now, e, r, c, m)
    BY <1>3, <1>4, <2>1, <2>2 DEF Placed, ExpiredTo
  <2>4. PICK n, p : /\ n = Append(m.orders, m.incoming)
                    /\ p = Received(r, c, PlaceResult(s + 1, now, m))
    OBVIOUS
  <2>5. BookOk(s + 1, now, n, p)
    BY <2>3, <2>4, PlaceKeeps
  <2>6. AgedList(e, m.orders)
    BY <2>3, PlacedAfter
  <2>7. OrdersStay(o, m.orders)
    BY <1>6, <2>6
  <2>0. PICK k : Behind(e, m, n, k)
    BY <2>3, <2>4, PlacedList
  <2>8. /\ k \in Nat /\ DOMAIN e = 1..k /\ DOMAIN n = 1..(k + 1)
        /\ 1..(k + 1) = 1..k \cup {k + 1}
        /\ \A i \in 1..k : n[i] = m.orders[i]
    BY <2>0 DEF Behind
  <2>9. OrdersStay(o, n)
    BY <1>4, <2>7, <2>8 DEF OrdersStay
  <2>10. IsBook(Apply(b, c, now), s + 1, now, n, p)
    BY <1>2, <1>8, <2>1, <2>4, ApplyIs DEF Placeable
  <2> QED BY <2>4, <2>5, <2>9, <2>10, ReceivedStays
<1> QED BY <1>1, <1>7, <1>8

(* A market before its first command.                                      *)
LEMMA EmptyBookOk == IsBook(EmptyBook, 0, 0, <<>>, <<>>) /\ BookOk(0, 0, <<>>, <<>>)
<1>1. IsBook(EmptyBook, 0, 0, <<>>, <<>>)
  BY DEF IsBook, EmptyBook
<1> DEFINE none == <<>>
<1>2. DOMAIN none = {} /\ none \in Seq(ToSet(none))
  BY DEF ToSet
<1>3. IsFiniteSet({}) /\ Cardinality({}) = 0
  BY FS_EmptySet
<1> HIDE DEF none
<1>4. Recorded(none) = {}
  BY <1>2 DEF Recorded
<1>5. OrdersOk(0, 0, none) /\ PlacedOk(none, none) /\ MatchesOk(none, none) /\ NotCrossed(none)
  BY <1>2 DEF OrdersOk, PlacedOk, MatchesOk, NotCrossed
<1>6. ReceiptsOk(0, none)
  BY <1>2, <1>3 DEF ReceiptsOk
<1>7. TotalsOk(none, none)
  BY <1>2, <1>3, <1>4 DEF TotalsOk
<1>8. BookOk(0, 0, none, none)
  BY <1>5, <1>6, <1>7 DEF BookOk
<1> QED BY <1>1, <1>8 DEF none

(* The sum of MatchedAll's totals, as it is written in the properties.     *)
LEMMA TotalOf ==
    ASSUME NEW A, NEW id
    PROVE  Total(Of(A, id)) = MapThenSumSet(LAMBDA m : m.quantity,
                                            {m \in A : id \in {m.maker, m.taker}})
BY DEF Total, Of, MapThenSumSet, MapThenFoldSet
=============================================================================
