---------------------------- MODULE MatchingBook ----------------------------
(***************************************************************************)
(* The matching core, engine/internal/matching/book.go, as operators on a  *)
(* book value.  A book is                                                  *)
(*                                                                         *)
(*   [sequence, time, orders, receipts]                                    *)
(*                                                                         *)
(* orders is in acceptance order, receipts maps the request ids already    *)
(* applied to their command and result.  Times, prices and quantities are  *)
(* integers as in the code; MaxInt64 and MaxQuantity (math.MaxInt64 and    *)
(* 1000 in the code) are constants, so that the overflow guards bite in a  *)
(* small instance.  Nothing here is recursive: the matching loop is a fold *)
(* over the candidates, in order of priority.                              *)
(***************************************************************************)
EXTENDS Integers, Sequences, FiniteSets, SequencesExt

CONSTANTS
    MaxInt64,     \* the largest price, notional and sequence number
    MaxQuantity   \* the largest quantity of an order

ASSUME MaxInt64Assumption == MaxInt64 \in Nat \ {0}
ASSUME MaxQuantityAssumption == MaxQuantity \in 1..MaxInt64

Sides == {"Buy", "Sell"}

EmptyBook == [sequence |-> 0, time |-> 0, orders |-> <<>>, receipts |-> <<>>]

(***************************************************************************)
(* Notional: the product is refused before it can overflow.                *)
(***************************************************************************)
NotionalFits(q, p) ==
    /\ q \in 1..MaxQuantity
    /\ p >= 1
    /\ p <= MaxInt64 \div q

(***************************************************************************)
(* Expiry at now, equality included: what remains of an order moves to its *)
(* expired column.                                                         *)
(***************************************************************************)
(* Mutant: an order still rests at the second it expires.                  *)
ExpireOrderLate(o, now) ==
    IF o.expiresAt < now /\ o.remaining > 0
    THEN [o EXCEPT !.expired = @ + o.remaining, !.remaining = 0, !.reason = "Expired"]
    ELSE o

ExpireOrder(o, now) ==
    IF o.expiresAt <= now /\ o.remaining > 0
    THEN [o EXCEPT !.expired = @ + o.remaining, !.remaining = 0, !.reason = "Expired"]
    ELSE o

Expire(b, now) ==
    [b EXCEPT !.orders = [i \in DOMAIN b.orders |-> ExpireOrder(b.orders[i], now)],
              !.time = now]

(***************************************************************************)
(* The guards of Apply.  A Cancel carries blank order fields and names an  *)
(* order of its owner, in any state; a Place names a new order.            *)
(***************************************************************************)
HasOrder(b, id) == \E i \in DOMAIN b.orders : b.orders[i].orderId = id

OrderIndex(b, id) == CHOOSE i \in DOMAIN b.orders : b.orders[i].orderId = id

Valid(b, c, now) ==
    /\ now >= b.time
    /\ now >= 1
    /\ b.sequence # MaxInt64
    /\ \/ /\ c.action = "Place"
          /\ NotionalFits(c.quantity, c.price)
          /\ ~HasOrder(b, c.orderId)
          /\ c.side \in Sides
          /\ c.expiresAt > now
       \/ /\ c.action = "Cancel"
          /\ HasOrder(b, c.orderId)
          /\ b.orders[OrderIndex(b, c.orderId)].owner = c.owner
          /\ <<c.side, c.quantity, c.price, c.expiresAt>> = <<"", 0, 0, 0>>

(***************************************************************************)
(* Matching: the resting orders of the other side that the limit crosses,  *)
(* best price first and then oldest first.                                 *)
(***************************************************************************)
(* Mutant: equal prices do not cross.                                      *)
CrossesStrictly(c, o) ==
    /\ o.remaining > 0
    /\ o.side # c.side
    /\ \/ c.side = "Buy" /\ c.price > o.price
       \/ c.side = "Sell" /\ c.price < o.price

Crosses(c, o) ==
    /\ o.remaining > 0
    /\ o.side # c.side
    /\ \/ c.side = "Buy" /\ c.price >= o.price
       \/ c.side = "Sell" /\ c.price <= o.price

(* Mutant: the newest order of a price level goes first.                   *)
PrecedesNewestFirst(c, a, z) ==
    \/ a.price = z.price /\ a.sequence > z.sequence
    \/ c.side = "Buy" /\ a.price < z.price
    \/ c.side = "Sell" /\ a.price > z.price

Precedes(c, a, z) ==
    \/ a.price = z.price /\ a.sequence < z.sequence
    \/ c.side = "Buy" /\ a.price < z.price
    \/ c.side = "Sell" /\ a.price > z.price

Candidates(orders, c) == {i \in DOMAIN orders : Crosses(c, orders[i])}

(* The candidate of S whose turn comes after that of all others in S.      *)
LastInTurn(orders, c, S) ==
    CHOOSE i \in S : \A j \in S \ {i} : Precedes(c, orders[j], orders[i])

(***************************************************************************)
(* One turn of the loop.  The taker's own order at the front of the queue  *)
(* cancels the rest of the taker; a break is the same as a taker with      *)
(* nothing remaining.                                                      *)
(***************************************************************************)
(* Mutant: the maker keeps what it sold or bought.                         *)
FillForgetsMaker(m, i, q, seq, now) ==
    LET o == m.orders[i]
        t == m.incoming
    IN  [orders   |-> [m.orders EXCEPT ![i].matched = @ + q],
         incoming |-> [t EXCEPT !.remaining = @ - q, !.matched = @ + q],
         matches  |-> Append(m.matches,
                        [id |-> <<seq, Len(m.matches) + 1>>,
                         maker |-> o.orderId, taker |-> t.orderId,
                         buyer |-> IF t.side = "Sell" THEN o.owner ELSE t.owner,
                         seller |-> IF t.side = "Sell" THEN t.owner ELSE o.owner,
                         quantity |-> q, price |-> o.price, notional |-> q * o.price,
                         time |-> now])]

Fill(m, i, q, seq, now) ==
    LET o == m.orders[i]
        t == m.incoming
    IN  [orders   |-> [m.orders EXCEPT ![i].remaining = @ - q, ![i].matched = @ + q],
         incoming |-> [t EXCEPT !.remaining = @ - q, !.matched = @ + q],
         matches  |-> Append(m.matches,
                        [id |-> <<seq, Len(m.matches) + 1>>,
                         maker |-> o.orderId, taker |-> t.orderId,
                         buyer |-> IF t.side = "Sell" THEN o.owner ELSE t.owner,
                         seller |-> IF t.side = "Sell" THEN t.owner ELSE o.owner,
                         quantity |-> q, price |-> o.price, notional |-> q * o.price,
                         time |-> now])]

MatchStep(m, i, seq, now) ==
    LET o == m.orders[i]
        t == m.incoming
    IN  IF t.remaining = 0 THEN m
        ELSE IF o.owner = t.owner
        THEN [m EXCEPT !.incoming.cancelled = t.remaining,
                       !.incoming.remaining = 0,
                       !.incoming.reason = "Self-trade prevention"]
        ELSE Fill(m, i, IF t.remaining < o.remaining THEN t.remaining ELSE o.remaining, seq, now)

IncomingOrder(c, seq, now) ==
    [orderId |-> c.orderId, owner |-> c.owner, side |-> c.side,
     quantity |-> c.quantity, price |-> c.price, expiresAt |-> c.expiresAt,
     sequence |-> seq, acceptedAt |-> now, remaining |-> c.quantity,
     matched |-> 0, cancelled |-> 0, expired |-> 0, reason |-> ""]

MatchAll(orders, c, seq, now) ==
    MapThenFoldSet(LAMBDA i, m : MatchStep(m, i, seq, now),
                   [orders |-> orders, incoming |-> IncomingOrder(c, seq, now), matches |-> <<>>],
                   LAMBDA i : i,
                   LAMBDA S : LastInTurn(orders, c, S),
                   Candidates(orders, c))

(* Mutant: a second Cancel overwrites what the first one cancelled.        *)
CancelOrderOverwrites(o) ==
    [o EXCEPT !.cancelled = o.remaining, !.remaining = 0, !.reason = "Cancelled"]

CancelOrder(o) ==
    LET cancelled == o.cancelled + o.remaining
    IN  [o EXCEPT !.cancelled = cancelled,
                  !.remaining = 0,
                  !.reason = IF cancelled > 0 THEN "Cancelled" ELSE @]

(***************************************************************************)
(* Apply of a command that is Valid and has no receipt: expire, take the   *)
(* next sequence number, then cancel or match.  The value is the new book; *)
(* the result is in its receipts, under the request id.                    *)
(***************************************************************************)
WithReceipt(b, c, result) ==
    [b EXCEPT !.receipts = [id \in DOMAIN @ \cup {c.requestId} |->
                              IF id = c.requestId THEN [command |-> c, result |-> result]
                              ELSE @[id]]]

Cancel(b, c, now) ==
    LET i == OrderIndex(b, c.orderId)
        o == CancelOrder(b.orders[i])
    IN  WithReceipt([b EXCEPT !.orders[i] = o], c,
            [sequence |-> b.sequence, time |-> now, order |-> o, matches |-> <<>>])

Place(b, c, now) ==
    LET m == MatchAll(b.orders, c, b.sequence, now)
    IN  WithReceipt([b EXCEPT !.orders = Append(m.orders, m.incoming)], c,
            [sequence |-> b.sequence, time |-> now, order |-> m.incoming,
             matches |-> m.matches])

(* Mutant: a Cancel takes no sequence number.                              *)
ApplyUnnumberedCancel(b, c, now) ==
    LET e == Expire(b, now)
    IN  IF c.action = "Cancel" THEN Cancel(e, c, now)
        ELSE Place([e EXCEPT !.sequence = @ + 1], c, now)

Apply(b, c, now) ==
    LET e == [Expire(b, now) EXCEPT !.sequence = @ + 1]
    IN  IF c.action = "Cancel" THEN Cancel(e, c, now) ELSE Place(e, c, now)

ResultOf(b, c) == b.receipts[c.requestId].result
=============================================================================
