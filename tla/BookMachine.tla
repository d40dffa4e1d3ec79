----------------------------- MODULE BookMachine -----------------------------
(***************************************************************************)
(* The in-memory book of engine/internal/matching/book.go as a state       *)
(* machine: SerialBook with the operators of MatchingBook, and what is     *)
(* true of every book that it can reach.                                   *)
(***************************************************************************)
EXTENDS MatchingBook

CONSTANTS
    Commands,    \* the commands a caller may apply
    Times        \* the times it may apply or expire at

(* Quantities, prices and seconds are int64 values.                        *)
ASSUME CommandsAssumption ==
    \A c \in Commands : c.quantity \in Int /\ c.price \in Int /\ c.expiresAt \in Int
ASSUME TimesAssumption == Times \subseteq Int

VARIABLE book

INSTANCE SerialBook

-------------------------------------------------------------------------------

Orders == {book.orders[i] : i \in DOMAIN book.orders}
Results == {book.receipts[id].result : id \in DOMAIN book.receipts}
Matches == UNION {ToSet(r.matches) : r \in Results}
OrderOf(id) == CHOOSE o \in Orders : o.orderId = id

(***************************************************************************)
(* Every unit of every order is in exactly one column, and the matched     *)
(* column is what the matches of all results say, for the maker and for    *)
(* the taker: no fill is lost, doubled or booked on one side only.         *)
(***************************************************************************)
QuantityAccounted ==
    \A o \in Orders :
       /\ o.quantity = o.remaining + o.matched + o.cancelled + o.expired
       /\ o.matched = MapThenSumSet(LAMBDA m : m.quantity,
                         {m \in Matches : o.orderId \in {m.maker, m.taker}})

(***************************************************************************)
(* The resting book is never crossed: whatever could match has matched or  *)
(* was cancelled by self-trade prevention.                                 *)
(***************************************************************************)
NeverCrossed ==
    \A o, p \in Orders :
       o.side = "Buy" /\ p.side = "Sell" /\ o.remaining > 0 /\ p.remaining > 0
          => o.price < p.price

(***************************************************************************)
(* A match is inside the terms of both orders: their owners differ, the    *)
(* price is the resting order's and within both limits, the notional did   *)
(* not overflow, and at the time of the match both orders were accepted    *)
(* and neither had expired.                                                *)
(***************************************************************************)
MatchesWithinTerms ==
    \A m \in Matches :
       LET maker == OrderOf(m.maker)
           taker == OrderOf(m.taker)
           buy   == IF taker.side = "Buy" THEN taker ELSE maker
           sell  == IF taker.side = "Buy" THEN maker ELSE taker
       IN  /\ buy.side = "Buy" /\ sell.side = "Sell"
           /\ m.buyer = buy.owner /\ m.seller = sell.owner /\ m.buyer # m.seller
           /\ maker.sequence < taker.sequence /\ m.id[1] = taker.sequence
           /\ m.price = maker.price /\ sell.price <= m.price /\ m.price <= buy.price
           /\ m.notional = m.quantity * m.price /\ m.notional <= MaxInt64
           /\ \A o \in {maker, taker} : o.acceptedAt <= m.time /\ m.time < o.expiresAt

(***************************************************************************)
(* The sequence numbers handed out are 1, 2, ... without a gap or a        *)
(* repetition, one for each command with a receipt: an order in the book   *)
(* has exactly one receipt, and a retry got no number of its own.          *)
(***************************************************************************)
SequenceCountsReceipts ==
    /\ {r.sequence : r \in Results} = 1..book.sequence
    /\ Cardinality(DOMAIN book.receipts) = book.sequence
    /\ \A o \in Orders :
          Cardinality({id \in DOMAIN book.receipts :
             /\ book.receipts[id].command.action = "Place"
             /\ book.receipts[id].command.orderId = o.orderId
             /\ book.receipts[id].result.sequence = o.sequence}) = 1

(***************************************************************************)
(* Price-time priority, as an action property.  When an order is accepted, *)
(* a resting order of the other side is filled only if every crossing      *)
(* order of better price, or of the same price and older, is used up; and  *)
(* the taker keeps or loses a remainder only when no order is left that it *)
(* could have taken before one of its own.                                 *)
(***************************************************************************)
Better(t, a, z) ==
    \/ t.side = "Buy" /\ a.price < z.price
    \/ t.side = "Sell" /\ a.price > z.price
    \/ a.price = z.price /\ a.sequence < z.sequence

PriceTimeStep ==
    Len(book'.orders) > Len(book.orders) =>
       LET t     == Last(book'.orders)
           takes == {i \in DOMAIN book.orders :
                       /\ book.orders[i].expiresAt > book'.time
                       /\ Crosses(t, book.orders[i])}
           old   == [i \in takes |-> book.orders[i]]
           new   == [i \in takes |-> book'.orders[i]]
       IN  /\ \A i \in takes : new[i].matched > old[i].matched =>
                 /\ old[i].owner # t.owner
                 /\ \A j \in takes : Better(t, old[j], old[i]) => new[j].remaining = 0
           /\ t.cancelled > 0 =>
                 \E i \in takes :
                    /\ old[i].owner = t.owner
                    /\ \A j \in takes : Better(t, old[j], old[i]) => new[j].remaining = 0
           /\ t.remaining > 0 => \A i \in takes : new[i].remaining = 0
           /\ \A i \in DOMAIN book.orders \ takes :
                 book'.orders[i].matched = book.orders[i].matched

PriceTimePriority == [][PriceTimeStep]_book

(***************************************************************************)
(* History is not rewritten: an order keeps its terms and its place, a     *)
(* quantity never comes back from the matched, cancelled or expired column,*)
(* and a receipt, once given, is the receipt for ever.                     *)
(***************************************************************************)
Terms(o) == <<o.orderId, o.owner, o.side, o.quantity, o.price,
              o.expiresAt, o.sequence, o.acceptedAt>>

HistoryKeptStep ==
    /\ book'.time >= book.time
    /\ Len(book'.orders) >= Len(book.orders)
    /\ \A i \in DOMAIN book.orders :
          LET o == book.orders[i]
              n == book'.orders[i]
          IN  /\ Terms(n) = Terms(o)
              /\ n.remaining <= o.remaining
              /\ n.matched >= o.matched
              /\ n.cancelled >= o.cancelled
              /\ n.expired >= o.expired
    /\ \A id \in DOMAIN book.receipts :
          id \in DOMAIN book'.receipts /\ book'.receipts[id] = book.receipts[id]

HistoryKept == [][HistoryKeptStep]_book
=============================================================================
