----------------------------- MODULE SerialBook -----------------------------
(***************************************************************************)
(* What the matching engine promises to whoever calls it, whatever its     *)
(* matching is: one serialized caller applies commands and expires orders, *)
(* at times that never go backwards, and a command takes effect once.  A   *)
(* call that returns an error and a call that returns the receipt of an    *)
(* earlier one leave the book alone: they are stuttering steps.            *)
(*                                                                         *)
(* BookMachine is this machine with the operators of MatchingBook, and the *)
(* database of CommandStore implements it.                                 *)
(***************************************************************************)
EXTENDS Integers

CONSTANTS
    EmptyBook,         \* the book before the first command
    Valid(_, _, _),    \* Valid(b, c, now): the guards of Apply
    Apply(_, _, _),    \* Apply(b, c, now): the book with c applied, and its receipt
    Expire(_, _),      \* Expire(b, now): the book at a later time
    Commands,          \* the commands a caller may apply
    Times              \* the times it may apply or expire at

VARIABLE book

Init == book = EmptyBook

ApplyCommand(c, now) ==
    /\ c.requestId \notin DOMAIN book.receipts
    /\ Valid(book, c, now)
    /\ book' = Apply(book, c, now)

ExpireOrders(now) ==
    /\ now >= book.time
    /\ book' = Expire(book, now)

Next ==
    \/ \E c \in Commands, now \in Times : ApplyCommand(c, now)
    \/ \E now \in Times : ExpireOrders(now)

Spec == Init /\ [][Next]_book
=============================================================================
