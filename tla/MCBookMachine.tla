---------------------------- MODULE MCBookMachine ----------------------------
(***************************************************************************)
(* A small instance of BookMachine.  Request and order ids are the numbers *)
(* 1..MaxRequests; the constraint takes them in order, which loses nothing *)
(* because the code only compares ids for equality.                        *)
(***************************************************************************)
EXTENDS BookMachine

CONSTANTS Owners, Prices, Quantities, Lifetimes, MaxTime, MaxRequests

MCTimes == 1..MaxTime

PlaceCommands ==
    {[requestId |-> r, orderId |-> r, owner |-> o, action |-> "Place", side |-> s,
      quantity |-> q, price |-> p, expiresAt |-> e] :
        r \in 1..MaxRequests, o \in Owners, s \in Sides, q \in Quantities,
        p \in Prices, e \in Lifetimes}

CancelCommands ==
    {[requestId |-> r, orderId |-> i, owner |-> o, action |-> "Cancel", side |-> "",
      quantity |-> 0, price |-> 0, expiresAt |-> 0] :
        r \in 2..MaxRequests, i \in 1..MaxRequests, o \in Owners}

MCCommands == PlaceCommands \cup CancelCommands

(* The owners are only compared for equality: they may be permuted.        *)
OwnerSymmetry == Permutations(Owners)

NextId == \A id \in DOMAIN book.receipts : id <= Cardinality(DOMAIN book.receipts)
=============================================================================
