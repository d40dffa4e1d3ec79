-------------------------- MODULE MCSettlementStore --------------------------
(***************************************************************************)
(* A small instance of SettlementStore: alice sells to bob in every match, *)
(* on the same terms, so that the calldata of two locks can be the same.   *)
(***************************************************************************)
EXTENDS SettlementStore, TLC

CONSTANTS alice, bob, StartingNova, StartingHbar

MCNova == [a \in Accounts |-> IF a = alice THEN StartingNova ELSE 0]
MCHbar == [a \in Accounts |-> IF a = bob THEN StartingHbar ELSE 0]

MCMatchTerms ==
    [m \in Matches |-> [seller |-> alice, buyer |-> bob, amount |-> 1, price |-> 1]]

(* What is tried without the server: the Hold that it would lock in the    *)
(* first second, and any deal over a Hold of that expiry, at its price or  *)
(* another.                                                                *)
MCNewHolds ==
    {[amount |-> 1, expiry |-> Validity, escrow |-> Contract, to |-> bob, kind |-> "plain"]}

MCOffers ==
    [match : Matches, seller : {alice}, buyer : {bob}, amount : {1}, price : Prices,
     preparedAt : {0}, expiry : {Validity}, hold : HoldIds]

(* Those at another price over the first Hold.                             *)
MCOtherOffers == {t \in MCOffers : t.price # 1 /\ t.hold = 1}

MatchSymmetry == Permutations(Matches)
=============================================================================
