-------------------------------- MODULE MCEscrow --------------------------------
(***************************************************************************)
(* A small instance of Escrow for the runs of its own invariants.          *)
(***************************************************************************)
EXTENDS Escrow, TLC

CONSTANT Starting

MCNova == [a \in Accounts |-> Starting]
MCHbar == [a \in Accounts |-> Starting]

(* Holds for this contract and the two parties, and one kind of Hold      *)
(* with a field that the contract wants empty.                             *)
MCHolds ==
    {h \in Holds :
       /\ h.amount > 0
       /\ h.expiry \in {Validity, Validity + 1}
       /\ h.kind = "other" => h.expiry = Validity
       /\ h.escrow = Contract}

MCOffers ==
    {t \in Terms : t.preparedAt \in {0, 1} /\ t.expiry \in {Validity, Validity + 1}}

AccountSymmetry == Permutations(Traders) \cup Permutations(Matches)
=============================================================================
