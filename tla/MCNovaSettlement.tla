--------------------------- MODULE MCNovaSettlement ---------------------------
(***************************************************************************)
(* A small instance of the settlement contract.  Traders, matches and the  *)
(* other accounts are only compared for equality.                          *)
(***************************************************************************)
EXTENDS NovaSettlement, TLC

CONSTANTS StartNova, StartHbar

MCNova == [a \in Accounts |-> StartNova]
MCHbar == [a \in Accounts |-> StartHbar]


(* Holds for this contract and the two parties, one of another escrow, and *)
(* one with a field that must be empty; terms that fit one of them or      *)
(* differ in a party, the amount, the time of preparation or the expiry.   *)
MCHolds ==
    {h \in Holds :
       /\ h.amount > 0
       /\ h.expiry \in {Validity, Validity + 1}
       /\ h.escrow = Elsewhere \/ h.kind = "other" => h.amount = 1 /\ h.expiry = Validity
       /\ h.escrow = Elsewhere => h.kind = "plain"}

MCOffers ==
    {t \in Terms : t.preparedAt \in {0, 1} /\ t.expiry \in {Validity, Validity + 1}}

AccountSymmetry == Permutations(Traders) \cup Permutations(Matches)
=============================================================================
