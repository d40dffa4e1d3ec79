------------------------ MODULE Settlement_proofs ------------------------
(***************************************************************************)
(* Theorems about the settlement: the contract on the chain, and the       *)
(* server's records of it, which both extend Escrow.                       *)
(*                                                                         *)
(* First what contracts/NovaSettlement.sol keeps, for any number of        *)
(* accounts, matches and Holds, any amounts, prices and times: the atomic  *)
(* contract of Escrow, then that its calls, each with its external calls   *)
(* and its reverts, implement it.                                          *)
(*                                                                         *)
(* The invariants of Escrow are not inductive one by one: that a Ready     *)
(* deal is backed needs that no other deal and no recovery uses its Hold,  *)
(* which needs that usedHold covers the Holds of all deals, and so on.     *)
(* Inductive is the conjunction that is.                                   *)
(*                                                                         *)
(* Then that the balances of NovaSettlement add up.  Its sums are folds    *)
(* over sets, about which the lemmas on SumUp say what the proof needs.    *)
(*                                                                         *)
(* Last SettlementStore, for any matches, traders, lag and bounds, and     *)
(* however often, late or doubled the wallets send and the parties act     *)
(* without the server: a settlement goes one way, a verified operation at  *)
(* a time (Protocol), and what is recorded of it is true of the chain from *)
(* then on (Truth).                                                        *)
(***************************************************************************)
EXTENDS NovaSettlement, SettlementStore, FiniteSetTheorems, SequenceTheorems,
        WellFoundedInduction, TLAPS

(* Every registered deal is recorded under its match and its Hold.         *)
Recorded ==
    \A t \in registered :
       /\ matchDigest[t.match] = t
       /\ Key(t) \in usedHold
       /\ t.amount # 0

(* A deal that has ended has given its Hold away.                          *)
EndedIsEmpty ==
    \A t \in registered :
       /\ state[t] \in {"Ready"} \cup Final
       /\ state[t] \in Final => holds[Key(t)].amount = 0

(* A used Hold was created: its id is never given again.                   *)
UsedWasCreated == \A k \in usedHold : holds[k] # NoHold

DistinctKeys == \A t, u \in registered : t # u => Key(t) # Key(u)

Inductive ==
    /\ TypeOK
    /\ Recorded
    /\ EndedIsEmpty
    /\ UsedWasCreated
    /\ DistinctKeys
    /\ ReadyIsBacked
    /\ SpentHoldsAreEmpty

-----------------------------------------------------------------------------

(* The Hold that terms name is one of the Holds there can be.              *)
LEMMA KeyType == \A t \in Terms : Key(t) \in Keys
  BY DEF Terms, Key, Keys

(* Amounts are natural numbers, so that sums and differences of them are   *)
(* arithmetic.                                                             *)
LEMMA AmountType == \A x \in Amounts \cup {0} : x \in Nat
  BY NumbersAssumption

(* What emptying a Hold leaves: the Hold with nothing in it, the others    *)
(* as they are.                                                            *)
LEMMA EmptiedHold ==
  ASSUME NEW k \in Keys, NEW a \in Accounts, TypeOK, EmptyHold(k, a)
  PROVE  /\ nova' \in [Accounts -> Nat]
         /\ holds' \in [Keys -> Holds \cup {NoHold}]
         /\ holds'[k] = [holds[k] EXCEPT !.amount = 0]
         /\ holds'[k].amount = 0
         /\ holds[k] # NoHold => holds'[k] # NoHold
         /\ \A j \in Keys : j # k => holds'[j] = holds[j]
<1>1. holds[k] \in Holds \cup {NoHold}
  BY DEF TypeOK
<1>2. holds[k].amount \in Nat
  <2>1. CASE holds[k] \in Holds
    <3>1. holds[k].amount \in Amounts \cup {0}
      BY <2>1 DEF Holds
    <3> QED
      BY <3>1, AmountType
  <2>2. CASE holds[k] = NoHold
    BY <2>2 DEF NoHold
  <2> QED
    BY <1>1, <2>1, <2>2
<1>3. nova' \in [Accounts -> Nat]
  BY <1>2 DEF EmptyHold, TypeOK
<1>4. [holds[k] EXCEPT !.amount = 0] \in Holds \cup {NoHold}
  BY <1>1 DEF Holds, NoHold
<1>5. /\ holds' \in [Keys -> Holds \cup {NoHold}]
      /\ holds'[k] = [holds[k] EXCEPT !.amount = 0]
      /\ \A j \in Keys : j # k => holds'[j] = holds[j]
  BY <1>4 DEF EmptyHold, TypeOK
<1>6. holds'[k].amount = 0
  BY <1>1, <1>5 DEF Holds, NoHold
<1>7. ASSUME holds[k] # NoHold PROVE holds'[k] # NoHold
  <2>1. holds[k] \in Holds
    BY <1>1, <1>7
  <2>2. holds'[k].kind # "none"
    BY <2>1, <1>5 DEF Holds
  <2> QED
    BY <2>2 DEF NoHold
<1> QED
  BY <1>3, <1>5, <1>6, <1>7

(* The constructor leaves no deal, no Hold and nothing used.               *)
LEMMA InitInductive == Init => Inductive
<1> SUFFICES ASSUME Init PROVE Inductive
  OBVIOUS
<1> USE DEF Init
<1>1. hbar \in [Accounts \cup {Contract} -> Nat]
  BY NumbersAssumption
<1>2. 0 \in 0..MaxTime
  BY NumbersAssumption
<1>3. TypeOK
  BY <1>1, <1>2, NumbersAssumption DEF TypeOK
<1> QED
  BY <1>3 DEF Inductive, Recorded, EndedIsEmpty, UsedWasCreated, DistinctKeys,
              ReadyIsBacked, SpentHoldsAreEmpty

-----------------------------------------------------------------------------
(***************************************************************************)
(* One lemma per action.                                                   *)
(***************************************************************************)

(* A new Hold takes an id that no deal and no recovery has used.           *)
LEMMA CreateHoldStep ==
  ASSUME Inductive, NEW a \in Accounts, NEW id \in HoldIds, NEW h \in NewHolds,
         CreateHold(a, id, h)
  PROVE  Inductive'
<1> DEFINE k == <<a, id>>
<1>1. k \in Keys /\ holds[k] = NoHold /\ k \notin usedHold
  BY DEF CreateHold, CanCreate, Inductive, UsedWasCreated, Keys
<1>2. h \in Holds /\ h.amount \in Nat /\ h.amount <= nova[a]
  BY InputsAssumption, AmountType DEF Holds, CreateHold, CanCreate
<1>3. /\ holds' \in [Keys -> Holds \cup {NoHold}]
      /\ holds'[k] = h
      /\ \A j \in Keys : j # k => holds'[j] = holds[j]
  BY <1>1, <1>2 DEF CreateHold, Inductive, TypeOK
<1>4. nova' \in [Accounts -> Nat]
  BY <1>2 DEF CreateHold, Inductive, TypeOK
<1>5. UNCHANGED <<time, hbar, registered, state, matchDigest, usedHold>>
  BY DEF CreateHold
<1>6. TypeOK'
  BY <1>3, <1>4, <1>5 DEF Inductive, TypeOK
<1>7. \A t \in registered : Key(t) \in Keys /\ Key(t) # k
  BY <1>1, KeyType DEF Inductive, TypeOK, Recorded
<1>8. \A j \in usedHold : holds'[j] = holds[j]
  BY <1>1, <1>3 DEF Inductive, TypeOK
<1>9. \A t \in registered : holds'[Key(t)] = holds[Key(t)]
  BY <1>3, <1>7
<1>10. Recorded' /\ DistinctKeys'
  BY <1>5 DEF Inductive, Recorded, DistinctKeys, Key
<1>11. EndedIsEmpty'
  BY <1>5, <1>9 DEF Inductive, EndedIsEmpty, Key
<1>12. UsedWasCreated'
  BY <1>5, <1>8 DEF Inductive, UsedWasCreated
<1>13. ReadyIsBacked'
  BY <1>5, <1>9 DEF Inductive, ReadyIsBacked, CheckHold, Key
<1>14. SpentHoldsAreEmpty'
  BY <1>5, <1>8 DEF Inductive, SpentHoldsAreEmpty, Key
<1> QED
  BY <1>6, <1>10, <1>11, <1>12, <1>13, <1>14 DEF Inductive

(* A reclaim at the token empties the Hold of a deal only once it expired. *)
LEMMA ReclaimAtAtsStep ==
  ASSUME Inductive, NEW k \in Keys, ReclaimAtAts(k)
  PROVE  Inductive'
<1>1. k[1] \in Accounts
  BY DEF Keys
<1>2. /\ nova' \in [Accounts -> Nat]
      /\ holds' \in [Keys -> Holds \cup {NoHold}]
      /\ holds'[k].amount = 0
      /\ holds[k] # NoHold => holds'[k] # NoHold
      /\ \A j \in Keys : j # k => holds'[j] = holds[j]
  BY <1>1, EmptiedHold DEF ReclaimAtAts, Inductive
<1>3. UNCHANGED <<time, hbar, registered, state, matchDigest, usedHold>>
  BY DEF ReclaimAtAts
<1>4. TypeOK'
  BY <1>2, <1>3 DEF Inductive, TypeOK
<1>5. \A t \in registered : Key(t) \in Keys
  BY KeyType DEF Inductive, TypeOK
<1>6. Recorded' /\ DistinctKeys'
  BY <1>3 DEF Inductive, Recorded, DistinctKeys, Key
<1>7. EndedIsEmpty'
  BY <1>2, <1>3, <1>5 DEF Inductive, EndedIsEmpty, Key
<1>8. UsedWasCreated'
  BY <1>2, <1>3 DEF Inductive, UsedWasCreated, TypeOK
<1>9. ReadyIsBacked'
  <2> SUFFICES ASSUME NEW t \in registered, state[t] = "Ready"
               PROVE  \/ CheckHold(t)'
                      \/ time >= t.expiry /\ holds'[Key(t)].amount = 0
    BY <1>3 DEF ReadyIsBacked, Key
  <2>1. CASE Key(t) # k
    BY <1>2, <1>3, <1>5, <2>1 DEF Inductive, ReadyIsBacked, CheckHold, Key
  <2>2. CASE Key(t) = k
    BY <1>2, <2>2 DEF Inductive, ReadyIsBacked, CheckHold, ReclaimAtAts, CanReclaimHold
  <2> QED
    BY <2>1, <2>2
<1>10. SpentHoldsAreEmpty'
  BY <1>2, <1>3 DEF Inductive, SpentHoldsAreEmpty, TypeOK, Key
<1> QED
  BY <1>4, <1>6, <1>7, <1>8, <1>9, <1>10 DEF Inductive

(* Registering takes a match and a Hold that no deal has.                  *)
LEMMA RegisterStep ==
  ASSUME Inductive, NEW t \in Offers, NEW sender \in Accounts, Register(t, sender)
  PROVE  Inductive'
<1>1. t \in Terms /\ Key(t) \in Keys
  BY InputsAssumption, KeyType
<1>2. /\ matchDigest[t.match] = NoTerms
      /\ Key(t) \notin usedHold
      /\ CheckHold(t)
      /\ t.amount # 0
  BY DEF Register, CanRegister, ValidTerms
<1>3. t.match \in Matches
  BY <1>1 DEF Terms
<1>4. UNCHANGED <<time, nova, holds, hbar>>
  BY DEF Register
<1>5. /\ registered' = registered \cup {t}
      /\ usedHold' = usedHold \cup {Key(t)}
      /\ matchDigest' = [matchDigest EXCEPT ![t.match] = t]
      /\ state' = [u \in registered \cup {t} |-> IF u = t THEN "Ready" ELSE state[u]]
  BY DEF Register
<1>6. t \notin registered
  BY <1>2 DEF Inductive, Recorded
<1>7. \A u \in registered : u.match # t.match /\ u # NoTerms
  BY <1>2, NoTermsAssumption DEF Inductive, Recorded, TypeOK
<1>8. \A u \in registered : state'[u] = state[u]
  BY <1>5, <1>6
<1>9. state'[t] = "Ready"
  BY <1>5
<1>10. TypeOK'
  <2>1. state' \in [registered' -> States]
    BY <1>5 DEF Inductive, TypeOK, States
  <2> QED
    BY <2>1, <1>1, <1>3, <1>4, <1>5 DEF Inductive, TypeOK
<1>11. Recorded'
  <2> SUFFICES ASSUME NEW u \in registered \cup {t}
               PROVE  /\ matchDigest'[u.match] = u
                      /\ Key(u) \in usedHold'
                      /\ u.amount # 0
    BY <1>5 DEF Recorded, Key
  <2>1. CASE u = t
    BY <2>1, <1>2, <1>3, <1>5 DEF Inductive, TypeOK
  <2>2. CASE u \in registered
    BY <2>2, <1>3, <1>5, <1>7 DEF Inductive, TypeOK, Recorded, Terms
  <2> QED
    BY <2>1, <2>2
<1>12. EndedIsEmpty'
  BY <1>4, <1>5, <1>8, <1>9 DEF Inductive, EndedIsEmpty, Key, Final
<1>13. UsedWasCreated'
  <2>1. holds[Key(t)].kind = "plain"
    BY <1>2 DEF CheckHold
  <2>2. holds[Key(t)] # NoHold
    BY <2>1 DEF NoHold
  <2> QED
    BY <2>2, <1>4, <1>5 DEF Inductive, UsedWasCreated
<1>14. DistinctKeys'
  BY <1>2, <1>5 DEF Inductive, DistinctKeys, Recorded, Key
<1>15. ReadyIsBacked'
  BY <1>2, <1>4, <1>5, <1>8 DEF Inductive, ReadyIsBacked, CheckHold, Key
<1>16. SpentHoldsAreEmpty'
  <2> SUFFICES ASSUME NEW k \in usedHold \cup {Key(t)}
               PROVE  \/ holds[k].amount = 0
                      \/ \E u \in registered' : Key(u) = k /\ state'[u] = "Ready"
    BY <1>4, <1>5 DEF SpentHoldsAreEmpty, Key
  <2>1. CASE k = Key(t)
    BY <2>1, <1>5, <1>9
  <2>2. CASE k \in usedHold
    BY <2>2, <1>5, <1>8 DEF Inductive, SpentHoldsAreEmpty
  <2> QED
    BY <2>1, <2>2
<1> QED
  BY <1>10, <1>11, <1>12, <1>13, <1>14, <1>15, <1>16 DEF Inductive

(***************************************************************************)
(* What the ends of a deal have in common: the deal was Ready, it takes a  *)
(* final state, and its Hold is emptied.                                   *)
(***************************************************************************)
LEMMA EndOfDeal ==
  ASSUME Inductive, NEW t \in registered, NEW a \in Accounts, NEW s \in Final,
         EmptyHold(Key(t), a),
         state' = [state EXCEPT ![t] = s],
         hbar' \in [Accounts \cup {Contract} -> Nat],
         UNCHANGED <<time, registered, matchDigest, usedHold>>
  PROVE  Inductive'
<1>1. t \in Terms /\ Key(t) \in Keys
  BY KeyType DEF Inductive, TypeOK
<1>2. /\ nova' \in [Accounts -> Nat]
      /\ holds' \in [Keys -> Holds \cup {NoHold}]
      /\ holds'[Key(t)].amount = 0
      /\ holds[Key(t)] # NoHold => holds'[Key(t)] # NoHold
      /\ \A j \in Keys : j # Key(t) => holds'[j] = holds[j]
  BY <1>1, EmptiedHold DEF Inductive
<1>3. state' \in [registered -> States] /\ state'[t] = s /\ s # "Ready"
  BY DEF Inductive, TypeOK, Final, States
<1>4. TypeOK'
  BY <1>2, <1>3 DEF Inductive, TypeOK
<1>5. \A u \in registered : Key(u) \in Keys
  BY KeyType DEF Inductive, TypeOK
<1>6. \A u \in registered : u # t => holds'[Key(u)] = holds[Key(u)] /\ state'[u] = state[u]
  BY <1>2, <1>5 DEF Inductive, DistinctKeys, TypeOK
<1>7. Recorded' /\ DistinctKeys'
  BY DEF Inductive, Recorded, DistinctKeys, Key
<1>8. EndedIsEmpty'
  BY <1>2, <1>3, <1>6 DEF Inductive, EndedIsEmpty, Key
<1>9. UsedWasCreated'
  BY <1>2 DEF Inductive, UsedWasCreated, TypeOK
<1>10. ReadyIsBacked'
  BY <1>3, <1>6 DEF Inductive, ReadyIsBacked, CheckHold, Key
<1>11. SpentHoldsAreEmpty'
  <2> SUFFICES ASSUME NEW k \in usedHold
               PROVE  \/ holds'[k].amount = 0
                      \/ \E u \in registered : Key(u) = k /\ state'[u] = "Ready"
    BY DEF SpentHoldsAreEmpty, Key
  <2>1. CASE k = Key(t)
    BY <2>1, <1>2
  <2>2. CASE k # Key(t)
    BY <2>2, <1>2, <1>6 DEF Inductive, SpentHoldsAreEmpty, TypeOK
  <2> QED
    BY <2>1, <2>2
<1> QED
  BY <1>4, <1>7, <1>8, <1>9, <1>10, <1>11 DEF Inductive

(* The payment of settle, and its delivery out of the Hold of the deal.    *)
LEMMA SettleStep ==
  ASSUME Inductive, NEW t \in registered, NEW sender \in Accounts, NEW value \in Values,
         Settle(t, sender, value)
  PROVE  Inductive'
<1>1. t.seller \in Accounts /\ t.buyer \in Accounts
  BY DEF Inductive, TypeOK, Terms
<1>2. value \in Nat /\ value <= hbar[sender]
  BY NumbersAssumption DEF Settle
<1>3. hbar' \in [Accounts \cup {Contract} -> Nat]
  <2>1. [hbar EXCEPT ![sender] = @ - value] \in [Accounts \cup {Contract} -> Nat]
    BY <1>2 DEF Inductive, TypeOK
  <2> QED
    BY <1>1, <1>2, <2>1 DEF Settle
<1> QED
  BY <1>1, <1>3, EndOfDeal DEF Settle, Final

(* A return to the seller before the expiry.                               *)
LEMMA CancelStep ==
  ASSUME Inductive, NEW t \in registered, NEW sender \in Accounts, Cancel(t, sender)
  PROVE  Inductive'
<1>1. t.seller \in Accounts /\ hbar' \in [Accounts \cup {Contract} -> Nat]
  BY DEF Inductive, TypeOK, Terms, Cancel
<1> QED
  BY <1>1, EndOfDeal DEF Cancel, Final

(* A return to the seller from the expiry on.                              *)
LEMMA ReclaimStep ==
  ASSUME Inductive, NEW t \in registered, NEW sender \in Accounts, Reclaim(t, sender)
  PROVE  Inductive'
<1>1. t.seller \in Accounts /\ hbar' \in [Accounts \cup {Contract} -> Nat]
  BY DEF Inductive, TypeOK, Terms, Reclaim
<1> QED
  BY <1>1, EndOfDeal DEF Reclaim, Final

(* A recovery empties a Hold that no deal rests on, and none ever will.    *)
LEMMA RecoverOrphanStep ==
  ASSUME Inductive, NEW a \in Accounts, NEW id \in HoldIds, RecoverOrphan(a, id)
  PROVE  Inductive'
<1> DEFINE k == <<a, id>>
<1>1. k \in Keys /\ k \notin usedHold /\ holds[k].amount # 0
  BY DEF RecoverOrphan, CanRecover, Keys
<1>2. /\ nova' \in [Accounts -> Nat]
      /\ holds' \in [Keys -> Holds \cup {NoHold}]
      /\ holds'[k].amount = 0
      /\ holds[k] # NoHold => holds'[k] # NoHold
      /\ \A j \in Keys : j # k => holds'[j] = holds[j]
  BY <1>1, EmptiedHold DEF RecoverOrphan, Inductive
<1>3. /\ usedHold' = usedHold \cup {k}
      /\ UNCHANGED <<time, hbar, registered, state, matchDigest>>
  BY DEF RecoverOrphan
<1>4. TypeOK'
  BY <1>1, <1>2, <1>3 DEF Inductive, TypeOK
<1>5. \A t \in registered : Key(t) \in Keys /\ Key(t) # k
  BY <1>1, KeyType DEF Inductive, TypeOK, Recorded
<1>6. \A t \in registered : holds'[Key(t)] = holds[Key(t)]
  BY <1>2, <1>5
<1>7. Recorded' /\ DistinctKeys'
  BY <1>3 DEF Inductive, Recorded, DistinctKeys, Key
<1>8. EndedIsEmpty'
  BY <1>3, <1>6 DEF Inductive, EndedIsEmpty, Key
<1>9. UsedWasCreated'
  <2>1. holds[k] # NoHold
    BY <1>1 DEF NoHold
  <2> QED
    BY <2>1, <1>2, <1>3 DEF Inductive, UsedWasCreated, TypeOK
<1>10. ReadyIsBacked'
  BY <1>3, <1>6 DEF Inductive, ReadyIsBacked, CheckHold, Key
<1>11. SpentHoldsAreEmpty'
  <2> SUFFICES ASSUME NEW j \in usedHold \cup {k}
               PROVE  \/ holds'[j].amount = 0
                      \/ \E u \in registered : Key(u) = j /\ state[u] = "Ready"
    BY <1>3 DEF SpentHoldsAreEmpty, Key
  <2>1. CASE j = k
    BY <2>1, <1>2
  <2>2. CASE j \in usedHold /\ j # k
    BY <2>2, <1>2 DEF Inductive, SpentHoldsAreEmpty, TypeOK
  <2> QED
    BY <2>1, <2>2
<1> QED
  BY <1>4, <1>7, <1>8, <1>9, <1>10, <1>11 DEF Inductive

(* Time can only expire a Ready deal whose Hold is still there.            *)
LEMMA AdvanceStep ==
  ASSUME Inductive, Advance
  PROVE  Inductive'
<1>1. UNCHANGED <<nova, holds, hbar, registered, state, matchDigest, usedHold>>
  BY DEF Advance, chain
<1>2. time' \in 0..MaxTime /\ time' = time + 1
  BY NumbersAssumption DEF Advance, Inductive, TypeOK
<1>3. TypeOK'
  BY <1>1, <1>2 DEF Inductive, TypeOK
<1>4. Recorded' /\ DistinctKeys' /\ EndedIsEmpty' /\ UsedWasCreated' /\ SpentHoldsAreEmpty'
  BY <1>1 DEF Inductive, Recorded, DistinctKeys, EndedIsEmpty, UsedWasCreated,
              SpentHoldsAreEmpty, Key
<1>5. ReadyIsBacked'
  <2> SUFFICES ASSUME NEW t \in registered, state[t] = "Ready"
               PROVE  \/ CheckHold(t)'
                      \/ time' >= t.expiry /\ holds[Key(t)].amount = 0
    BY <1>1 DEF ReadyIsBacked, Key
  <2>1. t.expiry \in Int
    BY NumbersAssumption DEF Inductive, TypeOK, Terms, Times
  <2>2. CASE CheckHold(t)
    BY <2>2, <1>1 DEF CheckHold, Key
  <2>3. CASE time >= t.expiry /\ holds[Key(t)].amount = 0
    BY <2>1, <2>3, <1>2 DEF Inductive, TypeOK
  <2> QED
    BY <2>2, <2>3 DEF Inductive, ReadyIsBacked
<1> QED
  BY <1>3, <1>4, <1>5 DEF Inductive

(* Every call, every move of a Hold at the token and every second keeps    *)
(* the conjunction.                                                        *)
LEMMA StepInductive == Inductive /\ [Next]_vars => Inductive'
<1> SUFFICES ASSUME Inductive, [Next]_vars PROVE Inductive'
  OBVIOUS
<1>1. CASE TokenStep
  BY <1>1, CreateHoldStep, ReclaimAtAtsStep DEF TokenStep
<1>2. CASE ContractStep
  <2>1. CASE \E t \in Offers, sender \in Accounts : Register(t, sender)
    BY <2>1, RegisterStep
  <2>2. CASE \E t \in registered, sender \in Accounts, value \in Values :
                Settle(t, sender, value)
    BY <2>2, SettleStep
  <2>3. CASE \E t \in registered, sender \in Accounts : Cancel(t, sender)
    BY <2>3, CancelStep
  <2>4. CASE \E t \in registered, sender \in Accounts : Reclaim(t, sender)
    BY <2>4, ReclaimStep
  <2>5. CASE \E sender \in Accounts, id \in HoldIds : RecoverOrphan(sender, id)
    BY <2>5, RecoverOrphanStep
  <2> QED
    BY <1>2, <2>1, <2>2, <2>3, <2>4, <2>5 DEF ContractStep
<1>3. CASE Advance
  BY <1>3, AdvanceStep
<1>4. CASE UNCHANGED vars
  BY <1>4 DEF vars, Inductive, TypeOK, Recorded, EndedIsEmpty, UsedWasCreated,
              DistinctKeys, ReadyIsBacked, SpentHoldsAreEmpty, CheckHold, Key
<1> QED
  BY <1>1, <1>2, <1>3, <1>4 DEF Next

-----------------------------------------------------------------------------
(***************************************************************************)
(* The theorems.                                                           *)
(***************************************************************************)

(* The inductive invariant holds in every reachable state.                 *)
THEOREM InductiveInvariant == Spec => []Inductive
  BY InitInductive, StepInductive, PTL DEF Spec

(* The balances stay natural numbers and every record stays well formed:   *)
(* no call takes more NOVA or HBAR than there is.                          *)
THEOREM TypeCorrect == Spec => []TypeOK
<1>1. Inductive => TypeOK
  BY DEF Inductive
<1> QED
  BY <1>1, InductiveInvariant, PTL

(* The Hold of a Ready deal that has not expired is intact: what the buyer *)
(* pays for in settle is there.                                            *)
THEOREM ReadyBacked == Spec => []ReadyIsBacked
<1>1. Inductive => ReadyIsBacked
  BY DEF Inductive
<1> QED
  BY <1>1, InductiveInvariant, PTL

(* A used Hold is empty, unless its deal is still Ready.                   *)
THEOREM SpentHoldsEmpty == Spec => []SpentHoldsAreEmpty
<1>1. Inductive => SpentHoldsAreEmpty
  BY DEF Inductive
<1> QED
  BY <1>1, InductiveInvariant, PTL

(* No two deals share a match or a Hold.                                   *)
THEOREM DealsAreDistinct == Spec => []OneDealPerHold
<1>1. Inductive => OneDealPerHold
  BY DEF Inductive, OneDealPerHold, Recorded, DistinctKeys
<1> QED
  BY <1>1, InductiveInvariant, PTL

(* At every instant a trader gets any Hold of this escrow back with one    *)
(* call of its own: a Hold that nothing used is recovered as an orphan,    *)
(* and a used one that is not empty is under a Ready deal of that trader,  *)
(* which is cancelled before its expiry and reclaimed from then on.        *)
THEOREM HoldsHaveAWayOut == Spec => []EveryHoldHasAWayOut
<1>1. ASSUME Inductive PROVE EveryHoldHasAWayOut
  <2> SUFFICES ASSUME NEW a \in Traders, NEW id \in HoldIds,
                      holds[<<a, id>>].escrow = Contract,
                      holds[<<a, id>>].amount > 0
               PROVE  CanTakeBack(a, id)
    BY DEF EveryHoldHasAWayOut
  <2> DEFINE k == <<a, id>>
  <2>1. k \in Keys
    BY AccountsAssumption DEF Keys
  <2>2. holds[k] \in Holds
    <3>1. holds[k] \in Holds \cup {NoHold}
      BY <1>1, <2>1 DEF Inductive, TypeOK
    <3>2. holds[k] # NoHold
      BY DEF NoHold
    <3> QED
      BY <3>1, <3>2
  <2>3. holds[k].amount # 0 /\ holds[k] # NoHold
    BY DEF NoHold
  <2>4. time \in Int /\ holds[k].expiry \in Int
    BY <1>1, <2>2, NumbersAssumption DEF Inductive, TypeOK, Holds, Times
  <2>5. CASE k \notin usedHold
    <3>1. CanRecover(a, id)
      BY <2>3, <2>5 DEF CanRecover
    <3>2. CASE time >= holds[k].expiry
      BY <2>3, <3>1, <3>2 DEF CanTakeBack, CanReclaimHold
    <3>3. CASE ~(time >= holds[k].expiry)
      <4>1. CanRelease(k)
        BY <2>4, <3>3 DEF CanRelease
      <4> QED
        BY <3>1, <3>3, <4>1 DEF CanTakeBack
    <3> QED
      BY <3>2, <3>3
  <2>6. CASE k \in usedHold
    <3>1. PICK t \in registered : Key(t) = k /\ state[t] = "Ready"
      BY <1>1, <2>3, <2>6 DEF Inductive, SpentHoldsAreEmpty
    <3>2. CheckHold(t)
      BY <1>1, <2>3, <3>1 DEF Inductive, ReadyIsBacked
    <3>3. t.seller = a /\ IsReady(t) /\ holds[k].expiry = t.expiry
      BY <3>1, <3>2 DEF Key, IsReady, CheckHold
    <3>4. CASE time < t.expiry
      BY <2>3, <2>4, <3>1, <3>2, <3>3, <3>4 DEF CanTakeBack, CanReturn, CanRelease
    <3>5. CASE time >= t.expiry
      BY <2>3, <2>4, <3>1, <3>2, <3>3, <3>5 DEF CanTakeBack, CanReturn, CanReclaimHold
    <3> QED
      BY <2>4, <3>3, <3>4, <3>5
  <2> QED
    BY <2>5, <2>6
<1> QED
  BY <1>1, InductiveInvariant, PTL

(* A deal that ended stays as it ended, and a registered deal keeps its    *)
(* match and its Hold for ever.                                            *)
THEOREM FinalForEver == Spec => FinalIsFinal
<1>1. ASSUME Inductive, Next PROVE FinalStep
  <2>1. \A t \in registered : t.match \in Matches
    BY <1>1 DEF Inductive, TypeOK, Terms
  <2>2. CASE UNCHANGED <<registered, state, matchDigest>> /\ usedHold \subseteq usedHold'
    BY <2>2 DEF FinalStep
  <2>3. ASSUME NEW t \in Offers, NEW sender \in Accounts, Register(t, sender)
        PROVE  FinalStep
    <3>1. t \in Terms /\ t.match \in Matches
      BY InputsAssumption DEF Terms
    <3>2. matchDigest[t.match] = NoTerms
      BY <2>3 DEF Register, CanRegister
    <3>3. \A u \in registered : u # t /\ u.match # t.match
      BY <1>1, <3>2, NoTermsAssumption DEF Inductive, Recorded, TypeOK
    <3>4. \A u \in registered : state'[u] = state[u]
      BY <2>3, <3>3 DEF Register
    <3>5. \A u \in registered : matchDigest'[u.match] = matchDigest[u.match]
      BY <1>1, <2>1, <2>3, <3>1, <3>3 DEF Register, Inductive, TypeOK
    <3> QED
      BY <2>3, <3>4, <3>5 DEF FinalStep, Register
  <2>4. ASSUME NEW t \in registered, NEW s, state[t] = "Ready",
               state' = [state EXCEPT ![t] = s],
               UNCHANGED <<registered, matchDigest, usedHold>>
        PROVE  FinalStep
    BY <1>1, <2>4 DEF FinalStep, Final, Inductive, TypeOK
  <2>5. CASE TokenStep
    BY <2>2, <2>5 DEF TokenStep, CreateHold, ReclaimAtAts
  <2>6. CASE ContractStep
    <3>1. ASSUME NEW t \in registered, NEW sender \in Accounts, NEW value \in Values,
                 Settle(t, sender, value)
          PROVE  FinalStep
      BY <2>4, <3>1 DEF Settle, CanSettle, IsReady
    <3>2. ASSUME NEW t \in registered, NEW sender \in Accounts, Cancel(t, sender)
          PROVE  FinalStep
      BY <2>4, <3>2 DEF Cancel, CanReturn, IsReady
    <3>3. ASSUME NEW t \in registered, NEW sender \in Accounts, Reclaim(t, sender)
          PROVE  FinalStep
      BY <2>4, <3>3 DEF Reclaim, CanReturn, IsReady
    <3>4. ASSUME NEW sender \in Accounts, NEW id \in HoldIds, RecoverOrphan(sender, id)
          PROVE  FinalStep
      BY <2>2, <3>4 DEF RecoverOrphan
    <3> QED
      BY <2>3, <2>6, <3>1, <3>2, <3>3, <3>4 DEF ContractStep
  <2>7. CASE Advance
    BY <2>2, <2>7 DEF Advance, chain
  <2> QED
    BY <1>1, <2>5, <2>6, <2>7 DEF Next
<1>2. Inductive /\ [Next]_vars => [FinalStep]_vars
  BY <1>1
<1> QED
  BY <1>2, InductiveInvariant, PTL DEF Spec, FinalIsFinal

-----------------------------------------------------------------------------
(***************************************************************************)
(* The calls of NovaSettlement implement the atomic contract.              *)
(*                                                                         *)
(* The invariant says, of the call under way, that its guards held in the  *)
(* state that is saved, and that the current state is the saved one with   *)
(* what the call has done so far.  Time stands still during a call.        *)
(***************************************************************************)

(* A party is an account, never the contract.                              *)
PartiesAreAccounts ==
    \A t \in registered : t.seller \in Accounts /\ t.buyer \in Accounts

HbarIsInteger ==
    /\ hbar \in [Accounts \cup {Contract} -> Int]
    /\ saved.hbar \in [Accounts \cup {Contract} -> Int]

(* settle has passed its guards and holds the value.                       *)
Paid(t, sender, value, step) ==
    /\ Atomic!CanSettle(t, sender, value)
    /\ value <= saved.hbar[sender]
    /\ call = [step |-> step, key |-> Key(t), seller |-> t.seller, to |-> t.buyer,
               value |-> value]
    /\ state = [saved.state EXCEPT ![t] = "Settled"]
    /\ hbar = [saved.hbar EXCEPT ![sender] = @ - value, ![Contract] = @ + value]
    /\ usedHold = saved.usedHold

Untouched == nova = saved.nova /\ holds = saved.holds

Delivering ==
    /\ Untouched
    /\ \E t \in registered, sender \in Accounts, value \in Values :
          Paid(t, sender, value, "deliver")

(* The token has delivered the Hold of the deal to its buyer.              *)
Paying ==
    \E t \in registered, sender \in Accounts, value \in Values :
       /\ Paid(t, sender, value, "pay")
       /\ Atomic!CanExecute(Key(t), t.buyer)
       /\ nova = [saved.nova EXCEPT ![t.buyer] = @ + saved.holds[Key(t)].amount]
       /\ holds = [saved.holds EXCEPT ![Key(t)].amount = 0]

(* cancel or reclaim has closed the deal, or recoverOrphan used the Hold.  *)
ReturningDeal(t, sender, expired) ==
    /\ Atomic!CanReturn(t, sender, expired)
    /\ call = [step |-> IF expired THEN "reclaim" ELSE "release", key |-> Key(t)]
    /\ state = [saved.state EXCEPT ![t] = IF expired THEN "Reclaimed" ELSE "Cancelled"]
    /\ usedHold = saved.usedHold

ReturningOrphan(sender, id) ==
    /\ Atomic!CanRecover(sender, id)
    /\ call = [step |-> IF time >= saved.holds[<<sender, id>>].expiry
                        THEN "reclaim" ELSE "release",
               key |-> <<sender, id>>]
    /\ state = saved.state
    /\ usedHold = saved.usedHold \cup {<<sender, id>>}

Returning ==
    /\ Untouched
    /\ hbar = saved.hbar
    /\ \/ \E t \in registered, sender \in Accounts, expired \in BOOLEAN :
             ReturningDeal(t, sender, expired)
       \/ \E sender \in Accounts, id \in HoldIds : ReturningOrphan(sender, id)

UnderWay ==
    \/ call = Idle
    \/ Delivering
    \/ Paying
    \/ Returning

CallInvariant ==
    /\ PartiesAreAccounts
    /\ HbarIsInteger
    /\ UnderWay

-----------------------------------------------------------------------------

(* A step of a call is not the idle one.                                   *)
LEMMA NotIdle == call.step # "idle" => call # Idle
  BY DEF Idle

(* At first no call is under way and nobody is a party.                    *)
LEMMA InitialInvariant == CallInit => CallInvariant
<1> SUFFICES ASSUME CallInit PROVE CallInvariant
  OBVIOUS
<1>1. PartiesAreAccounts
  BY DEF CallInit, Init, PartiesAreAccounts
<1>2. HbarIsInteger
  BY NumbersAssumption, AccountsAssumption
  DEF CallInit, Init, Snapshot, HbarIsInteger
<1> QED
  BY <1>1, <1>2 DEF CallInit, UnderWay, CallInvariant

-----------------------------------------------------------------------------
(***************************************************************************)
(* Entering keeps the invariant: what is saved is what the guards saw.     *)
(***************************************************************************)

(* settle passes its guards and takes the value.                           *)
LEMMA SettleEntersInvariant ==
  ASSUME CallInvariant,
         NEW t \in registered, NEW sender \in Accounts, NEW value \in Values,
         SettleEnters(t, sender, value)
  PROVE  CallInvariant'
<1> USE DEF SettleEnters, Enter, Snapshot
<1>1. call' # Idle /\ call'.step = "deliver"
  BY DEF Idle
<1>2. PartiesAreAccounts'
  BY DEF CallInvariant, PartiesAreAccounts
<1>3. HbarIsInteger'
  <2>1. value \in Int
    BY NumbersAssumption
  <2> QED
    BY <2>1 DEF CallInvariant, HbarIsInteger
<1>4. Atomic!CanSettle(t, sender, value)'
  BY <1>1 DEF CanSettle, IsReady, CheckHold, Price, Key,
     Atomic!CanSettle, Atomic!IsReady, Atomic!CheckHold, Atomic!Price, Atomic!Key
<1>5. Paid(t, sender, value, "deliver")'
  BY <1>4 DEF Paid, Key
<1>6. Delivering'
  BY <1>5 DEF Delivering, Untouched
<1> QED
  BY <1>1, <1>2, <1>3, <1>6 DEF CallInvariant, UnderWay

(* cancel or reclaim passes its guards and closes the deal.                *)
LEMMA ReturnEntersInvariant ==
  ASSUME CallInvariant,
         NEW t \in registered, NEW sender \in Accounts, NEW expired \in BOOLEAN,
         ReturnEnters(t, sender, expired)
  PROVE  CallInvariant'
<1> USE DEF ReturnEnters, Enter, Snapshot
<1>1. call' # Idle /\ call'.step \in {"release", "reclaim"}
  BY DEF Idle
<1>2. PartiesAreAccounts' /\ HbarIsInteger'
  BY DEF CallInvariant, PartiesAreAccounts, HbarIsInteger
<1>3. Atomic!CanReturn(t, sender, expired)'
  BY <1>1 DEF CanReturn, IsReady, CheckHold, Key,
     Atomic!CanReturn, Atomic!IsReady, Atomic!CheckHold, Atomic!Key
<1>4. ReturningDeal(t, sender, expired)'
  BY <1>3 DEF ReturningDeal, Key
<1>5. Returning'
  BY <1>4 DEF Returning, Untouched
<1> QED
  BY <1>1, <1>2, <1>5 DEF CallInvariant, UnderWay

(* recoverOrphan passes its guards and uses the Hold.                      *)
LEMMA RecoverEntersInvariant ==
  ASSUME CallInvariant,
         NEW sender \in Accounts, NEW id \in HoldIds,
         RecoverEnters(sender, id)
  PROVE  CallInvariant'
<1> USE DEF RecoverEnters, Enter, Snapshot
<1>1. call' # Idle /\ call'.step \in {"release", "reclaim"}
  BY DEF Idle
<1>2. PartiesAreAccounts' /\ HbarIsInteger'
  BY DEF CallInvariant, PartiesAreAccounts, HbarIsInteger
<1>3. Atomic!CanRecover(sender, id)'
  BY <1>1 DEF CanRecover, Atomic!CanRecover
<1>4. ReturningOrphan(sender, id)'
  BY <1>3 DEF ReturningOrphan
<1>5. Returning'
  BY <1>4 DEF Returning, Untouched
<1> QED
  BY <1>1, <1>2, <1>5 DEF CallInvariant, UnderWay

-----------------------------------------------------------------------------
(***************************************************************************)
(* The steps of a call.                                                    *)
(***************************************************************************)

(* Which call is under way can be read off its step.                       *)
LEMMA StepTells ==
  ASSUME UnderWay
  PROVE  /\ call.step = "deliver" => Delivering
         /\ call.step = "pay" => Paying
         /\ call.step \in {"release", "reclaim"} => Returning
<1>1. call = Idle => call.step = "idle"
  BY DEF Idle
<1>2. Delivering => call.step = "deliver"
  <2>1. \A t, sender, value : Paid(t, sender, value, "deliver") => call.step = "deliver"
    BY DEF Paid
  <2> QED
    BY <2>1 DEF Delivering
<1>3. Paying => call.step = "pay"
  <2>1. \A t, sender, value : Paid(t, sender, value, "pay") => call.step = "pay"
    BY DEF Paid
  <2> QED
    BY <2>1 DEF Paying
<1>4. Returning => call.step \in {"release", "reclaim"}
  <2>1. \A t, sender, expired :
           ReturningDeal(t, sender, expired) => call.step \in {"release", "reclaim"}
    BY DEF ReturningDeal
  <2>2. \A sender, id : ReturningOrphan(sender, id) => call.step \in {"release", "reclaim"}
    BY DEF ReturningOrphan
  <2> QED
    BY <2>1, <2>2 DEF Returning
<1> QED
  BY <1>1, <1>2, <1>3, <1>4 DEF UnderWay

(* The token delivers: the guards saw the Hold that it takes.              *)
LEMMA DeliverInvariant ==
  ASSUME CallInvariant, Deliver
  PROVE  CallInvariant'
<1> USE DEF Deliver
<1>1. call # Idle
  BY NotIdle
<1>2. Delivering
  BY StepTells DEF CallInvariant
<1>3. PICK t \in registered, sender \in Accounts, value \in Values :
         Paid(t, sender, value, "deliver")
  BY <1>2 DEF Delivering
<1>4. call' = [step |-> "pay", key |-> Key(t), seller |-> t.seller, to |-> t.buyer,
               value |-> value]
  BY <1>3 DEF Paid
<1>5. call' # Idle
  BY <1>4 DEF Idle
<1>6. Atomic!CanSettle(t, sender, value)'
  BY <1>1, <1>3, <1>5 DEF Paid, Atomic!CanSettle, Atomic!IsReady, Atomic!CheckHold,
     Atomic!Price, Atomic!Key
<1>7. Paid(t, sender, value, "pay")'
  BY <1>3, <1>4, <1>6 DEF Paid, Key
<1>8. Atomic!CanExecute(Key(t), t.buyer)'
  BY <1>2, <1>3, <1>5 DEF Delivering, Untouched, Paid, CanExecute, Atomic!CanExecute, Key
<1>9. /\ nova' = [saved.nova EXCEPT ![t.buyer] = @ + saved.holds[Key(t)].amount]
      /\ holds' = [saved.holds EXCEPT ![Key(t)].amount = 0]
      /\ saved' = saved
  BY <1>2, <1>3 DEF Delivering, Untouched, Paid, EmptyHold
<1>10. Paying'
  BY <1>7, <1>8, <1>9 DEF Paying, Key
<1>11. PartiesAreAccounts' /\ HbarIsInteger'
  BY DEF CallInvariant, PartiesAreAccounts, HbarIsInteger
<1> QED
  BY <1>10, <1>11 DEF CallInvariant, UnderWay

(* The payment ends settle.                                                *)
LEMMA PayInvariant ==
  ASSUME CallInvariant, Pay
  PROVE  CallInvariant'
<1> USE DEF Pay, Leave
<1>1. Paying
  BY StepTells DEF CallInvariant
<1>2. call.value \in Int
  <2>1. \A t, sender, value : Paid(t, sender, value, "pay") => call.value = value
    BY DEF Paid
  <2> QED
    BY <1>1, <2>1, NumbersAssumption DEF Paying
<1>3. PartiesAreAccounts'
  BY DEF CallInvariant, PartiesAreAccounts
<1>4. HbarIsInteger'
  <2>1. \A t, sender, value : Paid(t, sender, value, "pay") => call.seller = t.seller
    BY DEF Paid
  <2>2. call.seller \in Accounts
    BY <1>1, <2>1 DEF Paying, CallInvariant, PartiesAreAccounts
  <2> QED
    BY <1>2, <2>2 DEF CallInvariant, HbarIsInteger
<1> QED
  BY <1>3, <1>4 DEF CallInvariant, UnderWay

(* A Hold sent back ends cancel, reclaim and recoverOrphan.                *)
LEMMA TokenReturnsInvariant ==
  ASSUME CallInvariant, TokenReturns
  PROVE  CallInvariant'
  BY DEF TokenReturns, Leave, CallInvariant, PartiesAreAccounts, HbarIsInteger, UnderWay

(* A revert ends any call, and restores a balance that was one.            *)
LEMMA RevertInvariant ==
  ASSUME CallInvariant, Revert
  PROVE  CallInvariant'
  BY DEF Revert, Leave, CallInvariant, PartiesAreAccounts, HbarIsInteger, UnderWay

(* Between calls: a party of registered terms is one of the two traders.   *)
LEMMA IdleInvariant ==
  ASSUME CallInvariant, call = Idle, UNCHANGED <<call, saved>>,
         \/ TokenStep
         \/ Advance
         \/ \E t \in Offers, sender \in Accounts : Register(t, sender)
  PROVE  CallInvariant'
<1>1. UnderWay'
  BY DEF UnderWay
<1>2. CASE TokenStep
  BY <1>1, <1>2 DEF TokenStep, CreateHold, ReclaimAtAts, CallInvariant, PartiesAreAccounts,
     HbarIsInteger
<1>3. CASE Advance
  BY <1>1, <1>3 DEF Advance, chain, CallInvariant, PartiesAreAccounts, HbarIsInteger
<1>4. CASE \E t \in Offers, sender \in Accounts : Register(t, sender)
  BY <1>1, <1>4, AccountsAssumption
  DEF Register, CanRegister, ValidTerms, CallInvariant, PartiesAreAccounts, HbarIsInteger
<1> QED
  BY <1>2, <1>3, <1>4

(* Every step of every call keeps the invariant.                           *)
LEMMA CallStepInvariant == CallInvariant /\ [CallNext]_callVars => CallInvariant'
<1> SUFFICES ASSUME CallInvariant, [CallNext]_callVars PROVE CallInvariant'
  OBVIOUS
<1>1. CASE /\ call = Idle
           /\ \/ TokenStep
              \/ Advance
              \/ \E t \in Offers, sender \in Accounts : Register(t, sender)
           /\ UNCHANGED <<call, saved>>
  BY <1>1, IdleInvariant
<1>2. CASE \E t \in registered, sender \in Accounts :
              \/ \E value \in Values : SettleEnters(t, sender, value)
              \/ \E expired \in BOOLEAN : ReturnEnters(t, sender, expired)
  BY <1>2, SettleEntersInvariant, ReturnEntersInvariant
<1>3. CASE \E sender \in Accounts, id \in HoldIds : RecoverEnters(sender, id)
  BY <1>3, RecoverEntersInvariant
<1>4. CASE Deliver
  BY <1>4, DeliverInvariant
<1>5. CASE Pay
  BY <1>5, PayInvariant
<1>6. CASE TokenReturns
  BY <1>6, TokenReturnsInvariant
<1>7. CASE Revert
  BY <1>7, RevertInvariant
<1>8. CASE UNCHANGED callVars
  <2>1. PartiesAreAccounts' /\ HbarIsInteger'
    BY <1>8 DEF callVars, CallInvariant, PartiesAreAccounts, HbarIsInteger
  <2>2. UnderWay'
    <3>1. \A t, sender, value : Atomic!CanSettle(t, sender, value)
                                   => Atomic!CanSettle(t, sender, value)'
      BY <1>8 DEF callVars, Atomic!CanSettle, Atomic!IsReady, Atomic!CheckHold, Atomic!Key,
         Atomic!Price
    <3>2. \A t, sender, value, step : Paid(t, sender, value, step)
                                         => Paid(t, sender, value, step)'
      BY <1>8, <3>1 DEF callVars, Paid, Key
    <3>3. Delivering => Delivering'
      BY <1>8, <3>2 DEF callVars, Delivering, Untouched
    <3>4. \A k, to : Atomic!CanExecute(k, to) => Atomic!CanExecute(k, to)'
      BY <1>8 DEF callVars, Atomic!CanExecute
    <3>5. Paying => Paying'
      BY <1>8, <3>2, <3>4 DEF callVars, Paying, Key
    <3>6. Returning => Returning'
      BY <1>8 DEF callVars, Returning, Untouched, ReturningDeal, ReturningOrphan, Key,
         Atomic!CanReturn, Atomic!CanRecover, Atomic!IsReady, Atomic!CheckHold, Atomic!Key
    <3> QED
      BY <1>8, <3>3, <3>5, <3>6 DEF callVars, CallInvariant, UnderWay
  <2> QED
    BY <2>1, <2>2 DEF CallInvariant
<1> QED
  BY <1>1, <1>2, <1>3, <1>4, <1>5, <1>6, <1>7, <1>8 DEF CallNext

-----------------------------------------------------------------------------
(***************************************************************************)
(* The refinement.  What the atomic contract sees is the saved state while *)
(* a call is under way: entering, delivering and reverting are stuttering  *)
(* steps, and the last step of a call is the whole call.                   *)
(***************************************************************************)
(* The contract starts as Escrow does.                                     *)
LEMMA InitialRefines == CallInit => Atomic!Init
  BY DEF CallInit, Init, Atomic!Init, Keys, NoHold, Atomic!Keys, Atomic!NoHold

(* What a call writes on entering is not seen yet.                         *)
LEMMA EnterStutters ==
  ASSUME call = Idle, call' # Idle, saved' = Snapshot,
         UNCHANGED <<time, registered, matchDigest>>
  PROVE  UNCHANGED Atomic!vars
  BY DEF Snapshot, Atomic!vars

(* Nor is the delivery, as long as the seller has not been paid.           *)
LEMMA DeliverStutters ==
  ASSUME CallInvariant, Deliver
  PROVE  UNCHANGED Atomic!vars
<1>1. call # Idle
  BY NotIdle DEF Deliver
<1>2. Delivering
  BY StepTells DEF Deliver, CallInvariant
<1>3. call'.step = "pay"
  <2>1. \A t, sender, value :
           Paid(t, sender, value, "deliver") => [call EXCEPT !.step = "pay"].step = "pay"
    BY DEF Paid
  <2> QED
    BY <1>2, <2>1 DEF Delivering, Deliver
<1>4. call' # Idle
  BY <1>3 DEF Idle
<1> QED
  BY <1>1, <1>4 DEF Deliver, Atomic!vars

(* A revert restores what is seen.                                         *)
LEMMA RevertStutters ==
  ASSUME Revert
  PROVE  UNCHANGED Atomic!vars
  BY DEF Revert, Leave, Atomic!vars

(* The payment completes settle.                                           *)
LEMMA PayRefines ==
  ASSUME CallInvariant, Pay
  PROVE  Atomic!Next
<1>1. call # Idle /\ Paying
  BY NotIdle, StepTells DEF Pay, CallInvariant
<1>2. PICK t \in registered, sender \in Accounts, value \in Values :
         /\ Paid(t, sender, value, "pay")
         /\ Atomic!CanExecute(Key(t), t.buyer)
         /\ nova = [saved.nova EXCEPT ![t.buyer] = @ + saved.holds[Key(t)].amount]
         /\ holds = [saved.holds EXCEPT ![Key(t)].amount = 0]
  BY <1>1 DEF Paying
<1>3. call.value = value /\ call.seller = t.seller
  BY <1>2 DEF Paid
<1>4. hbar' = [saved.hbar EXCEPT ![sender] = @ - value, ![t.seller] = @ + value]
  <2> DEFINE paid == [saved.hbar EXCEPT ![sender] = @ - value, ![Contract] = @ + value]
  <2>1. hbar = paid
    BY <1>2 DEF Paid
  <2>2. hbar' = [paid EXCEPT ![Contract] = @ - value, ![t.seller] = @ + value]
    BY <1>3, <2>1 DEF Pay
  <2>3. /\ saved.hbar \in [Accounts \cup {Contract} -> Int]
        /\ t.seller \in Accounts /\ sender \in Accounts /\ Contract \notin Accounts
        /\ value \in Int
    BY NumbersAssumption, AccountsAssumption DEF CallInvariant, HbarIsInteger, PartiesAreAccounts
  <2> QED
    BY <2>2, <2>3
<1>5. Atomic!Settle(t, sender, value)
  BY <1>1, <1>2, <1>4 DEF Pay, Leave, Paid, Key, Atomic!Settle, Atomic!EmptyHold,
     Atomic!CanExecute, Atomic!Key
<1> QED
  BY <1>5 DEF Atomic!Next, Atomic!ContractStep

(* The token sends a Hold back: cancel, reclaim or recoverOrphan is        *)
(* complete.                                                               *)
LEMMA TokenReturnsRefines ==
  ASSUME CallInvariant, TokenReturns
  PROVE  Atomic!Next
<1>1. call # Idle /\ Returning
  BY NotIdle, StepTells DEF TokenReturns, CallInvariant
<1>2. CASE \E t \in registered, sender \in Accounts, expired \in BOOLEAN :
              ReturningDeal(t, sender, expired)
  <2>1. PICK t \in registered, sender \in Accounts, expired \in BOOLEAN :
           ReturningDeal(t, sender, expired)
    BY <1>2
  <2>2. call.key = Key(t) /\ call.step = IF expired THEN "reclaim" ELSE "release"
    BY <2>1 DEF ReturningDeal
  <2>3. CASE expired = FALSE
    <3>1. Atomic!Cancel(t, sender)
      BY <1>1, <2>1, <2>2, <2>3
      DEF TokenReturns, Leave, Returning, Untouched, ReturningDeal, EmptyHold, CanRelease, Key,
          Atomic!Cancel, Atomic!CanRelease, Atomic!EmptyHold, Atomic!Key
    <3> QED
      BY <3>1 DEF Atomic!Next, Atomic!ContractStep
  <2>4. CASE expired = TRUE
    <3>1. Atomic!Reclaim(t, sender)
      BY <1>1, <2>1, <2>2, <2>4
      DEF TokenReturns, Leave, Returning, Untouched, ReturningDeal, EmptyHold, CanReclaimHold,
          NoHold, Key, Atomic!Reclaim, Atomic!CanReclaimHold, Atomic!NoHold, Atomic!EmptyHold,
          Atomic!Key
    <3> QED
      BY <3>1 DEF Atomic!Next, Atomic!ContractStep
  <2> QED
    BY <2>3, <2>4
<1>3. CASE \E sender \in Accounts, id \in HoldIds : ReturningOrphan(sender, id)
  <2>1. PICK sender \in Accounts, id \in HoldIds : ReturningOrphan(sender, id)
    BY <1>3
  <2>2. /\ call.key = <<sender, id>>
        /\ call.step = IF time >= saved.holds[<<sender, id>>].expiry
                       THEN "reclaim" ELSE "release"
    BY <2>1 DEF ReturningOrphan
  <2>3. Atomic!RecoverOrphan(sender, id)
    BY <1>1, <2>1, <2>2
    DEF TokenReturns, Leave, Returning, Untouched, ReturningOrphan, EmptyHold, CanReclaimHold,
        CanRelease, NoHold, Atomic!RecoverOrphan, Atomic!CanReclaimHold, Atomic!CanRelease,
        Atomic!NoHold, Atomic!EmptyHold
  <2> QED
    BY <2>3 DEF Atomic!Next, Atomic!ContractStep
<1> QED
  BY <1>1, <1>2, <1>3 DEF Returning

(* Between calls, the token, the time and register are those of Escrow.    *)
LEMMA IdleRefines ==
  ASSUME call = Idle, UNCHANGED <<call, saved>>,
         \/ TokenStep
         \/ Advance
         \/ \E t \in Offers, sender \in Accounts : Register(t, sender)
  PROVE  Atomic!Next
<1>1. call' = Idle
  OBVIOUS
<1>2. CASE TokenStep
  <2>1. \A a, id, h : CreateHold(a, id, h) => Atomic!CreateHold(a, id, h)
    BY <1>1 DEF CreateHold, CanCreate, NoHold, Atomic!CreateHold, Atomic!CanCreate, Atomic!NoHold
  <2>2. \A k : ReclaimAtAts(k) => Atomic!ReclaimAtAts(k)
    BY <1>1 DEF ReclaimAtAts, CanReclaimHold, EmptyHold, NoHold, Atomic!ReclaimAtAts,
       Atomic!CanReclaimHold, Atomic!EmptyHold, Atomic!NoHold
  <2> QED
    BY <1>2, <2>1, <2>2 DEF TokenStep, Keys, Atomic!Next, Atomic!TokenStep, Atomic!Keys
<1>3. CASE Advance
  BY <1>1, <1>3 DEF Advance, chain, Atomic!Next, Atomic!Advance, Atomic!chain
<1>4. CASE \E t \in Offers, sender \in Accounts : Register(t, sender)
  <2>1. \A t, sender : Register(t, sender) => Atomic!Register(t, sender)
    BY <1>1 DEF Register, CanRegister, ValidTerms, CheckHold, Price, Key, Atomic!Register,
       Atomic!CanRegister, Atomic!ValidTerms, Atomic!CheckHold, Atomic!Price, Atomic!Key
  <2> QED
    BY <1>4, <2>1 DEF Atomic!Next, Atomic!ContractStep
<1> QED
  BY <1>2, <1>3, <1>4

(* Every step of a call is a step of Escrow or leaves what Escrow sees.    *)
LEMMA StepRefines == CallInvariant /\ [CallNext]_callVars => [Atomic!Next]_(Atomic!vars)
<1> SUFFICES ASSUME CallInvariant, [CallNext]_callVars PROVE [Atomic!Next]_(Atomic!vars)
  OBVIOUS
<1>1. CASE /\ call = Idle
           /\ \/ TokenStep
              \/ Advance
              \/ \E t \in Offers, sender \in Accounts : Register(t, sender)
           /\ UNCHANGED <<call, saved>>
  BY <1>1, IdleRefines
<1>2. CASE \E t \in registered, sender \in Accounts :
              \/ \E value \in Values : SettleEnters(t, sender, value)
              \/ \E expired \in BOOLEAN : ReturnEnters(t, sender, expired)
  <2>1. \A t, sender, value :
           SettleEnters(t, sender, value) => /\ call = Idle /\ call' # Idle /\ saved' = Snapshot
                                             /\ UNCHANGED <<time, registered, matchDigest>>
    BY DEF SettleEnters, Enter, Idle
  <2>2. \A t, sender, expired :
           ReturnEnters(t, sender, expired) => /\ call = Idle /\ call' # Idle /\ saved' = Snapshot
                                               /\ UNCHANGED <<time, registered, matchDigest>>
    BY DEF ReturnEnters, Enter, Idle
  <2> QED
    BY <1>2, <2>1, <2>2, EnterStutters
<1>3. CASE \E sender \in Accounts, id \in HoldIds : RecoverEnters(sender, id)
  <2>1. \A sender, id :
           RecoverEnters(sender, id) => /\ call = Idle /\ call' # Idle /\ saved' = Snapshot
                                        /\ UNCHANGED <<time, registered, matchDigest>>
    BY DEF RecoverEnters, Enter, Idle
  <2> QED
    BY <1>3, <2>1, EnterStutters
<1>4. CASE Deliver
  BY <1>4, DeliverStutters
<1>5. CASE Pay
  BY <1>5, PayRefines
<1>6. CASE TokenReturns
  BY <1>6, TokenReturnsRefines
<1>7. CASE Revert
  BY <1>7, RevertStutters
<1>8. CASE UNCHANGED callVars
  BY <1>8 DEF callVars, Atomic!vars
<1> QED
  BY <1>1, <1>2, <1>3, <1>4, <1>5, <1>6, <1>7, <1>8 DEF CallNext

(* Throughout a call, its guards hold in the state that is saved, and the  *)
(* current state is the saved one with what the call has done so far.      *)
THEOREM CallsAreGuarded == CallSpec => []CallInvariant
  BY InitialInvariant, CallStepInvariant, PTL DEF CallSpec

(* settle, cancel, reclaim and recoverOrphan are all or nothing: a failed  *)
(* external call leaves no trace, and a call that completes is one step of *)
(* the atomic contract, taken in the state in which its guards were read.  *)
THEOREM ContractIsAtomic == CallSpec => ImplementsEscrow
  BY InitialRefines, StepRefines, CallsAreGuarded, PTL DEF CallSpec, ImplementsEscrow, Atomic!Spec
-----------------------------------------------------------------------------
(* Induction over numbers and finite sets, by a least counterexample.      *)
LEMMA LeastNumber ==
    ASSUME NEW T, T \subseteq Nat, T # {}
    PROVE  \E n \in T : \A k \in T : n =< k
<1> DEFINE Less == {s \in Nat \X Nat : s[1] < s[2]}
<1>1. IsWellFoundedOn(Less, Nat)
  BY NatLessThanWellFounded DEF OpToRel
<1>2. PICK n \in T : \A k \in T : ~(<<k, n>> \in Less)
  <2> HIDE DEF Less
  <2> QED BY <1>1, WFMin
<1>3. ASSUME NEW k \in T PROVE n =< k
  <2>1. n \in Nat /\ k \in Nat /\ <<k, n>> \notin Less
    BY <1>2
  <2> QED BY <2>1
<1> QED BY <1>3

LEMMA SmallestSet ==
    ASSUME NEW S, NEW v, IsFiniteSet(S), NEW T, T \subseteq SUBSET S, T # {}
    PROVE  \E A \in T : \A B \in T : B \subseteq A => B = A
<1>1. IsWellFoundedOn(StrictSubsetOrdering(S), SUBSET S)
  BY FS_StrictSubsetOrderingWellFounded, FS_FiniteSubsetsOfFinite
<1>2. PICK A \in T : \A B \in T : ~(<<B, A>> \in StrictSubsetOrdering(S))
  BY <1>1, WFMin
<1>3. ASSUME NEW B \in T, B \subseteq A, B # A PROVE FALSE
  <2>1. <<B, A>> \in StrictSubsetOrdering(S)
    BY <1>3 DEF StrictSubsetOrdering
  <2> QED BY <1>2, <2>1
<1> QED BY <1>3

-----------------------------------------------------------------------------
(* The sum of the values v[x] over a finite set.                           *)
SumUp(S, v) == MapThenSumSet(LAMBDA x : v[x], S)

Pick(S) == CHOOSE x \in S : TRUE

IsSums(S, v, f) ==
    f = [T \in SUBSET S |-> IF T = {} THEN 0 ELSE v[Pick(T)] + f[T \ {Pick(T)}]]

LEMMA SumIs ==
    ASSUME NEW S, NEW v PROVE SumUp(S, v) = (CHOOSE f : IsSums(S, v, f))[S]
BY DEF SumUp, MapThenSumSet, MapThenFoldSet, IsSums, Pick

LEMMA SumsExist ==
    ASSUME NEW S, NEW v, IsFiniteSet(S) PROVE \E f : IsSums(S, v, f)
<1> DEFINE Small(n) == {T \in SUBSET S : Cardinality(T) =< n}
           Term(T, f) == IF T = {} THEN 0 ELSE v[Pick(T)] + f[T \ {Pick(T)}]
           Upto(n, f) == f = [T \in Small(n) |-> Term(T, f)]
           Bad == {n \in Nat : ~\E f : Upto(n, f)}
<1>1. \A T \in SUBSET S : IsFiniteSet(T) /\ Cardinality(T) \in Nat /\ Cardinality(T) =< Cardinality(S)
  BY FS_Subset, FS_CardinalityType
<1>2. \A T : T # {} => Pick(T) \in T
  BY DEF Pick
<1>3. 0 \notin Bad
  <2>1. Small(0) = {{}}
    BY <1>1, FS_EmptySet
  <2> DEFINE f == [T \in Small(0) |-> 0]
  <2>2. \A T \in Small(0) : Term(T, f) = 0
    BY <2>1
  <2>3. Upto(0, f)
    <3> HIDE DEF Term
    <3> QED BY <2>2
  <2> QED BY <2>3
<1>4. ASSUME NEW n \in Nat, n + 1 \in Bad PROVE n \in Bad
  <2> SUFFICES ASSUME NEW g, Upto(n, g) PROVE FALSE
    OBVIOUS
  <2> DEFINE f == [T \in Small(n + 1) |-> Term(T, g)]
  <2>1. ASSUME NEW T \in Small(n) PROVE f[T] = g[T]
    <3>1. T \in Small(n + 1)
      BY <1>1
    <3> HIDE DEF Small, Term
    <3> QED BY <3>1
  <2>2. ASSUME NEW T \in Small(n + 1) PROVE Term(T, f) = Term(T, g)
    <3>1. CASE T = {}
      BY <3>1
    <3>2. CASE T # {}
      <4>1. Pick(T) \in T /\ IsFiniteSet(T)
        BY <1>1, <1>2, <3>2
      <4>2. Cardinality(T \ {Pick(T)}) = Cardinality(T) - 1
        BY <4>1, FS_RemoveElement
      <4>3. T \ {Pick(T)} \in Small(n)
        BY <1>1, <4>2
      <4> HIDE DEF Small, f
      <4> QED BY <2>1, <3>2, <4>3
    <3> QED BY <3>1, <3>2
  <2>3. Upto(n + 1, f)
    <3> HIDE DEF Small, Term
    <3> QED BY <2>2
  <2> QED BY <1>4, <2>3
<1>5. Bad = {}
  <2> SUFFICES ASSUME Bad # {} PROVE FALSE
    OBVIOUS
  <2> HIDE DEF Bad
  <2>1. Bad \subseteq Nat
    BY DEF Bad
  <2>2. PICK n \in Bad : \A k \in Bad : n =< k
    BY <2>1, LeastNumber
  <2>3. n \in Nat /\ n # 0
    BY <1>3, <2>1
  <2>4. n - 1 \in Nat /\ n = (n - 1) + 1
    BY <2>3
  <2>5. n - 1 \in Bad
    BY <1>4, <2>4
  <2> QED BY <2>2, <2>3, <2>5
<1>6. PICK f : Upto(Cardinality(S), f)
  BY <1>1, <1>5
<1>7. Small(Cardinality(S)) = SUBSET S
  BY <1>1
<1> QED BY <1>6, <1>7 DEF IsSums

(* Two sums agree where both are defined.                                *)
LEMMA SumsAgree ==
    ASSUME NEW S, NEW v, IsFiniteSet(S), NEW f, IsSums(S, v, f), NEW R \in SUBSET S, NEW g, IsSums(R, v, g)
    PROVE  \A T \in SUBSET R : f[T] = g[T]
<1> DEFINE Bad == {T \in SUBSET R : f[T] # g[T]}
<1>1. IsFiniteSet(R)
  BY FS_Subset
<1> SUFFICES ASSUME Bad # {} PROVE FALSE
  OBVIOUS
<1>2. PICK A \in Bad : \A B \in Bad : B \subseteq A => B = A
  <2> HIDE DEF Bad
  <2>1. Bad \subseteq SUBSET R
    BY DEF Bad
  <2> QED BY <1>1, <2>1, SmallestSet
<1>3. A # {}
  BY DEF IsSums
<1>4. Pick(A) \in A
  BY <1>3 DEF Pick
<1>5. f[A \ {Pick(A)}] = g[A \ {Pick(A)}]
  BY <1>2, <1>4
<1>6. f[A] = g[A]
  BY <1>3, <1>4, <1>5 DEF IsSums
<1> QED BY <1>6

LEMMA SumUnfolds ==
    ASSUME NEW S, NEW v, IsFiniteSet(S)
    PROVE  SumUp(S, v) = IF S = {} THEN 0 ELSE v[Pick(S)] + SumUp(S \ {Pick(S)}, v)
<1> DEFINE R == S \ {Pick(S)}
<1>1. PICK f : f = (CHOOSE h : IsSums(S, v, h))
  OBVIOUS
<1>2. IsSums(S, v, f)
  BY <1>1, SumsExist
<1>3. IsFiniteSet(R)
  BY FS_Subset
<1>4. PICK g : g = (CHOOSE h : IsSums(R, v, h))
  OBVIOUS
<1>5. IsSums(R, v, g)
  BY <1>3, <1>4, SumsExist
<1>6. SumUp(S, v) = f[S] /\ SumUp(R, v) = g[R]
  BY <1>1, <1>4, SumIs
<1>7. f[R] = g[R]
  <2>1. R \in SUBSET S /\ R \in SUBSET R
    OBVIOUS
  <2> HIDE DEF R
  <2>2. \A T \in SUBSET R : f[T] = g[T]
    BY <1>2, <1>5, <2>1, SumsAgree, Z3
  <2> QED BY <2>1, <2>2
<1>8. f[S] = IF S = {} THEN 0 ELSE v[Pick(S)] + f[R]
  BY <1>2 DEF IsSums
<1> QED BY <1>6, <1>7, <1>8

LEMMA SumOfNone == ASSUME NEW v PROVE SumUp({}, v) = 0
<1>1. IsFiniteSet({})
  BY FS_EmptySet
<1>2. SumUp({}, v) = IF {} = {} THEN 0 ELSE v[Pick({})] + SumUp({} \ {Pick({})}, v)
  BY <1>1, SumUnfolds, Zenon
<1> QED BY <1>2

LEMMA SumWithout ==
    ASSUME NEW S, NEW v, IsFiniteSet(S), \A m \in S : v[m] \in Int, NEW x \in S
    PROVE  SumUp(S, v) \in Int /\ SumUp(S, v) = v[x] + SumUp(S \ {x}, v)
<1> DEFINE Good(A) == SumUp(A, v) \in Int /\ \A y \in A : SumUp(A, v) = v[y] + SumUp(A \ {y}, v)
           Bad == {A \in SUBSET S : ~Good(A)}
<1>1. \A A \in SUBSET S : IsFiniteSet(A)
  BY FS_Subset
<1>2. Bad = {}
  <2> SUFFICES ASSUME Bad # {} PROVE FALSE
    OBVIOUS
  <2>1. PICK A \in Bad : \A B \in Bad : B \subseteq A => B = A
    <3> HIDE DEF Bad
    <3>1. Bad \subseteq SUBSET S
      BY DEF Bad
    <3> QED BY <3>1, SmallestSet
  <2>2. \A B \in SUBSET A : B # A => Good(B)
    <3> HIDE DEF Good
    <3> QED BY <2>1
  <2>3. A # {}
    <3>1. Good({})
      BY SumOfNone
    <3> QED BY <2>1, <3>1
  <2> DEFINE p == Pick(A)
  <2>4. p \in A
    BY <2>3 DEF Pick
  <2>5. SumUp(A, v) = v[p] + SumUp(A \ {p}, v)
    BY <1>1, <2>3, SumUnfolds
  <2> HIDE DEF p
  <2>6. SumUp(A, v) \in Int
    BY <2>2, <2>4, <2>5
  <2>7. ASSUME NEW y \in A, y # p PROVE SumUp(A, v) = v[y] + SumUp(A \ {y}, v)
    <3>1. (A \ {p}) \ {y} = (A \ {y}) \ {p}
      OBVIOUS
    <3>2. SumUp(A \ {p}, v) \in Int /\ SumUp(A \ {p}, v) = v[y] + SumUp((A \ {p}) \ {y}, v)
      BY <2>2, <2>4, <2>7
    <3>3. SumUp(A \ {y}, v) \in Int /\ SumUp(A \ {y}, v) = v[p] + SumUp((A \ {y}) \ {p}, v)
      BY <2>2, <2>4, <2>7
    <3>4. SumUp((A \ {p}) \ {y}, v) \in Int
      BY <2>2, <2>4
    <3>5. v[p] \in Int /\ v[y] \in Int
      BY <2>4
    <3> DEFINE rest == SumUp((A \ {p}) \ {y}, v)
               noP == SumUp(A \ {p}, v)
               noY == SumUp(A \ {y}, v)
    <3>6. SumUp(A, v) = v[p] + noP /\ noP = v[y] + rest /\ noY = v[p] + rest
      BY <2>5, <3>1, <3>2, <3>3, Zenon
    <3> HIDE DEF rest, noP, noY, Good, Bad
    <3>7. rest \in Int
      BY <3>4 DEF rest
    <3>8. SumUp(A, v) = v[y] + noY
      BY <3>5, <3>6, <3>7
    <3> QED BY <3>8 DEF noY
  <2> QED BY <2>4, <2>5, <2>6, <2>7
<1> QED BY <1>2

(* Another element adds its value.                                         *)
LEMMA SumAdds ==
    ASSUME NEW S, NEW v, IsFiniteSet(S), \A m \in S : v[m] \in Int,
           NEW x, x \notin S, v[x] \in Int
    PROVE  SumUp(S \cup {x}, v) = SumUp(S, v) + v[x]
<1>1. IsFiniteSet(S \cup {x})
  BY FS_AddElement
<1>2. (S \cup {x}) \ {x} = S
  OBVIOUS
<1>3. SumUp(S \cup {x}, v) \in Int /\ SumUp(S \cup {x}, v) = v[x] + SumUp(S, v)
  BY <1>1, <1>2, SumWithout
<1>4. SumUp(S, v) \in Int
  <2>1. CASE S = {}
    BY <2>1, SumOfNone
  <2>2. CASE S # {}
    BY <2>2, SumWithout
  <2> QED BY <2>1, <2>2
<1> QED BY <1>3, <1>4

LEMMA SumIsInteger ==
    ASSUME NEW S, NEW v, IsFiniteSet(S), \A m \in S : v[m] \in Int
    PROVE  SumUp(S, v) \in Int
<1>1. CASE S = {}
  BY <1>1, SumOfNone
<1>2. CASE S # {}
  BY <1>2, SumWithout
<1> QED BY <1>1, <1>2

(* The same values have the same sum.                                      *)
LEMMA SumOfSame ==
    ASSUME NEW S, NEW v, NEW w, IsFiniteSet(S), \A m \in S : v[m] \in Int /\ w[m] = v[m]
    PROVE  SumUp(S, w) = SumUp(S, v)
<1> DEFINE Bad == {A \in SUBSET S : SumUp(A, w) # SumUp(A, v)}
<1> SUFFICES ASSUME Bad # {} PROVE FALSE
  OBVIOUS
<1>1. PICK A \in Bad : \A B \in Bad : B \subseteq A => B = A
  <2> HIDE DEF Bad
  <2>1. Bad \subseteq SUBSET S
    BY DEF Bad
  <2> QED BY <2>1, SmallestSet
<1>2. A # {}
  BY SumOfNone
<1>3. PICK x \in A : TRUE
  BY <1>2
<1>4. IsFiniteSet(A) /\ \A m \in A : v[m] \in Int /\ w[m] \in Int
  BY FS_Subset
<1>5. SumUp(A, v) = v[x] + SumUp(A \ {x}, v) /\ SumUp(A, w) = w[x] + SumUp(A \ {x}, w)
  BY <1>4, SumWithout
<1>6. SumUp(A \ {x}, v) = SumUp(A \ {x}, w)
  BY <1>1, <1>3
<1>7. v[x] = w[x]
  OBVIOUS
<1> QED BY <1>5, <1>6, <1>7

LEMMA SumOfZeros ==
    ASSUME NEW S, NEW v, IsFiniteSet(S), \A m \in S : v[m] = 0
    PROVE  SumUp(S, v) = 0
<1> DEFINE Bad == {A \in SUBSET S : SumUp(A, v) # 0}
<1> SUFFICES ASSUME Bad # {} PROVE FALSE
  OBVIOUS
<1>1. PICK A \in Bad : \A B \in Bad : B \subseteq A => B = A
  <2> HIDE DEF Bad
  <2>1. Bad \subseteq SUBSET S
    BY DEF Bad
  <2> QED BY <2>1, SmallestSet
<1>2. A # {}
  BY SumOfNone
<1>3. PICK x \in A : TRUE
  BY <1>2
<1>4. IsFiniteSet(A) /\ (\A m \in A : v[m] \in Int) /\ v[x] = 0
  BY FS_Subset
<1>5. SumUp(A, v) = v[x] + SumUp(A \ {x}, v)
  BY <1>4, SumWithout
<1>6. SumUp(A \ {x}, v) = 0
  BY <1>1, <1>3
<1> QED BY <1>4, <1>5, <1>6

(* A sum changes by what one of its values changes.                        *)
LEMMA SumChanges ==
    ASSUME NEW S, NEW v, NEW w, IsFiniteSet(S),
           \A m \in S : v[m] \in Int /\ w[m] \in Int,
           NEW x \in S, \A m \in S : m # x => w[m] = v[m]
    PROVE  SumUp(S, w) = SumUp(S, v) + (w[x] - v[x])
<1> DEFINE R == S \ {x}
<1>1. IsFiniteSet(R)
  BY FS_Subset
<1>2. SumUp(S, v) = v[x] + SumUp(R, v) /\ SumUp(S, w) = w[x] + SumUp(R, w)
  BY SumWithout
<1>3. SumUp(R, w) = SumUp(R, v)
  BY <1>1, SumOfSame
<1>4. SumUp(R, v) \in Int
  BY <1>1, SumIsInteger
<1> HIDE DEF R
<1> QED BY <1>2, <1>3, <1>4

-----------------------------------------------------------------------------
(***************************************************************************)
(* Delivery versus payment, in balances, of the atomic contract: for fixed *)
(* values of free NOVA n, Holds h, HBAR b, registered deals r, their       *)
(* states s and the digests d, so that it can be said of what Atomic sees. *)
(***************************************************************************)
PriceOf == [t \in Terms |-> Price(t)]
AmountOf == [t \in Terms |-> t.amount]
HeldOf(h) == [k \in Keys |-> h[k].amount]

HoldsOf(a) == {k \in Keys : k[1] = a}
SoldOf(r, s, a) == {t \in r : s[t] = "Settled" /\ t.seller = a}
BoughtOf(r, s, a) == {t \in r : s[t] = "Settled" /\ t.buyer = a}

BooksTyped(n, h, b, r, s, d) ==
    /\ n \in [Accounts -> Int]
    /\ h \in [Keys -> Holds \cup {NoHold}]
    /\ b \in [Accounts \cup {Contract} -> Int]
    /\ r \subseteq Terms /\ IsFiniteSet(r)
    /\ s \in [r -> States]
    /\ d \in [Matches -> Terms \cup {NoTerms}]
    /\ \A t \in r : d[t.match] = t

HbarExplained(b, r, s) ==
    \A a \in Accounts :
       b[a] + SumUp(BoughtOf(r, s, a), PriceOf) = InitialHbar[a] + SumUp(SoldOf(r, s, a), PriceOf)

NovaExplained(n, h, r, s) ==
    \A a \in Accounts :
       n[a] + SumUp(HoldsOf(a), HeldOf(h)) + SumUp(SoldOf(r, s, a), AmountOf)
          = InitialNova[a] + SumUp(BoughtOf(r, s, a), AmountOf)

Explained(n, h, b, r, s, d) ==
    /\ BooksTyped(n, h, b, r, s, d)
    /\ b[Contract] = 0
    /\ HbarExplained(b, r, s)
    /\ NovaExplained(n, h, r, s)

(* Prices, amounts and Holds are integers; the Holds of an account and the *)
(* registered deals are finitely many.                                     *)
LEMMA ValuesAreIntegers == \A t \in Terms : PriceOf[t] \in Int /\ AmountOf[t] \in Int
<1> TAKE t \in Terms
<1>1. t.amount \in Int /\ t.price \in Int
  <2>1. t.amount \in Amounts /\ t.price \in Prices
    BY DEF Terms
  <2>2. Amounts \subseteq Int /\ Prices \subseteq Int
    BY NumbersAssumption
  <2> QED BY <2>1, <2>2
<1>2. t.amount * t.price \in Int
  BY <1>1, Z3
<1> QED BY <1>1, <1>2 DEF PriceOf, AmountOf, Price

LEMMA HeldIsInteger ==
  ASSUME NEW h \in [Keys -> Holds \cup {NoHold}], NEW k \in Keys
  PROVE  h[k].amount \in Int /\ HeldOf(h)[k] \in Int
<1>1. h[k] \in Holds \cup {NoHold}
  OBVIOUS
<1>2. h[k].amount \in Int
  BY <1>1, AmountType DEF Holds, NoHold
<1> QED BY <1>2 DEF HeldOf

LEMMA FewHolds == \A a : IsFiniteSet(HoldsOf(a))
<1> TAKE a
<1>1. IsFiniteSet({a} \X HoldIds)
  BY HoldIdsAssumption, FS_Singleton, FS_Product
<1>2. HoldsOf(a) \subseteq {a} \X HoldIds
  BY DEF HoldsOf, Keys
<1> QED BY <1>1, <1>2, FS_Subset

LEMMA FewDeals ==
  ASSUME NEW r, IsFiniteSet(r), NEW s, NEW a
  PROVE  IsFiniteSet(SoldOf(r, s, a)) /\ IsFiniteSet(BoughtOf(r, s, a))
  BY FS_Subset DEF SoldOf, BoughtOf

LEMMA DealSums ==
  ASSUME NEW r, r \subseteq Terms, IsFiniteSet(r), NEW s, NEW a
  PROVE  /\ SumUp(SoldOf(r, s, a), PriceOf) \in Int /\ SumUp(BoughtOf(r, s, a), PriceOf) \in Int
         /\ SumUp(SoldOf(r, s, a), AmountOf) \in Int /\ SumUp(BoughtOf(r, s, a), AmountOf) \in Int
<1>1. \A t \in SoldOf(r, s, a) : PriceOf[t] \in Int /\ AmountOf[t] \in Int
  BY ValuesAreIntegers DEF SoldOf
<1>2. \A t \in BoughtOf(r, s, a) : PriceOf[t] \in Int /\ AmountOf[t] \in Int
  BY ValuesAreIntegers DEF BoughtOf
<1> QED BY <1>1, <1>2, FewDeals, SumIsInteger

LEMMA HeldSum ==
  ASSUME NEW h \in [Keys -> Holds \cup {NoHold}], NEW a
  PROVE  SumUp(HoldsOf(a), HeldOf(h)) \in Int
<1>1. \A k \in HoldsOf(a) : HeldOf(h)[k] \in Int
  BY HeldIsInteger DEF HoldsOf
<1> QED BY <1>1, FewHolds, SumIsInteger

(* One Hold changes: so does what its holder has in Holds, and nobody else.*)
LEMMA HeldChanges ==
  ASSUME NEW h \in [Keys -> Holds \cup {NoHold}], NEW g \in [Keys -> Holds \cup {NoHold}],
         NEW k \in Keys, \A j \in Keys : j # k => g[j] = h[j], NEW a
  PROVE  SumUp(HoldsOf(a), HeldOf(g))
            = SumUp(HoldsOf(a), HeldOf(h)) + (IF k[1] = a THEN g[k].amount - h[k].amount ELSE 0)
<1>1. \A j \in HoldsOf(a) : HeldOf(h)[j] \in Int /\ HeldOf(g)[j] \in Int
  BY HeldIsInteger DEF HoldsOf
<1>2. \A j \in HoldsOf(a) : j # k => HeldOf(g)[j] = HeldOf(h)[j]
  BY DEF HoldsOf, HeldOf
<1>3. HeldOf(g)[k] = g[k].amount /\ HeldOf(h)[k] = h[k].amount
  BY DEF HeldOf
<1>4. CASE k[1] = a
  <2>1. k \in HoldsOf(a)
    BY <1>4 DEF HoldsOf
  <2>2. SumUp(HoldsOf(a), HeldOf(g))
           = SumUp(HoldsOf(a), HeldOf(h)) + (HeldOf(g)[k] - HeldOf(h)[k])
    BY <1>1, <1>2, <2>1, FewHolds, SumChanges
  <2> QED BY <1>3, <1>4, <2>2
<1>5. CASE k[1] # a
  <2>1. k \notin HoldsOf(a)
    BY <1>5 DEF HoldsOf
  <2>2. SumUp(HoldsOf(a), HeldOf(g)) = SumUp(HoldsOf(a), HeldOf(h))
    BY <1>1, <1>2, <2>1, FewHolds, SumOfSame
  <2> QED BY <1>5, <2>2, HeldSum
<1> QED BY <1>4, <1>5

Settles(r, s, z, t) ==
    /\ t \in r
    /\ s[t] # "Settled" /\ z[t] = "Settled"
    /\ \A u \in r : u # t => z[u] = s[u]

(* A settled deal is one more sold by its seller and bought by its buyer.  *)
LEMMA SettledAdds ==
  ASSUME NEW r, r \subseteq Terms, IsFiniteSet(r), NEW s, NEW z, NEW t, Settles(r, s, z, t),
         NEW a, NEW v \in {PriceOf, AmountOf}
  PROVE  /\ SumUp(SoldOf(r, z, a), v)
               = SumUp(SoldOf(r, s, a), v) + (IF t.seller = a THEN v[t] ELSE 0)
         /\ SumUp(BoughtOf(r, z, a), v)
               = SumUp(BoughtOf(r, s, a), v) + (IF t.buyer = a THEN v[t] ELSE 0)
<1>1. SoldOf(r, z, a) = IF t.seller = a THEN SoldOf(r, s, a) \cup {t} ELSE SoldOf(r, s, a)
  BY DEF SoldOf, Settles
<1>2. BoughtOf(r, z, a) = IF t.buyer = a THEN BoughtOf(r, s, a) \cup {t} ELSE BoughtOf(r, s, a)
  BY DEF BoughtOf, Settles
<1>3. t \notin SoldOf(r, s, a) /\ t \notin BoughtOf(r, s, a)
  BY DEF SoldOf, BoughtOf, Settles
<1>4. /\ \A u \in SoldOf(r, s, a) : v[u] \in Int
      /\ \A u \in BoughtOf(r, s, a) : v[u] \in Int
      /\ v[t] \in Int
  BY ValuesAreIntegers DEF SoldOf, BoughtOf, Settles
<1>5. SumUp(SoldOf(r, s, a) \cup {t}, v) = SumUp(SoldOf(r, s, a), v) + v[t]
  BY <1>3, <1>4, FewDeals, SumAdds
<1>6. SumUp(BoughtOf(r, s, a) \cup {t}, v) = SumUp(BoughtOf(r, s, a), v) + v[t]
  BY <1>3, <1>4, FewDeals, SumAdds
<1>7. SumUp(SoldOf(r, s, a), v) \in Int /\ SumUp(BoughtOf(r, s, a), v) \in Int
  BY <1>4, FewDeals, SumIsInteger
<1>8. SumUp(SoldOf(r, z, a), v) = SumUp(SoldOf(r, s, a), v) + (IF t.seller = a THEN v[t] ELSE 0)
  BY <1>1, <1>5, <1>7
<1>9. SumUp(BoughtOf(r, z, a), v) = SumUp(BoughtOf(r, s, a), v) + (IF t.buyer = a THEN v[t] ELSE 0)
  BY <1>2, <1>6, <1>7
<1> QED BY <1>8, <1>9

(* A new Hold takes its amount out of what its holder has free.            *)
LEMMA CreateExplained ==
  ASSUME NEW n, NEW h, NEW b, NEW r, NEW s, NEW d, Explained(n, h, b, r, s, d),
         NEW k \in Keys, h[k] = NoHold, NEW new \in Holds
  PROVE  Explained([n EXCEPT ![k[1]] = @ - new.amount], [h EXCEPT ![k] = new], b, r, s, d)
<1> DEFINE m == [n EXCEPT ![k[1]] = @ - new.amount]
           g == [h EXCEPT ![k] = new]
<1>1. BooksTyped(n, h, b, r, s, d) /\ NovaExplained(n, h, r, s)
  BY DEF Explained
<1>2. n \in [Accounts -> Int] /\ h \in [Keys -> Holds \cup {NoHold}]
  BY <1>1 DEF BooksTyped
<1>3. g \in [Keys -> Holds \cup {NoHold}] /\ g[k] = new /\ \A j \in Keys : j # k => g[j] = h[j]
  BY <1>2
<1>4. h[k].amount = 0 /\ new.amount \in Int
  <2>1. h[k].amount = 0
    BY DEF NoHold
  <2>2. new.amount \in Int
    BY AmountType DEF Holds
  <2> QED BY <2>1, <2>2
<1>5. k[1] \in Accounts
  BY DEF Keys
<1>6. /\ m \in [Accounts -> Int]
      /\ \A a \in Accounts : m[a] = n[a] - (IF k[1] = a THEN new.amount ELSE 0)
  BY <1>2, <1>4, <1>5
<1> HIDE DEF m, g
<1>7. NovaExplained(m, g, r, s)
  <2> SUFFICES ASSUME NEW a \in Accounts
               PROVE  m[a] + SumUp(HoldsOf(a), HeldOf(g)) + SumUp(SoldOf(r, s, a), AmountOf)
                         = InitialNova[a] + SumUp(BoughtOf(r, s, a), AmountOf)
    BY DEF NovaExplained
  <2>1. n[a] + SumUp(HoldsOf(a), HeldOf(h)) + SumUp(SoldOf(r, s, a), AmountOf)
           = InitialNova[a] + SumUp(BoughtOf(r, s, a), AmountOf)
    BY <1>1 DEF NovaExplained
  <2>2. SumUp(HoldsOf(a), HeldOf(g))
           = SumUp(HoldsOf(a), HeldOf(h)) + (IF k[1] = a THEN new.amount - 0 ELSE 0)
    BY <1>2, <1>3, <1>4, HeldChanges
  <2>3. n[a] \in Int /\ SumUp(HoldsOf(a), HeldOf(h)) \in Int
    BY <1>2, HeldSum
  <2>4. SumUp(SoldOf(r, s, a), AmountOf) \in Int /\ SumUp(BoughtOf(r, s, a), AmountOf) \in Int
    BY <1>1, DealSums DEF BooksTyped
  <2>5. m[a] = n[a] - (IF k[1] = a THEN new.amount ELSE 0)
    BY <1>6
  <2>6. m[a] + SumUp(HoldsOf(a), HeldOf(g)) = n[a] + SumUp(HoldsOf(a), HeldOf(h))
    BY <1>4, <2>2, <2>3, <2>5
  <2> QED BY <2>1, <2>6
<1>8. BooksTyped(m, g, b, r, s, d)
  BY <1>1, <1>3, <1>6 DEF BooksTyped
<1>9. Explained(m, g, b, r, s, d)
  BY <1>7, <1>8 DEF Explained
<1> QED BY <1>9 DEF m, g

(* What emptying a Hold does to the sums: its amount leaves its holder.    *)
LEMMA EmptiedSums ==
  ASSUME NEW h \in [Keys -> Holds \cup {NoHold}], NEW k \in Keys
  PROVE  /\ [h EXCEPT ![k].amount = 0] \in [Keys -> Holds \cup {NoHold}]
         /\ \A a : SumUp(HoldsOf(a), HeldOf([h EXCEPT ![k].amount = 0]))
                      = SumUp(HoldsOf(a), HeldOf(h)) - (IF k[1] = a THEN h[k].amount ELSE 0)
<1> DEFINE g == [h EXCEPT ![k].amount = 0]
<1>1. h[k] \in Holds \cup {NoHold}
  OBVIOUS
<1>2. [h[k] EXCEPT !.amount = 0] \in Holds \cup {NoHold} /\ [h[k] EXCEPT !.amount = 0].amount = 0
  BY <1>1 DEF Holds, NoHold
<1>3. /\ g \in [Keys -> Holds \cup {NoHold}]
      /\ g[k].amount = 0
      /\ \A j \in Keys : j # k => g[j] = h[j]
  BY <1>2
<1>4. h[k].amount \in Int
  BY HeldIsInteger
<1> HIDE DEF g
<1>5. ASSUME NEW a
      PROVE  SumUp(HoldsOf(a), HeldOf(g))
                = SumUp(HoldsOf(a), HeldOf(h)) - (IF k[1] = a THEN h[k].amount ELSE 0)
  <2>1. SumUp(HoldsOf(a), HeldOf(g))
           = SumUp(HoldsOf(a), HeldOf(h)) + (IF k[1] = a THEN g[k].amount - h[k].amount ELSE 0)
    BY <1>3, HeldChanges
  <2>2. SumUp(HoldsOf(a), HeldOf(h)) \in Int
    BY HeldSum
  <2> QED BY <1>3, <1>4, <2>1, <2>2
<1>6. /\ g \in [Keys -> Holds \cup {NoHold}]
      /\ \A a : SumUp(HoldsOf(a), HeldOf(g))
                   = SumUp(HoldsOf(a), HeldOf(h)) - (IF k[1] = a THEN h[k].amount ELSE 0)
  BY <1>3, <1>5
<1> QED BY <1>6 DEF g

(* A Hold sent back is free again.                                         *)
LEMMA ReturnExplained ==
  ASSUME NEW n, NEW h, NEW b, NEW r, NEW s, NEW d, Explained(n, h, b, r, s, d),
         NEW k \in Keys
  PROVE  Explained([n EXCEPT ![k[1]] = @ + h[k].amount], [h EXCEPT ![k].amount = 0], b, r, s, d)
<1> DEFINE m == [n EXCEPT ![k[1]] = @ + h[k].amount]
           g == [h EXCEPT ![k].amount = 0]
<1>1. BooksTyped(n, h, b, r, s, d) /\ NovaExplained(n, h, r, s)
  BY DEF Explained
<1>2. n \in [Accounts -> Int] /\ h \in [Keys -> Holds \cup {NoHold}] /\ h[k].amount \in Int
  BY <1>1, HeldIsInteger DEF BooksTyped
<1>3. /\ g \in [Keys -> Holds \cup {NoHold}]
      /\ \A a : SumUp(HoldsOf(a), HeldOf(g))
                   = SumUp(HoldsOf(a), HeldOf(h)) - (IF k[1] = a THEN h[k].amount ELSE 0)
  BY <1>2, EmptiedSums
<1>4. k[1] \in Accounts
  BY DEF Keys
<1>5. /\ m \in [Accounts -> Int]
      /\ \A a \in Accounts : m[a] = n[a] + (IF k[1] = a THEN h[k].amount ELSE 0)
  BY <1>2, <1>4
<1> HIDE DEF m, g
<1>6. NovaExplained(m, g, r, s)
  <2> SUFFICES ASSUME NEW a \in Accounts
               PROVE  m[a] + SumUp(HoldsOf(a), HeldOf(g)) + SumUp(SoldOf(r, s, a), AmountOf)
                         = InitialNova[a] + SumUp(BoughtOf(r, s, a), AmountOf)
    BY DEF NovaExplained
  <2>1. n[a] + SumUp(HoldsOf(a), HeldOf(h)) + SumUp(SoldOf(r, s, a), AmountOf)
           = InitialNova[a] + SumUp(BoughtOf(r, s, a), AmountOf)
    BY <1>1 DEF NovaExplained
  <2>2. n[a] \in Int /\ SumUp(HoldsOf(a), HeldOf(h)) \in Int
    BY <1>2, HeldSum
  <2>3. m[a] + SumUp(HoldsOf(a), HeldOf(g)) = n[a] + SumUp(HoldsOf(a), HeldOf(h))
    BY <1>2, <1>3, <1>5, <2>2
  <2> QED BY <2>1, <2>3
<1>7. BooksTyped(m, g, b, r, s, d)
  BY <1>1, <1>3, <1>5 DEF BooksTyped
<1>8. Explained(m, g, b, r, s, d)
  BY <1>6, <1>7 DEF Explained
<1> QED BY <1>8 DEF m, g

(* A deal that ends unpaid is sold and bought by nobody.                   *)
LEMMA CloseExplained ==
  ASSUME NEW n, NEW h, NEW b, NEW r, NEW s, NEW d, Explained(n, h, b, r, s, d),
         NEW t \in r, s[t] # "Settled", NEW x \in States, x # "Settled"
  PROVE  Explained(n, h, b, r, [s EXCEPT ![t] = x], d)
<1> DEFINE z == [s EXCEPT ![t] = x]
<1>1. s \in [r -> States]
  BY DEF Explained, BooksTyped
<1>2. z \in [r -> States] /\ z[t] # "Settled" /\ \A u \in r : u # t => z[u] = s[u]
  BY <1>1
<1> HIDE DEF z
<1>3. \A a : SoldOf(r, z, a) = SoldOf(r, s, a) /\ BoughtOf(r, z, a) = BoughtOf(r, s, a)
  BY <1>2 DEF SoldOf, BoughtOf
<1>4. Explained(n, h, b, r, z, d)
  BY <1>2, <1>3 DEF Explained, BooksTyped, HbarExplained, NovaExplained
<1> QED BY <1>4 DEF z

(* Nor is a deal that is registered.                                       *)
LEMMA RegisterExplained ==
  ASSUME NEW n, NEW h, NEW b, NEW r, NEW s, NEW d, Explained(n, h, b, r, s, d),
         NEW t \in Terms, d[t.match] = NoTerms,
         NEW q, q = r \cup {t},
         NEW z, z = [u \in q |-> IF u = t THEN "Ready" ELSE s[u]],
         NEW e, e = [d EXCEPT ![t.match] = t]
  PROVE  Explained(n, h, b, q, z, e)
<1>1. BooksTyped(n, h, b, r, s, d)
  BY DEF Explained
<1>2. t \notin r /\ \A u \in r : u.match # t.match
  BY <1>1, NoTermsAssumption DEF BooksTyped
<1>3. t.match \in Matches
  BY DEF Terms
<1>4. q \subseteq Terms /\ IsFiniteSet(q)
  BY <1>1, FS_AddElement DEF BooksTyped
<1>5. z[t] = "Ready" /\ \A u \in r : z[u] = s[u]
  BY <1>2
<1>6. z \in [q -> States]
  BY <1>1 DEF BooksTyped, States
<1>7. e \in [Matches -> Terms \cup {NoTerms}] /\ e[t.match] = t /\ \A u \in r : e[u.match] = u
  <2>1. /\ d \in [Matches -> Terms \cup {NoTerms}]
        /\ \A u \in r : u.match \in Matches /\ d[u.match] = u
    BY <1>1 DEF BooksTyped, Terms
  <2> QED BY <1>2, <1>3, <2>1
<1>8. \A a : SoldOf(q, z, a) = SoldOf(r, s, a) /\ BoughtOf(q, z, a) = BoughtOf(r, s, a)
  BY <1>5 DEF SoldOf, BoughtOf
<1>9. \A u \in q : e[u.match] = u
  BY <1>7
<1>10. BooksTyped(n, h, b, q, z, e)
  BY <1>1, <1>4, <1>6, <1>7, <1>9 DEF BooksTyped
<1> QED BY <1>8, <1>10 DEF Explained, HbarExplained, NovaExplained

(* A settlement: the price from the buyer to the seller, and the Hold of   *)
(* the seller to the buyer.                                                *)
LEMMA SettleExplained ==
  ASSUME NEW n, NEW h, NEW b, NEW r, NEW s, NEW d, Explained(n, h, b, r, s, d),
         NEW t \in r, s[t] # "Settled", t.buyer \in Accounts, t.seller \in Accounts,
         h[Key(t)].amount = t.amount
  PROVE  Explained([n EXCEPT ![t.buyer] = @ + h[Key(t)].amount],
                   [h EXCEPT ![Key(t)].amount = 0],
                   [b EXCEPT ![t.buyer] = @ - Price(t), ![t.seller] = @ + Price(t)],
                   r, [s EXCEPT ![t] = "Settled"], d)
<1> DEFINE k == Key(t)
           m == [n EXCEPT ![t.buyer] = @ + h[k].amount]
           g == [h EXCEPT ![k].amount = 0]
           c == [b EXCEPT ![t.buyer] = @ - Price(t), ![t.seller] = @ + Price(t)]
           z == [s EXCEPT ![t] = "Settled"]
<1>1. /\ BooksTyped(n, h, b, r, s, d) /\ b[Contract] = 0
      /\ HbarExplained(b, r, s) /\ NovaExplained(n, h, r, s)
  BY DEF Explained
<1>2. /\ n \in [Accounts -> Int] /\ h \in [Keys -> Holds \cup {NoHold}]
      /\ b \in [Accounts \cup {Contract} -> Int]
      /\ r \subseteq Terms /\ IsFiniteSet(r) /\ s \in [r -> States]
  BY <1>1 DEF BooksTyped
<1>3. /\ PriceOf[t] = Price(t) /\ Price(t) \in Int
      /\ AmountOf[t] = t.amount /\ t.amount \in Int
  BY <1>2, ValuesAreIntegers DEF PriceOf, AmountOf
<1>4. k \in Keys /\ k[1] = t.seller /\ h[k].amount = t.amount
  BY <1>2, KeyType DEF Key
<1>5. /\ m \in [Accounts -> Int]
      /\ \A a \in Accounts : m[a] = n[a] + (IF t.buyer = a THEN t.amount ELSE 0)
  BY <1>2, <1>3, <1>4
<1>6. /\ g \in [Keys -> Holds \cup {NoHold}]
      /\ \A a : SumUp(HoldsOf(a), HeldOf(g))
                   = SumUp(HoldsOf(a), HeldOf(h)) - (IF t.seller = a THEN t.amount ELSE 0)
  <2> HIDE DEF k
  <2>1. /\ g \in [Keys -> Holds \cup {NoHold}]
        /\ \A a : SumUp(HoldsOf(a), HeldOf(g))
                     = SumUp(HoldsOf(a), HeldOf(h)) - (IF k[1] = a THEN h[k].amount ELSE 0)
    BY <1>2, <1>4, EmptiedSums
  <2> HIDE DEF g
  <2> QED BY <1>4, <2>1
<1>7. /\ c \in [Accounts \cup {Contract} -> Int]
      /\ c[Contract] = 0
      /\ \A a \in Accounts : c[a] = b[a] - (IF t.buyer = a THEN Price(t) ELSE 0)
                                         + (IF t.seller = a THEN Price(t) ELSE 0)
  <2>1. PICK p \in Int : p = Price(t)
    BY <1>3
  <2>2. t.seller # Contract /\ t.buyer # Contract
    BY AccountsAssumption
  <2>3. c = [b EXCEPT ![t.buyer] = @ - p, ![t.seller] = @ + p]
    BY <2>1
  <2> HIDE DEF c
  <2>4. /\ c \in [Accounts \cup {Contract} -> Int]
        /\ c[Contract] = 0
        /\ \A a \in Accounts : c[a] = b[a] - (IF t.buyer = a THEN p ELSE 0)
                                           + (IF t.seller = a THEN p ELSE 0)
    BY <1>1, <1>2, <2>2, <2>3
  <2> QED BY <2>1, <2>4
<1>8. z \in [r -> States]
  BY <1>2 DEF States
<1>9. ASSUME NEW a
      PROVE  /\ SumUp(SoldOf(r, z, a), PriceOf)
                   = SumUp(SoldOf(r, s, a), PriceOf) + (IF t.seller = a THEN Price(t) ELSE 0)
             /\ SumUp(BoughtOf(r, z, a), PriceOf)
                   = SumUp(BoughtOf(r, s, a), PriceOf) + (IF t.buyer = a THEN Price(t) ELSE 0)
             /\ SumUp(SoldOf(r, z, a), AmountOf)
                   = SumUp(SoldOf(r, s, a), AmountOf) + (IF t.seller = a THEN t.amount ELSE 0)
             /\ SumUp(BoughtOf(r, z, a), AmountOf)
                   = SumUp(BoughtOf(r, s, a), AmountOf) + (IF t.buyer = a THEN t.amount ELSE 0)
  <2>1. Settles(r, s, z, t)
    BY <1>2 DEF Settles
  <2> HIDE DEF z
  <2>2. /\ SumUp(SoldOf(r, z, a), PriceOf)
              = SumUp(SoldOf(r, s, a), PriceOf) + (IF t.seller = a THEN PriceOf[t] ELSE 0)
        /\ SumUp(BoughtOf(r, z, a), PriceOf)
              = SumUp(BoughtOf(r, s, a), PriceOf) + (IF t.buyer = a THEN PriceOf[t] ELSE 0)
    BY <1>2, <2>1, SettledAdds
  <2>3. /\ SumUp(SoldOf(r, z, a), AmountOf)
              = SumUp(SoldOf(r, s, a), AmountOf) + (IF t.seller = a THEN AmountOf[t] ELSE 0)
        /\ SumUp(BoughtOf(r, z, a), AmountOf)
              = SumUp(BoughtOf(r, s, a), AmountOf) + (IF t.buyer = a THEN AmountOf[t] ELSE 0)
    BY <1>2, <2>1, SettledAdds
  <2> QED BY <1>3, <2>2, <2>3
<1> HIDE DEF k, m, g, c, z
<1>10. HbarExplained(c, r, z)
  <2> SUFFICES ASSUME NEW a \in Accounts
               PROVE  c[a] + SumUp(BoughtOf(r, z, a), PriceOf)
                         = InitialHbar[a] + SumUp(SoldOf(r, z, a), PriceOf)
    BY DEF HbarExplained
  <2>1. b[a] + SumUp(BoughtOf(r, s, a), PriceOf)
           = InitialHbar[a] + SumUp(SoldOf(r, s, a), PriceOf)
    BY <1>1 DEF HbarExplained
  <2>2. /\ SumUp(BoughtOf(r, s, a), PriceOf) \in Int /\ SumUp(SoldOf(r, s, a), PriceOf) \in Int
        /\ b[a] \in Int /\ InitialHbar[a] \in Int
    BY <1>2, DealSums, NumbersAssumption
  <2>3. c[a] = b[a] - (IF t.buyer = a THEN Price(t) ELSE 0)
                    + (IF t.seller = a THEN Price(t) ELSE 0)
    BY <1>7
  <2> QED BY <1>3, <1>9, <2>1, <2>2, <2>3
<1>11. NovaExplained(m, g, r, z)
  <2> SUFFICES ASSUME NEW a \in Accounts
               PROVE  m[a] + SumUp(HoldsOf(a), HeldOf(g)) + SumUp(SoldOf(r, z, a), AmountOf)
                         = InitialNova[a] + SumUp(BoughtOf(r, z, a), AmountOf)
    BY DEF NovaExplained
  <2>1. n[a] + SumUp(HoldsOf(a), HeldOf(h)) + SumUp(SoldOf(r, s, a), AmountOf)
           = InitialNova[a] + SumUp(BoughtOf(r, s, a), AmountOf)
    BY <1>1 DEF NovaExplained
  <2>2. /\ SumUp(BoughtOf(r, s, a), AmountOf) \in Int /\ SumUp(SoldOf(r, s, a), AmountOf) \in Int
        /\ SumUp(HoldsOf(a), HeldOf(h)) \in Int
        /\ n[a] \in Int /\ InitialNova[a] \in Int
    BY <1>2, DealSums, HeldSum, NumbersAssumption
  <2>3. m[a] = n[a] + (IF t.buyer = a THEN t.amount ELSE 0)
    BY <1>5
  <2>4. SumUp(HoldsOf(a), HeldOf(g))
           = SumUp(HoldsOf(a), HeldOf(h)) - (IF t.seller = a THEN t.amount ELSE 0)
    BY <1>6
  <2> QED BY <1>3, <1>9, <2>1, <2>2, <2>3, <2>4
<1>12. BooksTyped(m, g, c, r, z, d)
  BY <1>1, <1>5, <1>6, <1>7, <1>8 DEF BooksTyped
<1>13. Explained(m, g, c, r, z, d)
  BY <1>7, <1>10, <1>11, <1>12 DEF Explained
<1> QED BY <1>13 DEF k, m, g, c, z

-----------------------------------------------------------------------------
(***************************************************************************)
(* What Atomic sees is explained, and every step of Atomic keeps it so.    *)
(***************************************************************************)
SeenNova == IF call = Idle THEN nova ELSE saved.nova
SeenHolds == IF call = Idle THEN holds ELSE saved.holds
SeenHbar == IF call = Idle THEN hbar ELSE saved.hbar
SeenState == IF call = Idle THEN state ELSE saved.state

SeenExplained ==
    Explained(SeenNova, SeenHolds, SeenHbar, registered, SeenState, matchDigest)

(* The constructor: no deal, no Hold, and everybody has what there was.    *)
LEMMA InitialExplained == CallInit => SeenExplained
<1> SUFFICES ASSUME CallInit PROVE SeenExplained
  OBVIOUS
<1>1. /\ SeenNova = InitialNova
      /\ SeenHolds = [k \in Keys |-> NoHold]
      /\ SeenHbar = [a \in Accounts \cup {Contract} |-> IF a = Contract THEN 0 ELSE InitialHbar[a]]
      /\ registered = {}
      /\ SeenState = [t \in {} |-> "Unregistered"]
      /\ matchDigest = [m \in Matches |-> NoTerms]
  BY DEF CallInit, Init, SeenNova, SeenHolds, SeenHbar, SeenState
<1>2. PICK n, h, b, s : n = SeenNova /\ h = SeenHolds /\ b = SeenHbar /\ s = SeenState
  OBVIOUS
<1>3. BooksTyped(n, h, b, {}, s, matchDigest)
  <2>1. n \in [Accounts -> Int]
    BY <1>1, <1>2, NumbersAssumption
  <2>2. b \in [Accounts \cup {Contract} -> Int]
    BY <1>1, <1>2, NumbersAssumption
  <2>3. IsFiniteSet({})
    BY FS_EmptySet
  <2> QED BY <1>1, <1>2, <2>1, <2>2, <2>3 DEF BooksTyped
<1>4. b[Contract] = 0 /\ \A a \in Accounts : b[a] = InitialHbar[a]
  BY <1>1, <1>2, AccountsAssumption
<1>5. \A a : SoldOf({}, s, a) = {} /\ BoughtOf({}, s, a) = {}
  BY DEF SoldOf, BoughtOf
<1>6. SumUp({}, PriceOf) = 0 /\ SumUp({}, AmountOf) = 0
  BY SumOfNone
<1>7. \A a : SumUp(HoldsOf(a), HeldOf(h)) = 0
  <2> TAKE a
  <2>1. \A k \in Keys : h[k].amount = 0
    BY <1>1, <1>2 DEF NoHold
  <2>2. \A k \in HoldsOf(a) : HeldOf(h)[k] = 0
    BY <2>1 DEF HoldsOf, HeldOf
  <2> QED BY <2>2, FewHolds, SumOfZeros
<1>8. \A a \in Accounts : InitialHbar[a] \in Int /\ InitialNova[a] \in Int
  BY NumbersAssumption
<1>9. HbarExplained(b, {}, s)
  BY <1>4, <1>5, <1>6, <1>8 DEF HbarExplained
<1>10. NovaExplained(n, h, {}, s)
  <2>1. \A a \in Accounts : n[a] = InitialNova[a]
    BY <1>1, <1>2
  <2>2. \A a : /\ SumUp(SoldOf({}, s, a), AmountOf) = 0
              /\ SumUp(BoughtOf({}, s, a), AmountOf) = 0
    BY <1>5, <1>6
  <2> QED BY <1>7, <1>8, <2>1, <2>2 DEF NovaExplained
<1> QED BY <1>1, <1>2, <1>3, <1>4, <1>9, <1>10 DEF SeenExplained, Explained

LEMMA TokenExplained ==
  ASSUME SeenExplained, Atomic!TokenStep
  PROVE  SeenExplained'
<1>1. PICK n, h, b, s : n = SeenNova /\ h = SeenHolds /\ b = SeenHbar /\ s = SeenState
  OBVIOUS
<1>2. PICK r, d : r = registered /\ d = matchDigest
  OBVIOUS
<1>3. Explained(n, h, b, r, s, d)
  BY <1>1, <1>2 DEF SeenExplained
<1>4. CASE \E a \in Accounts, id \in HoldIds, new \in NewHolds : Atomic!CreateHold(a, id, new)
  <2>1. PICK a \in Accounts, id \in HoldIds, new \in NewHolds : Atomic!CreateHold(a, id, new)
    BY <1>4
  <2>2. PICK k : k = <<a, id>>
    OBVIOUS
  <2>3. k \in Keys /\ k[1] = a /\ new \in Holds
    BY <2>2, InputsAssumption DEF Keys
  <2>4. /\ h[k] = NoHold
        /\ SeenNova' = [n EXCEPT ![k[1]] = @ - new.amount]
        /\ SeenHolds' = [h EXCEPT ![k] = new]
        /\ SeenHbar' = b /\ SeenState' = s
        /\ registered' = r /\ matchDigest' = d
    BY <1>1, <1>2, <2>1, <2>2, <2>3
    DEF Atomic!CreateHold, Atomic!CanCreate, Atomic!NoHold, NoHold,
        SeenNova, SeenHolds, SeenHbar, SeenState
  <2>5. Explained([n EXCEPT ![k[1]] = @ - new.amount], [h EXCEPT ![k] = new], b, r, s, d)
    BY <1>3, <2>3, <2>4, CreateExplained
  <2> QED BY <2>4, <2>5 DEF SeenExplained
<1>5. CASE \E k \in Keys : Atomic!ReclaimAtAts(k)
  <2>1. PICK k \in Keys : Atomic!ReclaimAtAts(k)
    BY <1>5
  <2>2. /\ SeenNova' = [n EXCEPT ![k[1]] = @ + h[k].amount]
        /\ SeenHolds' = [h EXCEPT ![k].amount = 0]
        /\ SeenHbar' = b /\ SeenState' = s
        /\ registered' = r /\ matchDigest' = d
    BY <1>1, <1>2, <2>1
    DEF Atomic!ReclaimAtAts, Atomic!EmptyHold, SeenNova, SeenHolds, SeenHbar, SeenState
  <2>3. Explained([n EXCEPT ![k[1]] = @ + h[k].amount], [h EXCEPT ![k].amount = 0], b, r, s, d)
    BY <1>3, ReturnExplained
  <2> QED BY <2>2, <2>3 DEF SeenExplained
<1> QED BY <1>4, <1>5 DEF Atomic!TokenStep, Atomic!Keys, Keys

LEMMA ContractExplained ==
  ASSUME SeenExplained, Atomic!ContractStep
  PROVE  SeenExplained'
<1>1. PICK n, h, b, s : n = SeenNova /\ h = SeenHolds /\ b = SeenHbar /\ s = SeenState
  OBVIOUS
<1>2. PICK r, d : r = registered /\ d = matchDigest
  OBVIOUS
<1>3. Explained(n, h, b, r, s, d)
  BY <1>1, <1>2 DEF SeenExplained
<1>4. r \subseteq Terms /\ s \in [r -> States]
  BY <1>3 DEF Explained, BooksTyped
<1>5. \A t \in r : t.buyer \in Accounts /\ t.seller \in Accounts /\ Key(t) \in Keys /\ Key(t)[1] = t.seller
  BY <1>4, KeyType DEF Terms, Key
<1>6. CASE \E t \in Offers, sender \in Accounts : Atomic!Register(t, sender)
  <2>1. PICK t \in Offers, sender \in Accounts : Atomic!Register(t, sender)
    BY <1>6
  <2>2. t \in Terms
    BY InputsAssumption
  <2>3. PICK q, z, e :
           /\ d[t.match] = NoTerms
           /\ SeenNova' = n /\ SeenHolds' = h /\ SeenHbar' = b
           /\ registered' = q /\ SeenState' = z /\ matchDigest' = e
           /\ q = r \cup {t}
           /\ z = [u \in q |-> IF u = t THEN "Ready" ELSE s[u]]
           /\ e = [d EXCEPT ![t.match] = t]
    BY <1>1, <1>2, <2>1
    DEF Atomic!Register, Atomic!CanRegister, SeenNova, SeenHolds, SeenHbar, SeenState
  <2>4. Explained(n, h, b, q, z, e)
    BY <1>3, <2>2, <2>3, RegisterExplained
  <2> QED BY <2>3, <2>4 DEF SeenExplained
<1>7. CASE \E t \in registered, sender \in Accounts, value \in Values :
              Atomic!Settle(t, sender, value)
  <2>1. PICK t \in r, sender \in Accounts, value \in Values : Atomic!Settle(t, sender, value)
    BY <1>2, <1>7
  <2>2. /\ s[t] = "Ready" /\ sender = t.buyer /\ value = Price(t)
        /\ h[Key(t)].amount = t.amount
    BY <1>1, <2>1
    DEF Atomic!Settle, Atomic!CanSettle, Atomic!IsReady, Atomic!CheckHold, Atomic!Price, Price,
        Atomic!Key, Key, SeenHolds, SeenState
  <2>3. /\ SeenNova' = [n EXCEPT ![t.buyer] = @ + h[Key(t)].amount]
        /\ SeenHolds' = [h EXCEPT ![Key(t)].amount = 0]
        /\ SeenHbar' = [b EXCEPT ![sender] = @ - value, ![t.seller] = @ + value]
        /\ SeenState' = [s EXCEPT ![t] = "Settled"]
        /\ registered' = r /\ matchDigest' = d
    BY <1>1, <1>2, <2>1
    DEF Atomic!Settle, Atomic!EmptyHold, Atomic!Key, Key, SeenNova, SeenHolds, SeenHbar, SeenState
  <2>4. SeenHbar' = [b EXCEPT ![t.buyer] = @ - Price(t), ![t.seller] = @ + Price(t)]
    BY <2>2, <2>3
  <2>5. s[t] # "Settled"
    BY <2>2
  <2>6. Explained([n EXCEPT ![t.buyer] = @ + h[Key(t)].amount],
                  [h EXCEPT ![Key(t)].amount = 0],
                  [b EXCEPT ![t.buyer] = @ - Price(t), ![t.seller] = @ + Price(t)],
                  r, [s EXCEPT ![t] = "Settled"], d)
    BY <1>3, <1>5, <2>2, <2>5, SettleExplained
  <2> QED BY <2>3, <2>4, <2>6 DEF SeenExplained
<1>8. CASE \E t \in registered, sender \in Accounts : Atomic!Cancel(t, sender) \/ Atomic!Reclaim(t, sender)
  <2>1. PICK t \in r, sender \in Accounts : Atomic!Cancel(t, sender) \/ Atomic!Reclaim(t, sender)
    BY <1>2, <1>8
  <2>2. PICK k \in Keys : k = Key(t) /\ k[1] = t.seller
    BY <1>5
  <2>3. PICK x \in {"Cancelled", "Reclaimed"} :
           /\ s[t] = "Ready"
           /\ SeenNova' = [n EXCEPT ![k[1]] = @ + h[k].amount]
           /\ SeenHolds' = [h EXCEPT ![k].amount = 0]
           /\ SeenHbar' = b
           /\ SeenState' = [s EXCEPT ![t] = x]
           /\ registered' = r /\ matchDigest' = d
    <3>1. CASE Atomic!Cancel(t, sender)
      BY <1>1, <1>2, <2>2, <3>1
      DEF Atomic!Cancel, Atomic!CanReturn, Atomic!IsReady, Atomic!EmptyHold, Atomic!Key, Key,
          SeenNova, SeenHolds, SeenHbar, SeenState
    <3>2. CASE Atomic!Reclaim(t, sender)
      BY <1>1, <1>2, <2>2, <3>2
      DEF Atomic!Reclaim, Atomic!CanReturn, Atomic!IsReady, Atomic!EmptyHold, Atomic!Key, Key,
          SeenNova, SeenHolds, SeenHbar, SeenState
    <3> QED BY <2>1, <3>1, <3>2
  <2>4. s[t] # "Settled" /\ x \in States /\ x # "Settled"
    BY <2>3 DEF States
  <2>5. PICK m, g : m = [n EXCEPT ![k[1]] = @ + h[k].amount] /\ g = [h EXCEPT ![k].amount = 0]
    OBVIOUS
  <2>6. Explained(m, g, b, r, s, d)
    BY <1>3, <2>5, ReturnExplained
  <2>7. Explained(m, g, b, r, [s EXCEPT ![t] = x], d)
    BY <2>4, <2>6, CloseExplained
  <2> QED BY <2>3, <2>5, <2>7 DEF SeenExplained
<1>9. CASE \E sender \in Accounts, id \in HoldIds : Atomic!RecoverOrphan(sender, id)
  <2>1. PICK sender \in Accounts, id \in HoldIds : Atomic!RecoverOrphan(sender, id)
    BY <1>9
  <2>2. PICK k : k = <<sender, id>>
    OBVIOUS
  <2>3. k \in Keys /\ k[1] = sender
    BY <2>2 DEF Keys
  <2>4. /\ SeenNova' = [n EXCEPT ![k[1]] = @ + h[k].amount]
        /\ SeenHolds' = [h EXCEPT ![k].amount = 0]
        /\ SeenHbar' = b /\ SeenState' = s
        /\ registered' = r /\ matchDigest' = d
    BY <1>1, <1>2, <2>1, <2>2, <2>3
    DEF Atomic!RecoverOrphan, Atomic!EmptyHold, SeenNova, SeenHolds, SeenHbar, SeenState
  <2>5. Explained([n EXCEPT ![k[1]] = @ + h[k].amount], [h EXCEPT ![k].amount = 0], b, r, s, d)
    BY <1>3, <2>3, ReturnExplained
  <2> QED BY <2>4, <2>5 DEF SeenExplained
<1> QED BY <1>6, <1>7, <1>8, <1>9 DEF Atomic!ContractStep

LEMMA ExplainedStep ==
  ASSUME SeenExplained, [Atomic!Next]_(Atomic!vars)
  PROVE  SeenExplained'
<1>1. CASE Atomic!Advance \/ UNCHANGED Atomic!vars
  <2>1. /\ SeenNova' = SeenNova /\ SeenHolds' = SeenHolds /\ SeenHbar' = SeenHbar
        /\ SeenState' = SeenState /\ registered' = registered /\ matchDigest' = matchDigest
    BY <1>1 DEF Atomic!Advance, Atomic!chain, Atomic!vars, SeenNova, SeenHolds, SeenHbar, SeenState
  <2> QED BY <2>1 DEF SeenExplained
<1> QED BY <1>1, TokenExplained, ContractExplained DEF Atomic!Next

(* Between calls what is seen is what there is, and its sums are those of  *)
(* the property.                                                           *)
LEMMA SumOfOperator ==
  ASSUME NEW S, IsFiniteSet(S)
  PROVE  /\ S \subseteq Terms => /\ SumOver(S, Price) = SumUp(S, PriceOf)
                                 /\ SumOver(S, Amount) = SumUp(S, AmountOf)
         /\ S \subseteq Keys => SumOver(S, HeldAmount) = SumUp(S, HeldOf(holds))
<1> DEFINE PriceSums(f) == f = [T \in SUBSET S |->
                                  IF T = {} THEN 0 ELSE Price(Pick(T)) + f[T \ {Pick(T)}]]
           AmountSums(f) == f = [T \in SUBSET S |->
                                  IF T = {} THEN 0 ELSE Amount(Pick(T)) + f[T \ {Pick(T)}]]
           HeldSums(f) == f = [T \in SUBSET S |->
                                  IF T = {} THEN 0 ELSE HeldAmount(Pick(T)) + f[T \ {Pick(T)}]]
<1>1. /\ SumOver(S, Price) = (CHOOSE f : PriceSums(f))[S]
      /\ SumOver(S, Amount) = (CHOOSE f : AmountSums(f))[S]
      /\ SumOver(S, HeldAmount) = (CHOOSE f : HeldSums(f))[S]
  BY DEF SumOver, MapThenSumSet, MapThenFoldSet, Pick
<1>2. \A T \in SUBSET S : T # {} => Pick(T) \in S
  BY DEF Pick
<1>3. ASSUME S \subseteq Terms, NEW f PROVE PriceSums(f) <=> IsSums(S, PriceOf, f)
  <2>1. \A T \in SUBSET S : T # {} => Price(Pick(T)) = PriceOf[Pick(T)]
    BY <1>2, <1>3 DEF PriceOf
  <2> QED BY <2>1 DEF IsSums
<1>4. ASSUME S \subseteq Terms, NEW f PROVE AmountSums(f) <=> IsSums(S, AmountOf, f)
  <2>1. \A T \in SUBSET S : T # {} => Amount(Pick(T)) = AmountOf[Pick(T)]
    BY <1>2, <1>4 DEF AmountOf, Amount
  <2> QED BY <2>1 DEF IsSums
<1>5. ASSUME S \subseteq Keys, NEW f PROVE HeldSums(f) <=> IsSums(S, HeldOf(holds), f)
  <2>1. \A T \in SUBSET S : T # {} => HeldAmount(Pick(T)) = HeldOf(holds)[Pick(T)]
    BY <1>2, <1>5 DEF HeldOf, HeldAmount
  <2> QED BY <2>1 DEF IsSums
<1>6. ASSUME NEW v, NEW f, NEW g, IsSums(S, v, f), IsSums(S, v, g) PROVE f[S] = g[S]
  <2>1. \A T \in SUBSET S : f[T] = g[T]
    BY <1>6, SumsAgree, Z3
  <2> QED BY <2>1
<1> HIDE DEF PriceSums, AmountSums, HeldSums
<1>7. ASSUME S \subseteq Terms PROVE SumOver(S, Price) = SumUp(S, PriceOf)
  <2>1. IsSums(S, PriceOf, CHOOSE f : PriceSums(f))
    BY <1>3, <1>7, SumsExist
  <2>2. IsSums(S, PriceOf, CHOOSE f : IsSums(S, PriceOf, f))
    BY SumsExist
  <2> QED BY <1>1, <1>6, <2>1, <2>2, SumIs
<1>8. ASSUME S \subseteq Terms PROVE SumOver(S, Amount) = SumUp(S, AmountOf)
  <2>1. IsSums(S, AmountOf, CHOOSE f : AmountSums(f))
    BY <1>4, <1>8, SumsExist
  <2>2. IsSums(S, AmountOf, CHOOSE f : IsSums(S, AmountOf, f))
    BY SumsExist
  <2> QED BY <1>1, <1>6, <2>1, <2>2, SumIs
<1>9. ASSUME S \subseteq Keys PROVE SumOver(S, HeldAmount) = SumUp(S, HeldOf(holds))
  <2>1. IsSums(S, HeldOf(holds), CHOOSE f : HeldSums(f))
    BY <1>5, <1>9, SumsExist
  <2>2. IsSums(S, HeldOf(holds), CHOOSE f : IsSums(S, HeldOf(holds), f))
    BY SumsExist
  <2> QED BY <1>1, <1>6, <2>1, <2>2, SumIs
<1> QED BY <1>7, <1>8, <1>9

LEMMA ExplainedIsProperty == SeenExplained => BalancesExplained
<1> SUFFICES ASSUME SeenExplained, call = Idle
             PROVE  /\ hbar[Contract] = 0
                    /\ \A a \in Accounts :
                          /\ hbar[a] + SumOver(Bought(a), Price)
                                = InitialHbar[a] + SumOver(Sold(a), Price)
                          /\ nova[a] + SumOver({k \in Keys : k[1] = a}, HeldAmount)
                                     + SumOver(Sold(a), Amount)
                                = InitialNova[a] + SumOver(Bought(a), Amount)
  BY DEF BalancesExplained
<1>1. Explained(nova, holds, hbar, registered, state, matchDigest)
  BY DEF SeenExplained, SeenNova, SeenHolds, SeenHbar, SeenState
<1>2. registered \subseteq Terms /\ IsFiniteSet(registered)
  BY <1>1 DEF Explained, BooksTyped
<1>3. ASSUME NEW a \in Accounts
      PROVE  /\ hbar[a] + SumOver(Bought(a), Price) = InitialHbar[a] + SumOver(Sold(a), Price)
             /\ nova[a] + SumOver({k \in Keys : k[1] = a}, HeldAmount) + SumOver(Sold(a), Amount)
                   = InitialNova[a] + SumOver(Bought(a), Amount)
  <2>1. /\ Sold(a) = SoldOf(registered, state, a) /\ Bought(a) = BoughtOf(registered, state, a)
        /\ {k \in Keys : k[1] = a} = HoldsOf(a)
    BY DEF Sold, SoldOf, Bought, BoughtOf, HoldsOf
  <2>2. /\ IsFiniteSet(Sold(a)) /\ Sold(a) \subseteq Terms
        /\ IsFiniteSet(Bought(a)) /\ Bought(a) \subseteq Terms
        /\ IsFiniteSet(HoldsOf(a)) /\ HoldsOf(a) \subseteq Keys
    <3>1. Sold(a) \subseteq Terms /\ Bought(a) \subseteq Terms /\ HoldsOf(a) \subseteq Keys
      BY <1>2 DEF Sold, Bought, HoldsOf
    <3> QED BY <1>2, <2>1, <3>1, FewDeals, FewHolds
  <2>3. /\ SumOver(Sold(a), Price) = SumUp(Sold(a), PriceOf)
        /\ SumOver(Sold(a), Amount) = SumUp(Sold(a), AmountOf)
    BY <2>2, SumOfOperator
  <2>4. /\ SumOver(Bought(a), Price) = SumUp(Bought(a), PriceOf)
        /\ SumOver(Bought(a), Amount) = SumUp(Bought(a), AmountOf)
    BY <2>2, SumOfOperator
  <2>5. SumOver({k \in Keys : k[1] = a}, HeldAmount) = SumUp(HoldsOf(a), HeldOf(holds))
    BY <2>1, <2>2, SumOfOperator
  <2>6. hbar[a] + SumUp(Bought(a), PriceOf) = InitialHbar[a] + SumUp(Sold(a), PriceOf)
    BY <1>1, <2>1 DEF Explained, HbarExplained
  <2>7. nova[a] + SumUp(HoldsOf(a), HeldOf(holds)) + SumUp(Sold(a), AmountOf)
           = InitialNova[a] + SumUp(Bought(a), AmountOf)
    BY <1>1, <2>1 DEF Explained, NovaExplained
  <2> QED BY <2>3, <2>4, <2>5, <2>6, <2>7
<1>4. hbar[Contract] = 0
  BY <1>1 DEF Explained
<1> QED BY <1>3, <1>4

(* Delivery versus payment: between calls, what each account has in NOVA   *)
(* and HBAR differs from what it started with by the settled deals that it *)
(* bought and sold, and the contract keeps nothing, whatever failed.       *)
THEOREM BalancesAreExplained == CallSpec => []BalancesExplained
<1>1. CallInvariant /\ SeenExplained /\ [CallNext]_callVars => SeenExplained'
  BY StepRefines, ExplainedStep
<1> QED BY <1>1, InitialExplained, CallsAreGuarded, ExplainedIsProperty, PTL DEF CallSpec

-----------------------------------------------------------------------------
TermsRows ==
    [match : Matches, seller : Traders, buyer : Traders, amount : Amounts,
     price : Prices, preparedAt : Int, expiry : Int, hold : Int]

Settlements ==
    {NoSettlement} \cup [status : SettlementStatuses \ {"none"}, terms : TermsRows]

Operations ==
    [match : Matches, action : Actions, terms : TermsRows, sender : Traders,
     status : {"prepared", "pending", "verified", "reverted"}, hash : Nat]

Transactions ==
    [action : Actions, terms : TermsRows, sender : Traders,
     status : {"sent", "success", "reverted"}, block : Int, hold : Int, proof : BOOLEAN]

StoreTypes ==
    /\ time \in Int
    /\ settlements \in [Matches -> Settlements]
    /\ ops \in Seq(Operations)
    /\ txs \in Seq(Transactions)

(***************************************************************************)
(* One operation holds the slot, and while it does its match stays where   *)
(* its preparation found it.                                               *)
(***************************************************************************)
OneUnresolved ==
    \A i, j \in DOMAIN ops : Unresolved(ops[i]) /\ Unresolved(ops[j]) => i = j

SlotKeepsMatch ==
    \A i \in DOMAIN ops :
       Unresolved(ops[i]) => settlements[ops[i].match].status = AllowedFrom[ops[i].action]

HoldUnknown == \A m \in Matches : settlements[m].status = "Unprepared" => settlements[m].terms.hold = 0

(* A hash is of a transaction of the operation's action, and a lock that   *)
(* succeeded made a Hold.                                                  *)
HashesFit ==
    \A i \in DOMAIN ops :
       /\ ops[i].hash = NoHash => ops[i].status = "prepared"
       /\ ops[i].status = "pending" =>
             ops[i].hash \in DOMAIN txs /\ txs[ops[i].hash].action = ops[i].action

LocksMadeHolds ==
    \A j \in DOMAIN txs :
       txs[j].action = "lock" /\ txs[j].status = "success" => txs[j].hold # 0

Protocol ==
    /\ StoreTypes
    /\ OneUnresolved
    /\ SlotKeepsMatch
    /\ HoldUnknown
    /\ HashesFit
    /\ LocksMadeHolds

-----------------------------------------------------------------------------
LEMMA InitProtocol == StoreInit => Protocol
<1> SUFFICES ASSUME StoreInit PROVE Protocol
  OBVIOUS
<1>1. StoreTypes
  BY DEF StoreInit, Init, StoreTypes, Settlements
<1>2. ops = <<>> /\ txs = <<>> /\ DOMAIN ops = {} /\ DOMAIN txs = {}
  BY DEF StoreInit
<1>3. HoldUnknown
  BY DEF StoreInit, HoldUnknown, NoSettlement
<1> QED
  BY <1>1, <1>2, <1>3 DEF Protocol, OneUnresolved, SlotKeepsMatch, HashesFit, LocksMadeHolds

LEMMA PreparePreserves ==
    ASSUME Protocol, NEW m \in Matches, NEW action \in Actions, NEW chainTime \in Int,
           PrepareSettlement(m, action, chainTime)
    PROVE  Protocol' /\ OneWayStep
<1> DEFINE old == settlements[m]
           first == [status |-> "Unprepared", terms |-> FirstTerms(m, chainTime)]
           v == IF old = NoSettlement /\ action = "lock" THEN first ELSE old
           o == [match |-> m, action |-> action, terms |-> v.terms,
                 sender |-> Sender(action, v.terms), status |-> "prepared", hash |-> NoHash]
<1>1. /\ SlotFree
      /\ v.status = AllowedFrom[action]
      /\ settlements' = [settlements EXCEPT ![m] = v]
      /\ ops' = Append(ops, o)
      /\ UNCHANGED <<time, txs>>
  BY DEF PrepareSettlement, vars
<1>2. first \in [status : SettlementStatuses \ {"none"}, terms : TermsRows]
  BY MatchTermsAssumption, NumbersAssumption DEF FirstTerms, TermsRows, SettlementStatuses
<1>3. v \in [status : SettlementStatuses \ {"none"}, terms : TermsRows]
  <2>1. AllowedFrom[action] # "none"
    BY DEF AllowedFrom, Actions
  <2>2. old \in Settlements
    BY DEF Protocol, StoreTypes
  <2> QED
    BY <1>1, <1>2, <2>1, <2>2 DEF Settlements, NoSettlement
<1>4. o \in Operations
  BY <1>3 DEF Operations, Sender, NoHash, TermsRows
<1>5. /\ ops' \in Seq(Operations)
      /\ DOMAIN ops' = DOMAIN ops \cup {Len(ops) + 1}
      /\ Len(ops) + 1 \notin DOMAIN ops
      /\ \A i \in DOMAIN ops : ops'[i] = ops[i]
      /\ ops'[Len(ops) + 1] = o
  BY <1>1, <1>4, AppendProperties DEF Protocol, StoreTypes
<1>6. StoreTypes'
  BY <1>1, <1>3, <1>5 DEF Protocol, StoreTypes, Settlements
<1>7. settlements' \in [Matches -> Settlements] /\ settlements'[m] = v
      /\ \A n \in Matches \ {m} : settlements'[n] = settlements[n]
  BY <1>1, <1>6 DEF Protocol, StoreTypes
<1>8. \A i \in DOMAIN ops : ~Unresolved(ops[i])
  BY <1>1 DEF SlotFree
<1>9. OneUnresolved' /\ SlotKeepsMatch'
  <2>1. \A i \in DOMAIN ops' : Unresolved(ops'[i]) => i = Len(ops) + 1
    BY <1>5, <1>8
  <2>2. SlotKeepsMatch'
    BY <1>1, <1>5, <1>7, <2>1 DEF SlotKeepsMatch, Unresolved
  <2> QED
    BY <2>1, <2>2 DEF OneUnresolved, Unresolved
<1>10. HoldUnknown'
  <2>1. first.terms.hold = 0
    BY DEF FirstTerms
  <2> QED
    BY <1>7, <2>1 DEF Protocol, HoldUnknown
<1>11. HashesFit'
  BY <1>1, <1>5 DEF Protocol, HashesFit
<1>12. LocksMadeHolds'
  BY <1>1 DEF Protocol, LocksMadeHolds
<1>13. OneWayStep
  <2> SUFFICES ASSUME NEW n \in Matches, settlements'[n] # settlements[n]
               PROVE  settlements[n].status = "none" /\ settlements'[n].status = "Unprepared"
    BY DEF OneWayStep, StatusOrder
  <2> QED
    BY <1>7 DEF NoSettlement
<1> QED
  BY <1>6, <1>9, <1>10, <1>11, <1>12, <1>13 DEF Protocol

LEMMA RecoverPreserves ==
    ASSUME Protocol, NEW i \in DOMAIN ops, Recover(i)
    PROVE  Protocol' /\ OneWayStep
<1> DEFINE o == ops[i]
           x == txs[o.hash]
           m == o.match
           v == settlements[m]
           terms == IF o.action = "lock" THEN [v.terms EXCEPT !.hold = x.hold] ELSE v.terms
           end == IF x.status = "reverted" THEN "reverted" ELSE "verified"
           w == IF x.status = "reverted" THEN v
                ELSE [status |-> StatusAfter[o.action], terms |-> terms]
<1>1. /\ o.status = "pending"
      /\ x.status # "sent"
      /\ ops' = [ops EXCEPT ![i].status = end]
      /\ settlements' = [settlements EXCEPT ![m] = w]
      /\ UNCHANGED <<time, txs>>
  BY DEF Recover, Closed, vars, Protocol, StoreTypes
<1>2. o \in Operations /\ i \in 1..Len(ops)
  BY ElementOfSeq DEF Protocol, StoreTypes
<1>3. m \in Matches /\ o.action \in Actions /\ v \in Settlements
  BY <1>2 DEF Operations, Protocol, StoreTypes
<1>4. x \in Transactions /\ x.action = o.action
  BY <1>1, ElementOfSeq DEF Protocol, HashesFit, StoreTypes
<1>5. v.status = AllowedFrom[o.action]
  BY <1>1 DEF Protocol, SlotKeepsMatch, Unresolved
<1>6. v \in [status : SettlementStatuses \ {"none"}, terms : TermsRows]
  BY <1>3, <1>5 DEF Settlements, NoSettlement, AllowedFrom, Actions
<1>7. terms \in TermsRows
  BY <1>4, <1>6 DEF Transactions, TermsRows
<1>8. w \in Settlements
  BY <1>3, <1>7 DEF StatusAfter, Actions, Settlements, SettlementStatuses
<1>9. /\ ops' \in Seq(Operations)
      /\ DOMAIN ops' = DOMAIN ops
      /\ \A j \in DOMAIN ops \ {i} : ops'[j] = ops[j]
      /\ ops'[i] = [o EXCEPT !.status = end]
  <2>1. [o EXCEPT !.status = end] \in Operations
    BY <1>2 DEF Operations
  <2> QED
    BY <1>1, <1>2, <2>1, ExceptSeq DEF Protocol, StoreTypes
<1>10. ops'[i].status = end /\ ~Unresolved(ops'[i])
  BY <1>2, <1>9 DEF Operations, Unresolved
<1>11. \A j \in DOMAIN ops \ {i} : ~Unresolved(ops[j]) /\ ops'[j] = ops[j]
  BY <1>1, <1>9 DEF Protocol, OneUnresolved, Unresolved
<1>12. \A j \in DOMAIN ops' : ~Unresolved(ops'[j])
  BY <1>9, <1>10, <1>11
<1>13. /\ settlements' \in [Matches -> Settlements]
       /\ settlements'[m] = w
       /\ \A n \in Matches \ {m} : settlements'[n] = settlements[n]
  BY <1>1, <1>3, <1>8 DEF Protocol, StoreTypes
<1>14. StoreTypes'
  BY <1>1, <1>9, <1>13 DEF Protocol, StoreTypes
<1>15. HoldUnknown'
  BY <1>13, <1>3 DEF Protocol, HoldUnknown, StatusAfter, Actions
<1>16. HashesFit' /\ LocksMadeHolds' /\ OneUnresolved' /\ SlotKeepsMatch'
  BY <1>1, <1>9, <1>12
     DEF Protocol, HashesFit, LocksMadeHolds, OneUnresolved, SlotKeepsMatch, Unresolved
<1>17. OneWayStep
  <2> SUFFICES ASSUME NEW n \in Matches, settlements'[n] # settlements[n]
               PROVE  /\ <<settlements[n].status, settlements'[n].status>> \in StatusOrder
                      /\ settlements[n].status = "Unprepared" =>
                            /\ settlements'[n].terms.hold # 0
                            /\ [settlements'[n].terms EXCEPT !.hold = 0] = settlements[n].terms
                      /\ settlements[n].status \in {"Locked", "Ready"} =>
                            settlements'[n].terms = settlements[n].terms
                      /\ settlements[n].status # "none" =>
                            \E j \in DOMAIN ops :
                               /\ ops[j].match = n
                               /\ ops[j].status = "pending"
                               /\ ops'[j].status = "verified"
    BY DEF OneWayStep
  <2>1. n = m /\ x.status # "reverted" /\ settlements'[n] = w
    BY <1>13
  <2>2. w.status = StatusAfter[o.action] /\ w.terms = terms
    BY <2>1
  <2>3. <<v.status, w.status>> \in StatusOrder
    BY <1>3, <1>5, <2>2 DEF StatusAfter, AllowedFrom, Actions, StatusOrder
  <2>4. ASSUME v.status = "Unprepared"
        PROVE  terms.hold # 0 /\ [terms EXCEPT !.hold = 0] = v.terms
    <3>1. o.action = "lock"
      BY <1>3, <1>5, <2>4 DEF AllowedFrom, Actions
    <3>2. x.status = "success"
      BY <1>1, <1>4, <2>1 DEF Transactions
    <3>3. x.hold # 0
      BY <1>1, <1>4, <3>1, <3>2 DEF Protocol, HashesFit, LocksMadeHolds
    <3>4. v.terms.hold = 0 /\ v.terms \in TermsRows
      BY <1>3, <1>6, <2>4 DEF Protocol, HoldUnknown
    <3>5. terms = [v.terms EXCEPT !.hold = x.hold]
      BY <3>1
    <3> QED
      BY <3>3, <3>4, <3>5 DEF TermsRows
  <2>5. ASSUME v.status \in {"Locked", "Ready"}
        PROVE  terms = v.terms
    BY <1>3, <1>5, <2>5 DEF AllowedFrom, Actions
  <2> QED
    BY <1>1, <1>10, <2>1, <2>2, <2>3, <2>4, <2>5
<1> QED
  BY <1>14, <1>15, <1>16, <1>17 DEF Protocol

-----------------------------------------------------------------------------
(***************************************************************************)
(* The wallets, the chain and the reports leave the settlements alone.     *)
(***************************************************************************)
LEMMA SettlementsStay ==
    ASSUME Protocol, UNCHANGED settlements
    PROVE  OneWayStep /\ HoldUnknown'
BY DEF Protocol, OneWayStep, HoldUnknown

LEMMA SendPreserves ==
    ASSUME Protocol, NEW i \in DOMAIN ops, Send(i)
    PROVE  Protocol' /\ OneWayStep
<1> DEFINE x == [action |-> ops[i].action, terms |-> ops[i].terms, sender |-> ops[i].sender,
                 status |-> "sent", block |-> 0, hold |-> 0, proof |-> FALSE]
<1>1. txs' = Append(txs, x) /\ UNCHANGED <<time, settlements, ops>>
  BY DEF Send, vars
<1>2. x \in Transactions
  <2>1. ops[i] \in Operations
    BY ElementOfSeq DEF Protocol, StoreTypes
  <2> QED
    BY <2>1 DEF Operations, Transactions
<1>3. /\ txs' \in Seq(Transactions)
      /\ DOMAIN txs' = DOMAIN txs \cup {Len(txs) + 1}
      /\ \A j \in DOMAIN txs : txs'[j] = txs[j]
      /\ txs'[Len(txs) + 1] = x
  BY <1>1, <1>2, AppendProperties DEF Protocol, StoreTypes
<1>4. StoreTypes' /\ OneUnresolved' /\ SlotKeepsMatch'
  BY <1>1, <1>3 DEF Protocol, StoreTypes, OneUnresolved, SlotKeepsMatch
<1>5. HashesFit' /\ LocksMadeHolds'
  BY <1>1, <1>3 DEF Protocol, HashesFit, LocksMadeHolds
<1> QED
  BY <1>1, <1>4, <1>5, SettlementsStay DEF Protocol

LEMMA NextHoldIsId ==
    ASSUME NEW a
    PROVE  NextHold(a) = 0 \/ NextHold(a) \in HoldIds
<1> DEFINE Free == {id \in HoldIds : holds[<<a, id>>] = NoHold}
           Less == {s \in Nat \X Nat : s[1] < s[2]}
<1>1. IsWellFoundedOn(Less, Nat)
  BY NatLessThanWellFounded DEF OpToRel
<1>2. Free \subseteq Nat
  BY NumbersAssumption
<1>3. CASE Free # {}
  <2>1. PICK least \in Free : \A y \in Free : ~(<<y, least>> \in Less)
    <3> HIDE DEF Free, Less
    <3> QED
      BY <1>1, <1>2, <1>3, WFMin
  <2>2. \A y \in Free : least =< y
    <3>1. SUFFICES ASSUME NEW y \in Free, ~(least =< y)
                   PROVE  <<y, least>> \in Less
      BY <2>1
    <3>2. y \in Nat /\ least \in Nat
      BY <1>2
    <3> QED
      BY <3>1, <3>2
  <2>3. Min(Free) \in Free
    <3> HIDE DEF Free
    <3> QED
      BY <2>2 DEF Min
  <2>4. \E id \in HoldIds : holds[<<a, id>>] = NoHold
    BY <1>3
  <2>5. NextHold(a) = Min(Free)
    BY <2>4, Zenon DEF NextHold
  <2>6. Free \subseteq HoldIds
    OBVIOUS
  <2>7. Min(Free) \in HoldIds
    BY <2>3, <2>6, Zenon
  <2> QED
    BY <2>5, <2>7
<1>4. CASE Free = {}
  <2>1. ~(\E id \in HoldIds : holds[<<a, id>>] = NoHold)
    BY <1>4
  <2>2. NextHold(a) = 0
    BY <2>1, Zenon DEF NextHold
  <2> QED
    BY <2>2
<1> QED
  BY <1>3, <1>4

LEMMA MinePreserves ==
    ASSUME Protocol, NEW j \in DOMAIN txs, Mine(j)
    PROVE  Protocol' /\ OneWayStep
<1> DEFINE x == txs[j]
<1>1. UNCHANGED <<settlements, ops>> /\ x.status = "sent"
  BY DEF Mine
<1>2. x \in Transactions /\ j \in 1..Len(txs)
  BY ElementOfSeq DEF Protocol, StoreTypes
<1> DEFINE Mined(status, hold) ==
             txs' = [txs EXCEPT ![j].status = status, ![j].block = time, ![j].hold = hold]
<1>3. PICK status \in {"success", "reverted"}, hold \in Int :
         /\ Mined(status, hold)
         /\ x.action = "lock" /\ status = "success" => hold # 0
         /\ UNCHANGED time
  <2> DEFINE made == IF x.action = "lock" THEN NextHold(x.terms.seller) ELSE 0
  <2>1. made \in Int
    <3>1. NextHold(x.terms.seller) \in HoldIds \cup {0}
      BY NextHoldIsId
    <3>2. \A id \in HoldIds \cup {0} : id \in Int
      BY NumbersAssumption
    <3> QED
      BY <3>1, <3>2
  <2>2. \/ Succeeds(x) /\ Mined("success", made)
        \/ Mined("reverted", 0) /\ UNCHANGED vars
    BY DEF Mine
  <2>3. ASSUME Succeeds(x)
        PROVE  UNCHANGED time /\ (x.action = "lock" => made # 0)
    BY <1>2, <2>3
       DEF Succeeds, Transactions, Actions, CreateHold, Register, Settle, Cancel, Reclaim,
           RecoverOrphan
  <2>4. UNCHANGED vars => UNCHANGED time
    BY DEF vars
  <2> HIDE DEF made, Mined, x
  <2> QED
    BY <2>1, <2>2, <2>3, <2>4
<1> DEFINE y == [x EXCEPT !.status = status, !.block = time, !.hold = hold]
<1>4. /\ y \in Transactions
      /\ y.action = x.action
      /\ y.status = status
      /\ y.hold = hold
  BY <1>2 DEF Transactions, Protocol, StoreTypes
<1>5. txs' = [txs EXCEPT ![j] = y]
  BY <1>3
<1>6. /\ txs' \in Seq(Transactions)
      /\ DOMAIN txs' = DOMAIN txs
      /\ \A k \in DOMAIN txs : txs'[k] = IF k = j THEN y ELSE txs[k]
  BY <1>2, <1>4, <1>5, ExceptSeq DEF Protocol, StoreTypes
<1>7. StoreTypes' /\ OneUnresolved' /\ SlotKeepsMatch'
  BY <1>1, <1>3, <1>6 DEF Protocol, StoreTypes, OneUnresolved, SlotKeepsMatch
<1>8. HashesFit' /\ LocksMadeHolds'
  BY <1>1, <1>3, <1>4, <1>6 DEF Protocol, HashesFit, LocksMadeHolds
<1> QED
  BY <1>1, <1>7, <1>8, SettlementsStay DEF Protocol

LEMMA BlockPreserves ==
    ASSUME Protocol, NextBlock
    PROVE  Protocol' /\ OneWayStep
<1>1. UNCHANGED <<settlements, ops>> /\ time' = time + 1
  BY DEF NextBlock, Advance
<1> DEFINE y(j) == IF txs[j].status # "sent" /\ txs[j].block = time
                   THEN [txs[j] EXCEPT !.proof = BlockProves(txs[j])] ELSE txs[j]
<1>2. txs' = [j \in DOMAIN txs |-> y(j)]
  BY DEF NextBlock
<1>3. ASSUME NEW j \in DOMAIN txs
      PROVE  /\ y(j) \in Transactions
             /\ y(j).action = txs[j].action
             /\ y(j).status = txs[j].status
             /\ y(j).hold = txs[j].hold
  <2>1. txs[j] \in Transactions
    BY ElementOfSeq DEF Protocol, StoreTypes
  <2>2. BlockProves(txs[j]) \in BOOLEAN
    BY DEF BlockProves
  <2> QED
    BY <2>1, <2>2 DEF Transactions
<1>4. txs' \in Seq(Transactions) /\ DOMAIN txs' = DOMAIN txs
  <2> HIDE DEF y
  <2>1. DOMAIN txs = 1..Len(txs) /\ Len(txs) \in Nat
    BY DEF Protocol, StoreTypes
  <2>2. txs' \in [1..Len(txs) -> Transactions]
    BY <1>2, <1>3, <2>1
  <2> QED
    BY <1>2, <2>1, <2>2, SeqDef
<1>5. StoreTypes' /\ OneUnresolved' /\ SlotKeepsMatch'
  BY <1>1, <1>4 DEF Protocol, StoreTypes, OneUnresolved, SlotKeepsMatch
<1>6. HashesFit' /\ LocksMadeHolds'
  BY <1>1, <1>2, <1>3 DEF Protocol, HashesFit, LocksMadeHolds
<1> QED
  BY <1>1, <1>5, <1>6, SettlementsStay DEF Protocol

LEMMA ReportPreserves ==
    ASSUME Protocol, NEW i \in DOMAIN ops, NEW j \in DOMAIN txs, ReportHash(i, j)
    PROVE  Protocol' /\ OneWayStep
<1>1. /\ ops' = [ops EXCEPT ![i].hash = j, ![i].status = "pending"]
      /\ ops[i].status = "prepared"
      /\ txs[j].action = ops[i].action
      /\ UNCHANGED <<time, settlements, txs>>
  BY DEF ReportHash, SameCall, vars, Protocol, HashesFit
<1>2. ops[i] \in Operations /\ i \in 1..Len(ops) /\ j \in Nat \ {0}
  BY ElementOfSeq DEF Protocol, StoreTypes
<1> DEFINE o == [ops[i] EXCEPT !.hash = j, !.status = "pending"]
<1>3. /\ o \in Operations
      /\ o.match = ops[i].match /\ o.action = ops[i].action
      /\ o.status = "pending" /\ o.hash = j
  BY <1>2 DEF Operations
<1>4. ops' = [ops EXCEPT ![i] = o]
  BY <1>1
<1>5. /\ ops' \in Seq(Operations)
      /\ DOMAIN ops' = DOMAIN ops
      /\ \A k \in DOMAIN ops : ops'[k] = IF k = i THEN o ELSE ops[k]
  BY <1>2, <1>3, <1>4, ExceptSeq DEF Protocol, StoreTypes
<1>6. StoreTypes'
  BY <1>1, <1>5 DEF Protocol, StoreTypes
<1>7. \A k \in DOMAIN ops : Unresolved(ops'[k]) <=> Unresolved(ops[k])
  BY <1>1, <1>3, <1>5 DEF Unresolved
<1>8. OneUnresolved'
  BY <1>5, <1>7 DEF Protocol, OneUnresolved, Unresolved
<1>9. SlotKeepsMatch'
  <2> SUFFICES ASSUME NEW k \in DOMAIN ops, Unresolved(ops[k])
               PROVE  settlements[ops'[k].match].status = AllowedFrom[ops'[k].action]
    BY <1>1, <1>5, <1>7 DEF SlotKeepsMatch, Unresolved, AllowedFrom
  <2> QED
    BY <1>3, <1>5 DEF Protocol, SlotKeepsMatch
<1>10. HashesFit' /\ LocksMadeHolds'
  BY <1>1, <1>2, <1>3, <1>5 DEF Protocol, HashesFit, LocksMadeHolds, NoHash
<1> QED
  BY <1>1, <1>6, <1>8, <1>9, <1>10, SettlementsStay DEF Protocol

LEMMA OutOfBandPreserves ==
    ASSUME Protocol, OutOfBand
    PROVE  Protocol' /\ OneWayStep
<1>1. UNCHANGED <<time, settlements, ops, txs>>
  BY DEF OutOfBand, storeVars, TokenStep, ContractStep, CreateHold, ReclaimAtAts, Register,
         Settle, Cancel, Reclaim, RecoverOrphan
<1> QED
  BY <1>1, SettlementsStay
     DEF Protocol, StoreTypes, OneUnresolved, SlotKeepsMatch, HashesFit, LocksMadeHolds

LEMMA StepProtocol ==
    ASSUME Protocol, [StoreNext]_allVars
    PROVE  Protocol' /\ (OneWayStep \/ UNCHANGED allVars)
<1>1. CASE PrepareAny
  <2>1. PICK m \in Matches, action \in Actions, age \in 0..Lag :
           PrepareSettlement(m, action, time - age)
    BY <1>1 DEF PrepareAny
  <2>2. time - age \in Int
    BY StoreBoundsAssumption DEF Protocol, StoreTypes
  <2> QED
    BY <2>1, <2>2, PreparePreserves
<1>2. CASE SendAny
  BY <1>2, SendPreserves DEF SendAny
<1>3. CASE MineAny
  BY <1>3, MinePreserves DEF MineAny
<1>4. CASE OutOfBand
  BY <1>4, OutOfBandPreserves
<1>5. CASE NextBlock
  BY <1>5, BlockPreserves
<1>6. CASE ReportAny
  BY <1>6, ReportPreserves DEF ReportAny
<1>7. CASE RecoverAny
  BY <1>7, RecoverPreserves DEF RecoverAny
<1>8. CASE UNCHANGED allVars
  <2>1. UNCHANGED <<time, settlements, ops, txs>>
    BY <1>8 DEF allVars, storeVars, vars
  <2> QED
    BY <1>8, <2>1
       DEF Protocol, StoreTypes, OneUnresolved, SlotKeepsMatch, HoldUnknown, HashesFit,
           LocksMadeHolds
<1> QED
  BY <1>1, <1>2, <1>3, <1>4, <1>5, <1>6, <1>7, <1>8 DEF StoreNext

THEOREM StoreProtocol == StoreSpec => []Protocol
<1>1. StoreInit => Protocol
  BY InitProtocol
<1>2. Protocol /\ [StoreNext]_allVars => Protocol'
  BY StepProtocol
<1> QED
  BY <1>1, <1>2, PTL DEF StoreSpec

(***************************************************************************)
(* OneWay: a settlement leaves a status only by the verification of the    *)
(* operation its match is waiting for, to the next status of that          *)
(* operation, and the terms of the match stay as they were prepared.       *)
(***************************************************************************)
THEOREM SettlementsGoOneWay == StoreSpec => OneWay
<1>1. Protocol /\ [StoreNext]_allVars => [OneWayStep]_allVars
  BY StepProtocol
<1> QED
  BY <1>1, StoreProtocol, PTL DEF StoreSpec, OneWay

-----------------------------------------------------------------------------
(***************************************************************************)
(* What a transaction did at the chain cannot be undone.  These are the    *)
(* facts about the chain that stay true whatever is called next.           *)
(***************************************************************************)
HoldRows ==
    [amount : Nat, expiry : Int, escrow : {Contract, Elsewhere, "none"},
     to : Accounts \cup {"none"}, kind : {"plain", "other", "none"}]

ChainTypes ==
    /\ time \in Nat
    /\ holds \in [Keys -> HoldRows]
    /\ \A k \in Keys : holds[k] # NoHold => holds[k].expiry > 0
    /\ registered \subseteq TermsRows
    /\ state \in [registered -> States]
    /\ \A t \in registered : Key(t) \in usedHold

Made(k, h) ==
    k \in Keys /\ holds[k].expiry > 0 /\ [holds[k] EXCEPT !.amount = h.amount] = h

Ended(t, outcome) == t \in registered /\ state[t] = outcome

Gone(k) ==
    /\ k \in Keys /\ holds[k].expiry > 0 /\ holds[k].amount = 0
    /\ k \in usedHold
    /\ \A t \in registered : Key(t) # k

ChainMove ==
    /\ \A k \in Keys :
          holds[k].expiry > 0 =>
             /\ holds'[k].expiry = holds[k].expiry
             /\ holds'[k].escrow = holds[k].escrow
             /\ holds'[k].to = holds[k].to
             /\ holds'[k].kind = holds[k].kind
             /\ holds[k].amount = 0 => holds'[k].amount = 0
    /\ registered \subseteq registered'
    /\ \A t \in registered : state[t] \in Final => state'[t] = state[t]
    /\ usedHold \subseteq usedHold'
    /\ \A t \in registered' \ registered : Key(t) \notin usedHold

-----------------------------------------------------------------------------
LEMMA ChainStays ==
    ASSUME ChainTypes, UNCHANGED <<holds, registered, state, usedHold>>, time' \in Nat
    PROVE  ChainTypes' /\ ChainMove
<1>1. ChainTypes'
  BY DEF ChainTypes, Key
<1> QED
  BY <1>1 DEF ChainTypes, ChainMove

LEMMA EmptyingMoves ==
    ASSUME ChainTypes, NEW k, NEW a, EmptyHold(k, a)
    PROVE  /\ holds' \in [Keys -> HoldRows]
           /\ \A l \in Keys : holds'[l] # NoHold => holds'[l].expiry > 0
           /\ \A l \in Keys :
                 holds[l].expiry > 0 =>
                    /\ holds'[l].expiry = holds[l].expiry
                    /\ holds'[l].escrow = holds[l].escrow
                    /\ holds'[l].to = holds[l].to
                    /\ holds'[l].kind = holds[l].kind
                    /\ holds[l].amount = 0 => holds'[l].amount = 0
           /\ k \in Keys => holds'[k].amount = 0
<1>1. holds' = [l \in Keys |-> IF l = k THEN [holds[l] EXCEPT !.amount = 0] ELSE holds[l]]
  BY DEF EmptyHold, ChainTypes
<1>2. ASSUME NEW l \in Keys
      PROVE  /\ holds'[l] \in HoldRows
             /\ holds'[l].expiry = holds[l].expiry
             /\ holds'[l].escrow = holds[l].escrow
             /\ holds'[l].to = holds[l].to
             /\ holds'[l].kind = holds[l].kind
             /\ holds'[l].amount = IF l = k THEN 0 ELSE holds[l].amount
  BY <1>1 DEF ChainTypes, HoldRows
<1>3. ASSUME NEW l \in Keys, holds'[l] # NoHold
      PROVE  holds'[l].expiry > 0
  <2>1. CASE holds[l] = NoHold
    BY <1>1, <1>3, <2>1 DEF NoHold
  <2>2. CASE holds[l] # NoHold
    BY <1>2, <2>2 DEF ChainTypes
  <2> QED
    BY <2>1, <2>2
<1> QED
  BY <1>1, <1>2, <1>3

LEMMA CreateMoves ==
    ASSUME ChainTypes, NEW k \in Keys, NEW h \in HoldRows, CreateHold(k[1], k[2], h)
    PROVE  ChainTypes' /\ ChainMove /\ holds'[k] = h /\ h.expiry > 0
<1>1. k = <<k[1], k[2]>>
  BY DEF Keys
<1>2. /\ holds[k] = NoHold
      /\ h.expiry > time
      /\ holds' = [holds EXCEPT ![k] = h]
      /\ UNCHANGED <<time, registered, state, usedHold>>
  BY <1>1 DEF CreateHold, CanCreate
<1>3. h.expiry > 0
  <2>1. h.expiry \in Int /\ time \in Nat
    BY DEF HoldRows, ChainTypes
  <2> QED
    BY <1>2, <2>1
<1>4. /\ holds' \in [Keys -> HoldRows]
      /\ holds'[k] = h
      /\ \A l \in Keys \ {k} : holds'[l] = holds[l]
  BY <1>2 DEF ChainTypes
<1>5. ChainTypes'
  BY <1>2, <1>3, <1>4 DEF ChainTypes, Key
<1>6. holds[k].expiry = 0
  BY <1>2 DEF NoHold
<1>7. ChainMove
  BY <1>2, <1>4, <1>6 DEF ChainMove
<1> QED
  BY <1>3, <1>4, <1>5, <1>7

LEMMA LockMoves ==
    ASSUME ChainTypes, NEW t \in TermsRows, NEW id \in HoldIds,
           CreateHold(t.seller, id, LockedHold(t))
    PROVE  ChainTypes' /\ ChainMove /\ Made(<<t.seller, id>>, LockedHold(t))'
<1> DEFINE k == <<t.seller, id>>
<1>1. k \in Keys /\ k[1] = t.seller /\ k[2] = id
  BY AccountsAssumption DEF Keys, TermsRows
<1>2. LockedHold(t) \in HoldRows
  <2>1. t.amount \in Nat /\ t.expiry \in Int /\ t.buyer \in Accounts
    BY AccountsAssumption, NumbersAssumption DEF TermsRows
  <2> QED
    BY <2>1 DEF LockedHold, HoldRows
<1>3. ChainTypes' /\ ChainMove /\ holds'[k] = LockedHold(t) /\ LockedHold(t).expiry > 0
  BY <1>1, <1>2, CreateMoves
<1>4. [LockedHold(t) EXCEPT !.amount = LockedHold(t).amount] = LockedHold(t)
  BY DEF LockedHold
<1> QED
  BY <1>1, <1>3, <1>4 DEF Made, Keys, LockedHold

LEMMA RegisterMoves ==
    ASSUME ChainTypes, NEW t \in TermsRows, NEW sender, Register(t, sender)
    PROVE  ChainTypes' /\ ChainMove /\ registered' = registered \cup {t}
<1>1. /\ Key(t) \notin usedHold
      /\ usedHold' = usedHold \cup {Key(t)}
      /\ registered' = registered \cup {t}
      /\ state' = [u \in registered \cup {t} |-> IF u = t THEN "Ready" ELSE state[u]]
      /\ UNCHANGED <<time, holds>>
  BY DEF Register, CanRegister
<1>2. t \notin registered
  BY <1>1 DEF ChainTypes
<1>3. ChainTypes'
  BY <1>1 DEF ChainTypes, States, Key
<1>4. ChainMove
  BY <1>1, <1>2 DEF ChainMove, ChainTypes
<1> QED
  BY <1>1, <1>3, <1>4

(***************************************************************************)
(* The three ways a deal ends.                                             *)
(***************************************************************************)
LEMMA EndMoves ==
    ASSUME ChainTypes, NEW t, NEW a, NEW outcome \in Final,
           IsReady(t), EmptyHold(Key(t), a), state' = [state EXCEPT ![t] = outcome],
           UNCHANGED <<time, registered, usedHold>>
    PROVE  ChainTypes' /\ ChainMove /\ Ended(t, outcome)'
<1>1. t \in registered /\ state[t] = "Ready"
  BY DEF IsReady
<1>2. /\ state' \in [registered -> States]
      /\ state'[t] = outcome
      /\ \A u \in registered \ {t} : state'[u] = state[u]
  BY <1>1 DEF ChainTypes, States, Final
<1>3. ChainTypes'
  BY <1>2, EmptyingMoves DEF ChainTypes, Key
<1>4. ChainMove
  BY <1>1, <1>2, EmptyingMoves DEF ChainMove, Final
<1> QED
  BY <1>1, <1>2, <1>3, <1>4 DEF Ended

LEMMA OrphanMoves ==
    ASSUME ChainTypes, NEW a, NEW id, RecoverOrphan(a, id)
    PROVE  ChainTypes' /\ ChainMove /\ (<<a, id>> \in Keys => Gone(<<a, id>>)')
<1> DEFINE k == <<a, id>>
<1>1. /\ k \notin usedHold
      /\ holds[k].amount # 0
      /\ usedHold' = usedHold \cup {k}
      /\ EmptyHold(k, a)
      /\ UNCHANGED <<time, registered, state>>
  BY DEF RecoverOrphan, CanRecover
<1>2. ChainTypes'
  BY <1>1, EmptyingMoves DEF ChainTypes, Key
<1>3. ChainMove
  BY <1>1, EmptyingMoves DEF ChainMove
<1>4. ASSUME k \in Keys
      PROVE  Gone(k)'
  <2>1. holds[k].expiry > 0
    BY <1>1, <1>4 DEF ChainTypes, NoHold
  <2>2. holds'[k].expiry > 0 /\ holds'[k].amount = 0
    BY <1>1, <1>4, <2>1, EmptyingMoves
  <2>3. \A t \in registered : Key(t) # k
    BY <1>1 DEF ChainTypes
  <2> QED
    BY <1>1, <1>4, <2>2, <2>3 DEF Gone, Keys, Key
<1> QED
  BY <1>2, <1>3, <1>4

(* Terms that somebody registers without the server are well formed too.   *)
LEMMA OfferedTerms ==
    ASSUME NEW t \in Offers, NEW sender, Register(t, sender)
    PROVE  t \in Terms /\ t \in TermsRows
<1>1. t \in Terms
  BY InputsAssumption
<1>2. t.seller \in Traders /\ t.buyer \in Traders
  BY DEF Register, CanRegister, ValidTerms
<1>3. t.preparedAt \in Int /\ t.expiry \in Int /\ t.hold \in Int
  <2>1. t.preparedAt \in 0..MaxTime /\ t.expiry \in 0..(MaxTime + Validity) /\ t.hold \in HoldIds
    BY <1>1 DEF Terms, Times
  <2>2. t.hold \in Int
    <3>1. \A id \in HoldIds : id \in Int
      BY NumbersAssumption
    <3> QED
      BY <2>1, <3>1
  <2>3. t.preparedAt \in Int /\ t.expiry \in Int
    BY <2>1
  <2> QED
    BY <2>2, <2>3
<1> QED
  BY <1>1, <1>2, <1>3 DEF Terms, TermsRows

LEMMA OutOfBandMoves ==
    ASSUME ChainTypes, OutOfBand
    PROVE  ChainTypes' /\ ChainMove
<1>1. ASSUME NEW a \in Accounts, NEW id \in HoldIds, NEW h \in NewHolds, CreateHold(a, id, h)
      PROVE  ChainTypes' /\ ChainMove
  <2>1. h \in Holds
    BY InputsAssumption
  <2>2. h \in HoldRows
    <3>1. h.amount \in Amounts \cup {0} /\ h.expiry \in 0..(MaxTime + Validity)
      BY <2>1 DEF Holds, Times
    <3>2. h.amount \in Nat /\ h.expiry \in Int
      BY <3>1, AmountType
    <3> QED
      BY <2>1, <3>2 DEF Holds, HoldRows
  <2>3. <<a, id>> \in Keys /\ <<a, id>>[1] = a /\ <<a, id>>[2] = id
    BY DEF Keys
  <2> QED
    BY <1>1, <2>2, <2>3, CreateMoves
<1>2. ASSUME NEW k \in Keys, ReclaimAtAts(k)
      PROVE  ChainTypes' /\ ChainMove
  <2>1. EmptyHold(k, k[1]) /\ UNCHANGED <<time, registered, state, usedHold>>
    BY <1>2 DEF ReclaimAtAts
  <2>2. ChainTypes'
    BY <2>1, EmptyingMoves DEF ChainTypes, Key
  <2>3. ChainMove
    BY <2>1, EmptyingMoves DEF ChainMove
  <2> QED
    BY <2>2, <2>3
<1>3. ASSUME NEW t \in Offers, NEW sender \in Accounts, Register(t, sender)
      PROVE  ChainTypes' /\ ChainMove
  BY <1>3, OfferedTerms, RegisterMoves
<1>4. ASSUME NEW t \in registered, NEW sender, NEW value, Settle(t, sender, value)
      PROVE  ChainTypes' /\ ChainMove
  BY <1>4, EndMoves DEF Settle, CanSettle, Final
<1>5. ASSUME NEW t \in registered, NEW sender, Cancel(t, sender)
      PROVE  ChainTypes' /\ ChainMove
  BY <1>5, EndMoves DEF Cancel, CanReturn, Final
<1>6. ASSUME NEW t \in registered, NEW sender, Reclaim(t, sender)
      PROVE  ChainTypes' /\ ChainMove
  BY <1>6, EndMoves DEF Reclaim, CanReturn, Final
<1>7. ASSUME NEW a \in Accounts, NEW id \in HoldIds, RecoverOrphan(a, id)
      PROVE  ChainTypes' /\ ChainMove
  BY <1>7, OrphanMoves
<1> QED
  BY <1>1, <1>2, <1>3, <1>4, <1>5, <1>6, <1>7 DEF OutOfBand, TokenStep, ContractStep

-----------------------------------------------------------------------------
(***************************************************************************)
(* What a successful transaction did.                                      *)
(***************************************************************************)
Happened(x) ==
    /\ x.action = "lock" => Made(<<x.terms.seller, x.hold>>, LockedHold(x.terms))
    /\ x.action = "register" => x.terms \in registered
    /\ x.action \in {"settle", "cancel", "reclaim"} => Ended(x.terms, StatusAfter[x.action])
    /\ x.action = "orphan" => Gone(<<x.sender, x.terms.hold>>)

(* The terms of a settlement that no operation changes any more.           *)
Fixed(t) ==
    /\ settlements[t.match].status \notin {"none", "Unprepared"}
    /\ settlements[t.match].terms = t

Provenance ==
    /\ \A m \in Matches :
          /\ settlements[m].status # "none" => settlements[m].terms.match = m
          /\ settlements[m].status \notin {"none", "Unprepared"} =>
                settlements[m].terms.hold \in HoldIds
    /\ \A i \in DOMAIN ops :
          /\ ops[i].sender = Sender(ops[i].action, ops[i].terms)
          /\ ops[i].action # "lock" => Fixed(ops[i].terms)
          /\ Unresolved(ops[i]) => settlements[ops[i].match].terms = ops[i].terms
          /\ ops[i].status = "pending" => SameCall(ops[i], txs[ops[i].hash])
    /\ \A j \in DOMAIN txs :
          /\ txs[j].sender = Sender(txs[j].action, txs[j].terms)
          /\ txs[j].action # "lock" => Fixed(txs[j].terms)

SuccessesHappened == \A j \in DOMAIN txs : txs[j].status = "success" => Happened(txs[j])

RecordedOf(m) ==
    LET t == settlements[m].terms
        s == settlements[m].status
    IN  /\ s \in Final => Ended(t, s)
        /\ s = "Ready" => t \in registered
        /\ s = "Locked" => Made(Key(t), LockedHold(t))
        /\ s = "Returned" => Gone(Key(t))

RecordsTrue == \A m \in Matches : RecordedOf(m)

Truth == ChainTypes /\ Provenance /\ SuccessesHappened /\ RecordsTrue

-----------------------------------------------------------------------------
LEMMA MadeStays ==
    ASSUME ChainTypes, ChainTypes', ChainMove, NEW k, NEW h, Made(k, h)
    PROVE  k \in Keys /\ holds'[k].expiry > 0 /\ [holds'[k] EXCEPT !.amount = h.amount] = h
<1>1. holds[k] \in HoldRows /\ holds'[k] \in HoldRows
  BY DEF Made, ChainTypes, Keys
<1>2. /\ holds'[k].expiry = holds[k].expiry
      /\ holds'[k].escrow = holds[k].escrow
      /\ holds'[k].to = holds[k].to
      /\ holds'[k].kind = holds[k].kind
  BY DEF Made, ChainMove
<1>3. [holds'[k] EXCEPT !.amount = h.amount] = [holds[k] EXCEPT !.amount = h.amount]
  BY <1>1, <1>2 DEF HoldRows
<1> QED
  BY <1>2, <1>3 DEF Made

LEMMA EndedStays ==
    ASSUME ChainMove, NEW t, NEW s \in Final, Ended(t, s)
    PROVE  t \in registered' /\ state'[t] = s
BY DEF ChainMove, Ended

LEMMA GoneStays ==
    ASSUME ChainMove, NEW k, Gone(k)
    PROVE  /\ k \in Keys /\ holds'[k].expiry > 0 /\ holds'[k].amount = 0
           /\ k \in usedHold'
           /\ \A t \in registered' : Key(t) # k
BY DEF ChainMove, Gone

LEMMA HappenedStays ==
    ASSUME ChainTypes, ChainTypes', ChainMove,
           NEW j \in DOMAIN txs, j \in DOMAIN txs', Happened(txs[j]),
           txs'[j].action = txs[j].action, txs'[j].terms = txs[j].terms,
           txs'[j].sender = txs[j].sender, txs'[j].hold = txs[j].hold
    PROVE  Happened(txs[j])'
<1>1. CASE txs[j].action = "lock"
  BY <1>1, MadeStays DEF Happened, Made, Keys, LockedHold
<1>2. CASE txs[j].action = "register"
  BY <1>2 DEF Happened, ChainMove
<1>3. CASE txs[j].action \in {"settle", "cancel", "reclaim"}
  <2>1. StatusAfter[txs[j].action] \in Final
    BY <1>3 DEF StatusAfter, Final
  <2> QED
    BY <1>3, <2>1, EndedStays DEF Happened, Ended
<1>4. CASE txs[j].action = "orphan"
  BY <1>4, GoneStays DEF Happened, Gone, Key, Keys
<1> QED
  BY <1>1, <1>2, <1>3, <1>4 DEF Happened

LEMMA RecordedStays ==
    ASSUME ChainTypes, ChainTypes', ChainMove, NEW m \in Matches, RecordedOf(m),
           settlements'[m] = settlements[m]
    PROVE  RecordedOf(m)'
<1> DEFINE t == settlements[m].terms
           s == settlements[m].status
<1>1. CASE s \in Final
  BY <1>1, EndedStays DEF RecordedOf, Ended, Final
<1>2. CASE s = "Ready"
  BY <1>2 DEF RecordedOf, ChainMove, Final
<1>3. CASE s = "Locked"
  BY <1>3, MadeStays DEF RecordedOf, Made, Keys, Key, LockedHold, Final
<1>4. CASE s = "Returned"
  BY <1>4, GoneStays DEF RecordedOf, Gone, Keys, Key, Final
<1>5. CASE s \notin Final \cup {"Ready", "Locked", "Returned"}
  BY <1>5 DEF RecordedOf
<1> QED
  BY <1>1, <1>2, <1>3, <1>4, <1>5

LEMMA FactsStay ==
    ASSUME ChainTypes, ChainTypes', ChainMove, RecordsTrue, SuccessesHappened,
           UNCHANGED <<settlements, txs>>
    PROVE  RecordsTrue' /\ SuccessesHappened'
<1>1. RecordsTrue'
  BY RecordedStays DEF RecordsTrue
<1>2. SuccessesHappened'
  <2> SUFFICES ASSUME NEW j \in DOMAIN txs, txs[j].status = "success"
               PROVE  Happened(txs[j])'
    BY DEF SuccessesHappened
  <2> QED
    BY HappenedStays DEF SuccessesHappened
<1> QED
  BY <1>1, <1>2

-----------------------------------------------------------------------------
LEMMA InitTruth == StoreInit => Truth
<1> SUFFICES ASSUME StoreInit PROVE Truth
  OBVIOUS
<1>1. time = 0 /\ holds = [k \in Keys |-> NoHold] /\ registered = {} /\ usedHold = {}
      /\ state = [t \in {} |-> "Unregistered"]
  BY DEF StoreInit, Init
<1>2. settlements = [m \in Matches |-> NoSettlement]
      /\ ops = <<>> /\ txs = <<>> /\ DOMAIN ops = {} /\ DOMAIN txs = {}
  BY DEF StoreInit
<1>3. ChainTypes
  <2>1. NoHold \in HoldRows
    BY DEF NoHold, HoldRows
  <2> QED
    BY <1>1, <2>1 DEF ChainTypes, States
<1>4. Provenance
  BY <1>1, <1>2 DEF Provenance, NoSettlement
<1>5. RecordsTrue
  BY <1>2 DEF RecordsTrue, RecordedOf, NoSettlement, Final
<1> QED
  BY <1>2, <1>3, <1>4, <1>5 DEF Truth, SuccessesHappened

LEMMA PrepareTruth ==
    ASSUME Protocol, Truth, NEW m \in Matches, NEW action \in Actions, NEW chainTime \in Int,
           PrepareSettlement(m, action, chainTime)
    PROVE  Truth'
<1> DEFINE old == settlements[m]
           first == [status |-> "Unprepared", terms |-> FirstTerms(m, chainTime)]
           v == IF old = NoSettlement /\ action = "lock" THEN first ELSE old
           o == [match |-> m, action |-> action, terms |-> v.terms,
                 sender |-> Sender(action, v.terms), status |-> "prepared", hash |-> NoHash]
<1>1. /\ SlotFree
      /\ v.status = AllowedFrom[action]
      /\ settlements' = [settlements EXCEPT ![m] = v]
      /\ ops' = Append(ops, o)
      /\ UNCHANGED <<txs, vars>>
  BY DEF PrepareSettlement
<1>2. UNCHANGED <<time, holds, registered, state, usedHold>>
  BY <1>1 DEF vars
<1>3. ChainTypes' /\ ChainMove
  BY <1>2, ChainStays DEF Truth, ChainTypes
<1>4. /\ settlements'[m] = v
      /\ \A n \in Matches \ {m} : settlements'[n] = settlements[n]
  BY <1>1 DEF Protocol, StoreTypes
<1>5. /\ DOMAIN ops' = DOMAIN ops \cup {Len(ops) + 1}
      /\ Len(ops) + 1 \notin DOMAIN ops
      /\ \A i \in DOMAIN ops : ops'[i] = ops[i]
      /\ ops'[Len(ops) + 1] = o
  <2>1. ops \in Seq(Operations)
    BY DEF Protocol, StoreTypes
  <2> QED
    BY <1>1, <2>1
<1>6. \A i \in DOMAIN ops : ~Unresolved(ops[i]) /\ ops[i] \in Operations
  BY <1>1, ElementOfSeq DEF SlotFree, Protocol, StoreTypes
<1>7. v = old \/ (old.status = "none" /\ v.status = "Unprepared" /\ v.terms.match = m)
  BY DEF NoSettlement, FirstTerms
<1>8. ASSUME NEW t \in TermsRows, Fixed(t)
      PROVE  settlements'[t.match].status \notin {"none", "Unprepared"}
             /\ settlements'[t.match].terms = t
  BY <1>4, <1>7, <1>8 DEF Fixed, TermsRows
<1>9. action # "lock" => v = old /\ old.status \notin {"none", "Unprepared"}
  BY <1>1 DEF AllowedFrom, Actions
<1>10. \A n \in Matches :
          /\ settlements'[n].status # "none" => settlements'[n].terms.match = n
          /\ settlements'[n].status \notin {"none", "Unprepared"} =>
                settlements'[n].terms.hold \in HoldIds
  BY <1>4, <1>7 DEF Truth, Provenance
<1>11. Provenance'
  <2>1. ASSUME NEW i \in DOMAIN ops
        PROVE  /\ ops'[i].sender = Sender(ops'[i].action, ops'[i].terms)
               /\ ops'[i].action # "lock" => Fixed(ops[i].terms)'
    <3>1. ops[i].terms \in TermsRows
      BY <1>6 DEF Operations
    <3>2. /\ ops[i].sender = Sender(ops[i].action, ops[i].terms)
          /\ ops[i].action # "lock" => Fixed(ops[i].terms)
      BY DEF Truth, Provenance
    <3>3. ops[i].action # "lock" =>
             /\ settlements'[ops[i].terms.match].status \notin {"none", "Unprepared"}
             /\ settlements'[ops[i].terms.match].terms = ops[i].terms
      BY <1>8, <3>1, <3>2
    <3>4. ops'[i] = ops[i]
      BY <1>5
    <3> QED
      BY <3>2, <3>3, <3>4 DEF Fixed
  <2>2. /\ o.sender = Sender(o.action, o.terms)
        /\ o.status = "prepared"
        /\ settlements'[o.match].terms = o.terms
        /\ o.action # "lock" => /\ settlements'[o.terms.match].status \notin {"none", "Unprepared"}
                                /\ settlements'[o.terms.match].terms = o.terms
    BY <1>4, <1>9 DEF Truth, Provenance
  <2>3. ASSUME NEW j \in DOMAIN txs, txs[j].action # "lock"
        PROVE  Fixed(txs[j].terms)'
    <3>1. txs[j] \in Transactions
      BY ElementOfSeq DEF Protocol, StoreTypes
    <3>2. txs[j].terms \in TermsRows
      BY <3>1 DEF Transactions
    <3>3. Fixed(txs[j].terms)
      BY <2>3 DEF Truth, Provenance
    <3> QED
      BY <1>1, <1>8, <3>2, <3>3 DEF Fixed
  <2>5. ASSUME NEW i \in DOMAIN ops'
        PROVE  /\ ops'[i].sender = Sender(ops'[i].action, ops'[i].terms)
               /\ ops'[i].action # "lock" => Fixed(ops[i].terms)'
               /\ Unresolved(ops'[i]) => settlements'[ops'[i].match].terms = ops'[i].terms
               /\ ops'[i].status # "pending"
    <3>1. CASE i \in DOMAIN ops
      BY <1>5, <1>6, <2>1, <3>1 DEF Unresolved
    <3>2. CASE i = Len(ops) + 1
      <4>1. ops'[i] = o
        BY <1>5, <3>2
      <4> HIDE DEF o
      <4> QED
        BY <2>2, <4>1 DEF Fixed
    <3> QED
      BY <1>5, <3>1, <3>2
  <2>6. \A j \in DOMAIN txs : txs[j].sender = Sender(txs[j].action, txs[j].terms)
    BY DEF Truth, Provenance
  <2>7. \A i \in DOMAIN ops' :
          /\ ops'[i].sender = Sender(ops'[i].action, ops'[i].terms)
          /\ ops'[i].action # "lock" => Fixed(ops[i].terms)'
          /\ Unresolved(ops'[i]) => settlements'[ops'[i].match].terms = ops'[i].terms
          /\ ops'[i].status # "pending"
    BY <2>5
  <2>8. UNCHANGED <<txs, registered>>
    BY <1>1, <1>2
  <2> QED
    BY <1>10, <2>3, <2>6, <2>7, <2>8 DEF Provenance, Unresolved, Sender
<1>12. RecordsTrue'
  <2> SUFFICES ASSUME NEW n \in Matches PROVE RecordedOf(n)'
    BY DEF RecordsTrue
  <2>1. RecordedOf(n)
    BY DEF Truth, RecordsTrue
  <2>2. CASE settlements'[n] = settlements[n]
    BY <1>3, <2>1, <2>2, RecordedStays DEF Truth
  <2>3. CASE settlements'[n].status = "Unprepared"
    BY <2>3 DEF RecordedOf, Final
  <2> QED
    BY <1>4, <1>7, <2>2, <2>3
<1>13. SuccessesHappened'
  <2> SUFFICES ASSUME NEW j \in DOMAIN txs, txs[j].status = "success"
               PROVE  Happened(txs[j])'
    BY <1>1 DEF SuccessesHappened
  <2> QED
    BY <1>1, <1>3, HappenedStays DEF Truth, SuccessesHappened
<1> QED
  BY <1>3, <1>11, <1>12, <1>13 DEF Truth

LEMMA SendTruth ==
    ASSUME Protocol, Truth, NEW i \in DOMAIN ops, Send(i)
    PROVE  Truth'
<1> DEFINE x == [action |-> ops[i].action, terms |-> ops[i].terms, sender |-> ops[i].sender,
                 status |-> "sent", block |-> 0, hold |-> 0, proof |-> FALSE]
<1>1. txs' = Append(txs, x) /\ UNCHANGED <<vars, settlements, ops>>
  BY DEF Send
<1>2. UNCHANGED <<time, holds, registered, state, usedHold>>
  BY <1>1 DEF vars
<1>3. /\ DOMAIN txs' = DOMAIN txs \cup {Len(txs) + 1}
      /\ \A j \in DOMAIN txs : txs'[j] = txs[j]
      /\ txs'[Len(txs) + 1] = x
  <2>1. txs \in Seq(Transactions)
    BY DEF Protocol, StoreTypes
  <2> QED
    BY <1>1, <2>1
<1>4. ChainTypes' /\ ChainMove
  BY <1>2, ChainStays DEF Truth, ChainTypes
<1>5. Provenance'
  <2>1. /\ x.sender = Sender(x.action, x.terms)
        /\ x.action # "lock" => Fixed(x.terms)
    BY DEF Truth, Provenance
  <2>2. ASSUME NEW j \in DOMAIN txs'
        PROVE  /\ txs'[j].sender = Sender(txs'[j].action, txs'[j].terms)
               /\ txs'[j].action # "lock" => Fixed(txs[j].terms)'
    <3>1. CASE j \in DOMAIN txs
      BY <1>1, <1>3, <3>1 DEF Truth, Provenance, Fixed
    <3>2. CASE j = Len(txs) + 1
      <4>1. txs'[j] = x
        BY <1>3, <3>2
      <4> HIDE DEF x
      <4> QED
        BY <1>1, <2>1, <4>1 DEF Fixed
    <3> QED
      BY <1>3, <3>1, <3>2
  <2>3. ASSUME NEW k \in DOMAIN ops
        PROVE  /\ ops[k].sender = Sender(ops[k].action, ops[k].terms)
               /\ ops[k].action # "lock" => Fixed(ops[k].terms)'
               /\ Unresolved(ops[k]) => settlements'[ops[k].match].terms = ops[k].terms
    BY <1>1 DEF Truth, Provenance, Fixed
  <2>4. ASSUME NEW k \in DOMAIN ops, ops[k].status = "pending"
        PROVE  SameCall(ops[k], txs[ops[k].hash])'
    <3>1. ops[k].hash \in DOMAIN txs
      BY <2>4 DEF Protocol, HashesFit
    <3>2. txs'[ops[k].hash] = txs[ops[k].hash] /\ ops'[k] = ops[k]
      BY <1>1, <1>3, <3>1
    <3>3. SameCall(ops[k], txs[ops[k].hash])
      BY <2>4 DEF Truth, Provenance
    <3> QED
      BY <3>2, <3>3 DEF SameCall, Calldata, LockedHold
  <2>5. \A m \in Matches :
           /\ settlements'[m].status # "none" => settlements'[m].terms.match = m
           /\ settlements'[m].status \notin {"none", "Unprepared"} =>
                 settlements'[m].terms.hold \in HoldIds
    BY <1>1 DEF Truth, Provenance
  <2> QED
    BY <1>1, <2>2, <2>3, <2>4, <2>5 DEF Provenance, Unresolved, Sender
<1>6. RecordsTrue'
  BY <1>1, <1>4, RecordedStays DEF Truth, RecordsTrue
<1>7. SuccessesHappened'
  <2> SUFFICES ASSUME NEW j \in DOMAIN txs', txs'[j].status = "success"
               PROVE  Happened(txs[j])'
    BY DEF SuccessesHappened
  <2>1. j \in DOMAIN txs
    BY <1>3
  <2> QED
    BY <1>3, <1>4, <2>1, HappenedStays DEF Truth, SuccessesHappened
<1> QED
  BY <1>4, <1>5, <1>6, <1>7 DEF Truth

(***************************************************************************)
(* A successful transaction does at the chain what its action says.        *)
(***************************************************************************)
LEMMA SuccessMoves ==
    ASSUME Protocol, Truth, NEW x \in Transactions, Succeeds(x),
           x.sender = Sender(x.action, x.terms), x.action # "lock" => Fixed(x.terms)
    PROVE  /\ ChainTypes' /\ ChainMove
           /\ \A id \in Nat : x.action = "lock" /\ id = NextHold(x.terms.seller) =>
                 Made(<<x.terms.seller, id>>, LockedHold(x.terms))'
           /\ x.action = "register" => x.terms \in registered'
           /\ x.action \in {"settle", "cancel", "reclaim"} =>
                 Ended(x.terms, StatusAfter[x.action])'
           /\ x.action = "orphan" => Gone(<<x.sender, x.terms.hold>>)'
<1> DEFINE t == x.terms
<1>1. t \in TermsRows /\ ChainTypes
  BY DEF Transactions, Truth
<1>2. CASE x.action = "lock"
  <2>1. NextHold(t.seller) # 0 /\ CreateHold(t.seller, NextHold(t.seller), LockedHold(t))
    BY <1>2 DEF Succeeds
  <2>2. PICK id \in HoldIds : id = NextHold(t.seller)
    BY <2>1, NextHoldIsId
  <2>3. ChainTypes' /\ ChainMove /\ Made(<<t.seller, id>>, LockedHold(t))'
    BY <1>1, <2>1, <2>2, LockMoves
  <2> QED
    BY <1>1, <1>2, <2>2, <2>3
<1>3. CASE x.action = "register"
  <2>1. Register(t, x.sender)
    BY <1>3 DEF Succeeds
  <2> QED
    BY <1>1, <1>3, <2>1, RegisterMoves
<1>4. CASE x.action = "settle"
  <2>1. Settle(t, x.sender, Price(t))
    BY <1>4 DEF Succeeds
  <2>2. ChainTypes' /\ ChainMove /\ Ended(t, "Settled")'
    BY <1>1, <2>1, EndMoves DEF Settle, CanSettle, Final
  <2> QED
    BY <1>4, <2>2 DEF StatusAfter
<1>5. CASE x.action = "cancel"
  <2>1. Cancel(t, x.sender)
    BY <1>5 DEF Succeeds
  <2>2. ChainTypes' /\ ChainMove /\ Ended(t, "Cancelled")'
    BY <1>1, <2>1, EndMoves DEF Cancel, CanReturn, Final
  <2> QED
    BY <1>5, <2>2 DEF StatusAfter
<1>6. CASE x.action = "reclaim"
  <2>1. Reclaim(t, x.sender)
    BY <1>6 DEF Succeeds
  <2>2. ChainTypes' /\ ChainMove /\ Ended(t, "Reclaimed")'
    BY <1>1, <2>1, EndMoves DEF Reclaim, CanReturn, Final
  <2> QED
    BY <1>6, <2>2 DEF StatusAfter
<1>7. CASE x.action = "orphan"
  <2>1. RecoverOrphan(x.sender, t.hold)
    BY <1>7 DEF Succeeds
  <2>2. <<x.sender, t.hold>> \in Keys
    <3>1. x.sender = t.seller /\ t.seller \in Accounts
      BY <1>1, <1>7, AccountsAssumption DEF Sender, TermsRows
    <3>2. t.hold \in HoldIds
      BY <1>1, <1>7 DEF Truth, Provenance, Fixed, TermsRows
    <3> QED
      BY <3>1, <3>2 DEF Keys
  <2> QED
    BY <1>1, <1>7, <2>1, <2>2, OrphanMoves
<1> QED
  BY <1>2, <1>3, <1>4, <1>5, <1>6, <1>7 DEF Transactions, Actions

LEMMA ProvenanceStays ==
    ASSUME Protocol, Provenance, UNCHANGED <<settlements, ops>>,
           DOMAIN txs' = DOMAIN txs,
           \A k \in DOMAIN txs :
              /\ txs'[k].action = txs[k].action
              /\ txs'[k].terms = txs[k].terms
              /\ txs'[k].sender = txs[k].sender
    PROVE  Provenance'
<1>1. ASSUME NEW k \in DOMAIN txs
      PROVE  /\ txs'[k].sender = Sender(txs'[k].action, txs'[k].terms)
             /\ txs'[k].action # "lock" => Fixed(txs[k].terms)'
  BY DEF Provenance, Fixed
<1>2. ASSUME NEW k \in DOMAIN ops
      PROVE  /\ ops[k].sender = Sender(ops[k].action, ops[k].terms)
             /\ ops[k].action # "lock" => Fixed(ops[k].terms)'
             /\ Unresolved(ops[k]) => settlements'[ops[k].match].terms = ops[k].terms
  BY DEF Provenance, Fixed
<1>3. ASSUME NEW k \in DOMAIN ops, ops[k].status = "pending"
      PROVE  SameCall(ops[k], txs[ops[k].hash])'
  <2>1. ops[k].hash \in DOMAIN txs
    BY <1>3 DEF Protocol, HashesFit
  <2>2. SameCall(ops[k], txs[ops[k].hash])
    BY <1>3 DEF Provenance
  <2> QED
    BY <2>1, <2>2 DEF SameCall, Calldata, LockedHold
<1>4. \A m \in Matches :
         /\ settlements'[m].status # "none" => settlements'[m].terms.match = m
         /\ settlements'[m].status \notin {"none", "Unprepared"} =>
               settlements'[m].terms.hold \in HoldIds
  BY DEF Provenance
<1> QED
  BY <1>1, <1>2, <1>3, <1>4 DEF Provenance, Unresolved, Sender

LEMMA MineTruth ==
    ASSUME Protocol, Truth, NEW j \in DOMAIN txs, Mine(j)
    PROVE  Truth'
<1> DEFINE x == txs[j]
           Mined(status, hold) ==
             txs' = [txs EXCEPT ![j].status = status, ![j].block = time, ![j].hold = hold]
<1>1. UNCHANGED <<settlements, ops>> /\ x.status = "sent"
  BY DEF Mine
<1>2. txs \in Seq(Transactions) /\ x \in Transactions
  BY ElementOfSeq DEF Protocol, StoreTypes
<1>3. x.sender = Sender(x.action, x.terms) /\ (x.action # "lock" => Fixed(x.terms))
  BY DEF Truth, Provenance
<1>4. PICK status \in {"success", "reverted"}, hold \in Nat :
         /\ Mined(status, hold)
         /\ status = "success" =>
               Succeeds(x) /\ (x.action = "lock" => hold = NextHold(x.terms.seller))
         /\ status = "reverted" => UNCHANGED vars
  <2> DEFINE made == IF x.action = "lock" THEN NextHold(x.terms.seller) ELSE 0
  <2>1. made \in Nat
    <3>1. NextHold(x.terms.seller) \in HoldIds \cup {0}
      BY NextHoldIsId
    <3>2. \A id \in HoldIds \cup {0} : id \in Nat
      BY NumbersAssumption
    <3> QED
      BY <3>1, <3>2
  <2>2. \/ Succeeds(x) /\ Mined("success", made)
        \/ Mined("reverted", 0) /\ UNCHANGED vars
    BY DEF Mine
  <2>3. x.action = "lock" => made = NextHold(x.terms.seller)
    OBVIOUS
  <2> HIDE DEF made, Mined, x
  <2> QED
    BY <2>1, <2>2, <2>3
<1>5. ChainTypes' /\ ChainMove
  <2>1. CASE status = "success"
    BY <1>2, <1>3, <1>4, <2>1, SuccessMoves
  <2>2. CASE status = "reverted"
    <3>1. UNCHANGED <<time, holds, registered, state, usedHold>>
      BY <1>4, <2>2 DEF vars
    <3> QED
      BY <3>1, ChainStays DEF Truth, ChainTypes
  <2> QED
    BY <2>1, <2>2
<1>6. /\ DOMAIN txs' = DOMAIN txs
      /\ txs'[j].action = x.action /\ txs'[j].terms = x.terms /\ txs'[j].sender = x.sender
      /\ txs'[j].status = status /\ txs'[j].hold = hold
      /\ \A k \in DOMAIN txs \ {j} : txs'[k] = txs[k]
  BY <1>2, <1>4 DEF Transactions
<1>7. \A k \in DOMAIN txs :
         /\ txs'[k].action = txs[k].action
         /\ txs'[k].terms = txs[k].terms
         /\ txs'[k].sender = txs[k].sender
  BY <1>6
<1>8. Provenance'
  BY <1>1, <1>6, <1>7, ProvenanceStays DEF Truth
<1>9. RecordsTrue'
  BY <1>1, <1>5, RecordedStays DEF Truth, RecordsTrue
<1>10. SuccessesHappened'
  <2> SUFFICES ASSUME NEW k \in DOMAIN txs, txs'[k].status = "success"
               PROVE  Happened(txs[k])'
    BY <1>6 DEF SuccessesHappened
  <2>1. CASE k # j
    BY <1>5, <1>6, <2>1, HappenedStays DEF Truth, SuccessesHappened
  <2>2. CASE k = j
    <3>1. status = "success"
      BY <1>6, <2>2
    <3>2. Succeeds(x) /\ (x.action = "lock" => hold = NextHold(x.terms.seller))
      BY <1>4, <3>1
    <3>3. PICK y \in Transactions : y = x
      BY <1>2
    <3>4. /\ y.action = "lock" => Made(<<y.terms.seller, hold>>, LockedHold(y.terms))'
          /\ y.action = "register" => y.terms \in registered'
          /\ y.action \in {"settle", "cancel", "reclaim"} => Ended(y.terms, StatusAfter[y.action])'
          /\ y.action = "orphan" => Gone(<<y.sender, y.terms.hold>>)'
      <4>1. Succeeds(y) /\ y.sender = Sender(y.action, y.terms)
            /\ (y.action # "lock" => Fixed(y.terms))
            /\ (y.action = "lock" => hold = NextHold(y.terms.seller))
        BY <1>3, <3>2, <3>3
      <4> HIDE DEF x
      <4> QED
        BY <4>1, SuccessMoves
    <3>5. /\ txs'[j].action = y.action /\ txs'[j].terms = y.terms /\ txs'[j].sender = y.sender
          /\ txs'[j].hold = hold
      BY <1>6, <3>3
    <3> HIDE DEF x
    <3> QED
      BY <2>2, <3>4, <3>5 DEF Happened, Made, Ended, Gone, LockedHold, Key, Keys
  <2> QED
    BY <2>1, <2>2
<1> QED
  BY <1>5, <1>8, <1>9, <1>10 DEF Truth

LEMMA OutOfBandTruth ==
    ASSUME Protocol, Truth, OutOfBand
    PROVE  Truth'
<1>1. UNCHANGED <<settlements, ops, txs>>
  BY DEF OutOfBand, storeVars
<1>2. ChainTypes' /\ ChainMove
  BY OutOfBandMoves DEF Truth
<1>3. RecordsTrue' /\ SuccessesHappened'
  BY <1>1, <1>2, FactsStay DEF Truth
<1>4. Provenance'
  BY <1>1, ProvenanceStays DEF Truth
<1> QED
  BY <1>2, <1>3, <1>4 DEF Truth

LEMMA BlockTruth ==
    ASSUME Protocol, Truth, NextBlock
    PROVE  Truth'
<1>1. /\ UNCHANGED <<settlements, ops, holds, registered, state, usedHold>>
      /\ time' = time + 1
  BY DEF NextBlock, Advance, chain
<1>2. ChainTypes' /\ ChainMove
  BY <1>1, ChainStays DEF Truth, ChainTypes
<1>3. DOMAIN txs' = DOMAIN txs
  BY DEF NextBlock
<1>4. ASSUME NEW j \in DOMAIN txs
      PROVE  /\ txs'[j].action = txs[j].action
             /\ txs'[j].terms = txs[j].terms
             /\ txs'[j].sender = txs[j].sender
             /\ txs'[j].status = txs[j].status
             /\ txs'[j].hold = txs[j].hold
  <2>1. txs[j] \in Transactions
    BY ElementOfSeq DEF Protocol, StoreTypes
  <2>2. txs'[j] = txs[j] \/ txs'[j] = [txs[j] EXCEPT !.proof = BlockProves(txs[j])]
    BY DEF NextBlock
  <2> QED
    BY <2>1, <2>2 DEF Transactions
<1>5. Provenance'
  BY <1>1, <1>3, <1>4, ProvenanceStays DEF Truth
<1>6. RecordsTrue'
  BY <1>1, <1>2, RecordedStays DEF Truth, RecordsTrue
<1>7. SuccessesHappened'
  <2> SUFFICES ASSUME NEW j \in DOMAIN txs, txs'[j].status = "success"
               PROVE  Happened(txs[j])'
    BY <1>3 DEF SuccessesHappened
  <2> QED
    BY <1>2, <1>3, <1>4, HappenedStays DEF Truth, SuccessesHappened
<1> QED
  BY <1>2, <1>5, <1>6, <1>7 DEF Truth

LEMMA ReportTruth ==
    ASSUME Protocol, Truth, NEW i \in DOMAIN ops, NEW j \in DOMAIN txs, ReportHash(i, j)
    PROVE  Truth'
<1> DEFINE o == [ops[i] EXCEPT !.hash = j, !.status = "pending"]
<1>1. /\ SameCall(ops[i], txs[j])
      /\ ops[i].status = "prepared"
      /\ ops' = [ops EXCEPT ![i].hash = j, ![i].status = "pending"]
      /\ UNCHANGED <<vars, settlements, txs>>
  BY DEF ReportHash, Protocol, HashesFit
<1>2. UNCHANGED <<time, holds, registered, state, usedHold>>
  BY <1>1 DEF vars
<1>3. ops \in Seq(Operations) /\ ops[i] \in Operations
  BY ElementOfSeq DEF Protocol, StoreTypes
<1>4. /\ DOMAIN ops' = DOMAIN ops
      /\ ops'[i] = o
      /\ \A k \in DOMAIN ops \ {i} : ops'[k] = ops[k]
  BY <1>1, <1>3
<1>5. /\ o.match = ops[i].match /\ o.action = ops[i].action /\ o.terms = ops[i].terms
      /\ o.sender = ops[i].sender /\ o.hash = j /\ o.status = "pending"
  BY <1>3 DEF Operations
<1>6. ChainTypes' /\ ChainMove
  BY <1>2, ChainStays DEF Truth, ChainTypes
<1>7. RecordsTrue' /\ SuccessesHappened'
  BY <1>1, <1>6, FactsStay DEF Truth
<1>8. Provenance'
  <2>1. ASSUME NEW k \in DOMAIN ops
        PROVE  /\ ops'[k].match = ops[k].match /\ ops'[k].action = ops[k].action
               /\ ops'[k].terms = ops[k].terms /\ ops'[k].sender = ops[k].sender
               /\ Unresolved(ops'[k]) => Unresolved(ops[k])
    BY <1>1, <1>4, <1>5 DEF Unresolved
  <2>2. ASSUME NEW k \in DOMAIN ops
        PROVE  /\ ops'[k].sender = Sender(ops'[k].action, ops'[k].terms)
               /\ ops'[k].action # "lock" => Fixed(ops[k].terms)'
               /\ Unresolved(ops'[k]) => settlements'[ops'[k].match].terms = ops'[k].terms
    BY <1>1, <2>1 DEF Truth, Provenance, Fixed
  <2>3. ASSUME NEW k \in DOMAIN ops, ops'[k].status = "pending"
        PROVE  SameCall(ops[k], txs[ops[k].hash])'
    <3>1. CASE k = i
      BY <1>1, <1>4, <1>5, <3>1 DEF SameCall, Calldata, LockedHold
    <3>2. CASE k # i
      <4>1. ops'[k] = ops[k]
        BY <1>4, <3>2
      <4>2. SameCall(ops[k], txs[ops[k].hash])
        BY <2>3, <4>1 DEF Truth, Provenance
      <4> QED
        BY <1>1, <4>1, <4>2 DEF SameCall, Calldata, LockedHold
    <3> QED
      BY <3>1, <3>2
  <2>4. \A k \in DOMAIN txs :
          /\ txs[k].sender = Sender(txs[k].action, txs[k].terms)
          /\ txs[k].action # "lock" => Fixed(txs[k].terms)'
    BY <1>1 DEF Truth, Provenance, Fixed
  <2>5. \A m \in Matches :
           /\ settlements'[m].status # "none" => settlements'[m].terms.match = m
           /\ settlements'[m].status \notin {"none", "Unprepared"} =>
                 settlements'[m].terms.hold \in HoldIds
    BY <1>1 DEF Truth, Provenance
  <2> HIDE DEF o
  <2> QED
    BY <1>1, <1>4, <2>2, <2>3, <2>4, <2>5 DEF Provenance, Unresolved, Sender
<1> QED
  BY <1>6, <1>7, <1>8 DEF Truth

(***************************************************************************)
(* The transaction the server reads did what the operation asks for, and   *)
(* nothing has undone it since.                                            *)
(***************************************************************************)
LEMMA RecoverTruth ==
    ASSUME Protocol, Truth, NEW i \in DOMAIN ops, Recover(i)
    PROVE  Truth'
<1> DEFINE o == ops[i]
           x == txs[o.hash]
           m == o.match
           v == settlements[m]
           terms == IF o.action = "lock" THEN [v.terms EXCEPT !.hold = x.hold] ELSE v.terms
           end == IF x.status = "reverted" THEN "reverted" ELSE "verified"
           w == IF x.status = "reverted" THEN v
                ELSE [status |-> StatusAfter[o.action], terms |-> terms]
<1>1. /\ o.status = "pending"
      /\ x.status # "sent"
      /\ ops' = [ops EXCEPT ![i].status = end]
      /\ settlements' = [settlements EXCEPT ![m] = w]
      /\ UNCHANGED <<vars, txs>>
  BY DEF Recover, Closed, Protocol, StoreTypes
<1>2. UNCHANGED <<time, holds, registered, state, usedHold>>
  BY <1>1 DEF vars
<1>3. ChainTypes' /\ ChainMove
  BY <1>2, ChainStays DEF Truth, ChainTypes
<1>4. ops \in Seq(Operations) /\ o \in Operations
  BY ElementOfSeq DEF Protocol, StoreTypes
<1>5. m \in Matches /\ o.action \in Actions /\ o.terms \in TermsRows
  BY <1>4 DEF Operations
<1>6. o.hash \in DOMAIN txs /\ x \in Transactions /\ x.action = o.action
  BY <1>1, ElementOfSeq DEF Protocol, HashesFit, StoreTypes
<1>7. /\ v.status = AllowedFrom[o.action]
      /\ v.terms = o.terms
      /\ SameCall(o, x)
      /\ o.sender = Sender(o.action, o.terms)
      /\ x.sender = Sender(x.action, x.terms)
  BY <1>1, <1>6 DEF Protocol, SlotKeepsMatch, Unresolved, Truth, Provenance
<1>8. /\ DOMAIN ops' = DOMAIN ops
      /\ ops'[i] = [o EXCEPT !.status = end]
      /\ \A k \in DOMAIN ops \ {i} : ops'[k] = ops[k]
  BY <1>1, <1>4
<1>9. /\ settlements'[m] = w
      /\ \A n \in Matches \ {m} : settlements'[n] = settlements[n]
  BY <1>1, <1>5 DEF Protocol, StoreTypes
<1>10. x.status # "reverted" => Happened(x)
  BY <1>1, <1>6 DEF Truth, SuccessesHappened, Transactions
<1>11. /\ v.status # "Unprepared" => w.terms = v.terms
       /\ v.status \notin {"none", "Unprepared"} => w.status \notin {"none", "Unprepared"}
       /\ v.status # "none" /\ w.terms.match = v.terms.match
  BY <1>5, <1>7 DEF AllowedFrom, StatusAfter, Actions, TermsRows
<1>12. ASSUME NEW t \in TermsRows, Fixed(t)
       PROVE  /\ settlements'[t.match].status \notin {"none", "Unprepared"}
              /\ settlements'[t.match].terms = t
  BY <1>9, <1>11, <1>12 DEF Fixed, TermsRows
<1>13. ASSUME x.status # "reverted", NEW n \in Matches, n = m
       PROVE  RecordedOf(n)'
  <2>1. w.status = StatusAfter[o.action] /\ w.terms = terms
    BY <1>13
  <2>2. CASE o.action = "lock"
    <3>1. Made(<<x.terms.seller, x.hold>>, LockedHold(x.terms))
      BY <1>6, <1>10, <1>13, <2>2 DEF Happened
    <3>2. LockedHold(x.terms) = LockedHold(o.terms)
      BY <1>6, <1>7, <2>2 DEF SameCall, Calldata
    <3>3. x.terms.seller = o.terms.seller
      BY <1>6, <1>7, <2>2 DEF SameCall, Sender
    <3>4. Key(terms) = <<o.terms.seller, x.hold>> /\ LockedHold(terms) = LockedHold(o.terms)
      BY <1>5, <1>7, <2>2 DEF Key, LockedHold, TermsRows
    <3>5. Made(Key(terms), LockedHold(terms))
      BY <3>1, <3>2, <3>3, <3>4
    <3>6. settlements'[n].status = "Locked" /\ settlements'[n].terms = terms
      BY <1>9, <1>13, <2>1, <2>2 DEF StatusAfter
    <3> HIDE DEF m, o, x, v, terms
    <3> QED
      BY <1>2, <3>5, <3>6 DEF RecordedOf, Made, Key, Keys, LockedHold, Final
  <2>3. CASE o.action \in {"register", "settle", "cancel", "reclaim"}
    <3>1. x.terms = o.terms
      BY <1>6, <1>7, <2>3 DEF SameCall, Calldata
    <3>2. settlements'[n].status = StatusAfter[o.action] /\ settlements'[n].terms = x.terms
      BY <1>7, <1>9, <1>13, <2>1, <2>3, <3>1
    <3>3. /\ o.action = "register" => x.terms \in registered
          /\ o.action # "register" => Ended(x.terms, StatusAfter[o.action])
      BY <1>6, <1>10, <1>13, <2>3 DEF Happened
    <3> HIDE DEF m, o, x, v, terms
    <3>4. CASE o.action = "register"
      BY <1>2, <3>2, <3>3, <3>4 DEF RecordedOf, StatusAfter, Final
    <3>5. CASE o.action # "register"
      BY <1>2, <2>3, <3>2, <3>3, <3>5 DEF RecordedOf, StatusAfter, Ended, Final
    <3> QED
      BY <3>4, <3>5
  <2>4. CASE o.action = "orphan"
    <3>1. Gone(<<x.sender, x.terms.hold>>)
      BY <1>6, <1>10, <1>13, <2>4 DEF Happened
    <3>2. x.terms.hold = o.terms.hold /\ x.sender = o.terms.seller
      BY <1>6, <1>7, <2>4 DEF SameCall, Calldata, Sender
    <3>3. Gone(Key(o.terms))
      BY <3>1, <3>2 DEF Key
    <3>4. settlements'[n].status = "Returned" /\ settlements'[n].terms = o.terms
      BY <1>7, <1>9, <1>13, <2>1, <2>4 DEF StatusAfter
    <3> HIDE DEF m, o, x, v, terms
    <3> QED
      BY <1>2, <3>3, <3>4 DEF RecordedOf, Gone, Key, Keys, Final
  <2> QED
    BY <1>5, <2>2, <2>3, <2>4 DEF Actions
<1>14. RecordsTrue'
  <2> SUFFICES ASSUME NEW n \in Matches PROVE RecordedOf(n)'
    BY DEF RecordsTrue
  <2>1. CASE settlements'[n] = settlements[n]
    BY <1>3, <2>1, RecordedStays DEF Truth, RecordsTrue
  <2>2. CASE settlements'[n] # settlements[n]
    <3>1. n = m /\ x.status # "reverted"
      BY <1>9, <2>2
    <3> QED
      BY <1>13, <3>1
  <2> QED
    BY <2>1, <2>2
<1>15. SuccessesHappened'
  <2> SUFFICES ASSUME NEW j \in DOMAIN txs, txs[j].status = "success"
               PROVE  Happened(txs[j])'
    BY <1>1 DEF SuccessesHappened
  <2> QED
    BY <1>1, <1>3, HappenedStays DEF Truth, SuccessesHappened
<1>16. x.status # "reverted" /\ o.action = "lock" => x.hold \in HoldIds
  BY <1>6, <1>10 DEF Happened, Made, Keys
<1>17. Provenance'
  <2>1. \A n \in Matches :
           /\ settlements'[n].status # "none" => settlements'[n].terms.match = n
           /\ settlements'[n].status \notin {"none", "Unprepared"} =>
                 settlements'[n].terms.hold \in HoldIds
    <3>1. w.terms.match = m
      BY <1>5, <1>11 DEF Truth, Provenance
    <3>2. w.status \notin {"none", "Unprepared"} => w.terms.hold \in HoldIds
      <4>1. CASE v.status = "Unprepared"
        <5>1. o.action = "lock"
          BY <1>5, <1>7, <4>1 DEF AllowedFrom, Actions
        <5> QED
          BY <1>5, <1>7, <1>16, <4>1, <5>1 DEF TermsRows
      <4>2. CASE v.status # "Unprepared"
        BY <1>5, <1>11, <4>2 DEF Truth, Provenance
      <4> QED
        BY <4>1, <4>2
    <3> HIDE DEF m, w
    <3> QED
      BY <1>9, <3>1, <3>2 DEF Truth, Provenance
  <2>2. ASSUME NEW k \in DOMAIN ops
        PROVE  /\ ops'[k].match = ops[k].match /\ ops'[k].action = ops[k].action
               /\ ops'[k].terms = ops[k].terms /\ ops'[k].sender = ops[k].sender
               /\ ~Unresolved(ops'[k])
    <3>1. CASE k = i
      BY <1>4, <1>8, <3>1 DEF Operations, Unresolved
    <3>2. CASE k # i
      BY <1>1, <1>8, <3>2 DEF Protocol, OneUnresolved, Unresolved
    <3> QED
      BY <3>1, <3>2
  <2>3. ASSUME NEW k \in DOMAIN ops
        PROVE  /\ ops'[k].sender = Sender(ops'[k].action, ops'[k].terms)
               /\ ops'[k].action # "lock" => Fixed(ops[k].terms)'
    <3>0. ops[k] \in Operations
      BY <1>4, ElementOfSeq
    <3>1. ops[k].terms \in TermsRows
      BY <3>0 DEF Operations
    <3>2. /\ ops[k].sender = Sender(ops[k].action, ops[k].terms)
          /\ ops[k].action # "lock" => Fixed(ops[k].terms)
      BY DEF Truth, Provenance
    <3>3. ops[k].action # "lock" =>
             /\ settlements'[ops[k].terms.match].status \notin {"none", "Unprepared"}
             /\ settlements'[ops[k].terms.match].terms = ops[k].terms
      BY <1>12, <3>1, <3>2
    <3> QED
      BY <2>2, <3>2, <3>3 DEF Fixed
  <2>4. ASSUME NEW k \in DOMAIN txs
        PROVE  /\ txs[k].sender = Sender(txs[k].action, txs[k].terms)
               /\ txs[k].action # "lock" => Fixed(txs[k].terms)'
    <3>1. txs[k] \in Transactions
      BY ElementOfSeq DEF Protocol, StoreTypes
    <3>2. txs[k].terms \in TermsRows
      BY <3>1 DEF Transactions
    <3> QED
      BY <1>1, <1>12, <3>2 DEF Truth, Provenance, Fixed
  <2> HIDE DEF o, x, w, m, v, terms, end
  <2> QED
    BY <1>1, <1>2, <1>8, <2>1, <2>2, <2>3, <2>4 DEF Provenance, Unresolved, Sender
<1> QED
  BY <1>3, <1>14, <1>15, <1>17 DEF Truth

-----------------------------------------------------------------------------
LEMMA StepTruth ==
    ASSUME Protocol, Truth, [StoreNext]_allVars
    PROVE  Truth'
<1>1. CASE PrepareAny
  <2>1. PICK m \in Matches, action \in Actions, age \in 0..Lag :
           PrepareSettlement(m, action, time - age)
    BY <1>1 DEF PrepareAny
  <2>2. PICK chainTime \in Int : chainTime = time - age
    BY StoreBoundsAssumption DEF Protocol, StoreTypes
  <2> QED
    BY <2>1, <2>2, PrepareTruth
<1>2. CASE SendAny
  BY <1>2, SendTruth DEF SendAny
<1>3. CASE MineAny
  BY <1>3, MineTruth DEF MineAny
<1>4. CASE OutOfBand
  BY <1>4, OutOfBandTruth
<1>5. CASE NextBlock
  BY <1>5, BlockTruth
<1>6. CASE ReportAny
  BY <1>6, ReportTruth DEF ReportAny
<1>7. CASE RecoverAny
  BY <1>7, RecoverTruth DEF RecoverAny
<1>8. CASE UNCHANGED allVars
  <2>1. UNCHANGED <<time, holds, registered, state, usedHold, settlements, ops, txs>>
    BY <1>8 DEF allVars, storeVars, vars
  <2>2. ChainTypes' /\ ChainMove
    BY <2>1, ChainStays DEF Truth, ChainTypes
  <2>3. RecordsTrue' /\ SuccessesHappened'
    BY <2>1, <2>2, FactsStay DEF Truth
  <2>4. Provenance'
    BY <2>1, ProvenanceStays DEF Truth
  <2> QED
    BY <2>2, <2>3, <2>4 DEF Truth
<1> QED
  BY <1>1, <1>2, <1>3, <1>4, <1>5, <1>6, <1>7, <1>8 DEF StoreNext

THEOREM StoreTruth == StoreSpec => []Truth
<1>1. StoreInit => Truth
  BY InitTruth
<1>2. Protocol /\ Truth /\ [StoreNext]_allVars => Truth'
  BY StepTruth
<1> QED
  BY <1>1, <1>2, StoreProtocol, PTL DEF StoreSpec

(***************************************************************************)
(* RecordedIsTrue: what the settlements table says of a match is true of   *)
(* the contract and the token, now and not only when it was read.          *)
(***************************************************************************)
THEOREM TableIsTrue == StoreSpec => []RecordedIsTrue
<1>1. Truth => RecordedIsTrue
  <2> SUFFICES ASSUME Truth, NEW m \in Matches
               PROVE  LET t == settlements[m].terms
                          h == holds[Key(t)]
                      IN  CASE settlements[m].status \in Final ->
                                  t \in registered /\ state[t] = settlements[m].status
                            [] settlements[m].status = "Ready" -> t \in registered
                            [] settlements[m].status = "Locked" ->
                                  [h EXCEPT !.amount = t.amount] = LockedHold(t)
                            [] settlements[m].status = "Returned" ->
                                  h.amount = 0 /\ t \notin registered /\ Key(t) \in usedHold
                            [] OTHER -> TRUE
    BY DEF RecordedIsTrue
  <2>1. RecordedOf(m)
    BY DEF Truth, RecordsTrue
  <2> QED
    BY <2>1 DEF RecordedOf, Ended, Made, Gone, Final, LockedHold
<1> QED
  BY <1>1, StoreTruth, PTL

-----------------------------------------------------------------------------
(***************************************************************************)
(* The types of the store, those of the chain included.  That no balance   *)
(* becomes negative is in the guards of the token and the contract; what   *)
(* is left is that terms are in the range of the constants, which is as    *)
(* they were prepared, and that hashes and statuses go together.           *)
(***************************************************************************)
Dated(t) == t.preparedAt \in 0..MaxTime /\ t.expiry = t.preparedAt + Validity

TermsDated ==
    /\ \A m \in Matches : settlements[m].status # "none" => Dated(settlements[m].terms)
    /\ \A i \in DOMAIN ops : Dated(ops[i].terms)
    /\ \A j \in DOMAIN txs : Dated(txs[j].terms)

HashKept(o, n) == o.hash \in 0..n /\ (o.hash = NoHash <=> o.status = "prepared")

HashesKept == \A i \in DOMAIN ops : HashKept(ops[i], Len(txs))

Typed == TypeOK /\ TermsDated /\ HashesKept

Quiet == UNCHANGED vars

LEMMA QuietTypes == ASSUME TypeOK, Quiet PROVE TypeOK'
BY DEF TypeOK, Quiet, vars

LEMMA DatedHold ==
    ASSUME NEW t \in TermsRows, Dated(t)
    PROVE  LockedHold(t) \in Holds /\ LockedHold(t).amount = t.amount /\ t.amount \in Nat
<1>1. t.amount \in Amounts /\ t.buyer \in Accounts
  BY AccountsAssumption DEF TermsRows
<1>2. t.expiry \in Times
  BY NumbersAssumption DEF Dated, Times, TermsRows
<1> QED
  BY <1>1, <1>2, NumbersAssumption DEF LockedHold, Holds

LEMMA DatedTerms ==
    ASSUME NEW t \in TermsRows, Dated(t), t.hold \in HoldIds
    PROVE  t \in Terms
<1>1. t.seller \in Accounts /\ t.buyer \in Accounts
  BY AccountsAssumption DEF TermsRows
<1>2. t.expiry \in Times /\ t.preparedAt \in 0..MaxTime
  BY NumbersAssumption DEF Dated, Times, TermsRows
<1> QED
  BY <1>1, <1>2 DEF Terms, TermsRows

-----------------------------------------------------------------------------
(* The steps of the token and the contract.                                *)
LEMMA EmptyingTypes ==
    ASSUME TypeOK, NEW k \in Keys, NEW a \in Accounts, EmptyHold(k, a)
    PROVE  nova' \in [Accounts -> Nat] /\ holds' \in [Keys -> Holds \cup {NoHold}]
<1>1. \A l \in Keys : holds[l] \in Holds \cup {NoHold}
  BY DEF TypeOK
<1>2. \A h \in Holds \cup {NoHold} :
         h.amount \in Nat /\ [h EXCEPT !.amount = 0] \in Holds \cup {NoHold}
  <2>1. ASSUME NEW h \in Holds
        PROVE  h.amount \in Nat /\ [h EXCEPT !.amount = 0] \in Holds
    BY NumbersAssumption DEF Holds
  <2>2. NoHold.amount \in Nat /\ [NoHold EXCEPT !.amount = 0] = NoHold
    BY DEF NoHold
  <2> QED
    BY <2>1, <2>2
<1>3. nova' \in [Accounts -> Nat]
  <2>1. holds[k].amount \in Nat
    BY <1>1, <1>2
  <2> QED
    BY <2>1 DEF EmptyHold, TypeOK
<1>4. holds' = [holds EXCEPT ![k] = [holds[k] EXCEPT !.amount = 0]]
  BY DEF EmptyHold
<1> QED
  BY <1>1, <1>2, <1>3, <1>4 DEF TypeOK

LEMMA CreateTypes ==
    ASSUME TypeOK, NEW a \in Accounts, NEW id \in HoldIds, NEW h \in Holds, CreateHold(a, id, h)
    PROVE  TypeOK'
<1>1. <<a, id>> \in Keys
  BY DEF Keys
<1>2. h.amount \in Nat
  BY AmountType DEF Holds
<1>3. /\ h.amount <= nova[a]
      /\ holds' = [holds EXCEPT ![<<a, id>>] = h]
      /\ nova' = [nova EXCEPT ![a] = @ - h.amount]
      /\ UNCHANGED <<time, hbar, registered, state, matchDigest, usedHold>>
  BY DEF CreateHold, CanCreate
<1>4. nova[a] - h.amount \in Nat
  BY <1>2, <1>3 DEF TypeOK
<1>5. nova' \in [Accounts -> Nat]
  BY <1>3, <1>4 DEF TypeOK
<1>6. holds' \in [Keys -> Holds \cup {NoHold}]
  BY <1>1, <1>3 DEF TypeOK
<1> QED
  BY <1>3, <1>5, <1>6 DEF TypeOK

LEMMA RegisterTypes ==
    ASSUME TypeOK, NEW t \in Terms, NEW sender, Register(t, sender)
    PROVE  TypeOK'
<1>1. /\ usedHold' = usedHold \cup {Key(t)}
      /\ matchDigest' = [matchDigest EXCEPT ![t.match] = t]
      /\ registered' = registered \cup {t}
      /\ state' = [u \in registered \cup {t} |-> IF u = t THEN "Ready" ELSE state[u]]
      /\ UNCHANGED <<time, nova, holds, hbar>>
  BY DEF Register
<1>2. Key(t) \in Keys
  BY DEF Key, Keys, Terms
<1>3. state' \in [registered' -> States]
  BY <1>1 DEF TypeOK, States
<1>4. matchDigest' \in [Matches -> Terms \cup {NoTerms}]
  BY <1>1 DEF TypeOK
<1> QED
  BY <1>1, <1>2, <1>3, <1>4 DEF TypeOK

LEMMA EndTypes ==
    ASSUME TypeOK, NEW t, NEW a \in {t.seller, t.buyer}, NEW outcome \in Final,
           IsReady(t), EmptyHold(Key(t), a), state' = [state EXCEPT ![t] = outcome],
           hbar' \in [Accounts \cup {Contract} -> Nat],
           UNCHANGED <<time, registered, matchDigest, usedHold>>
    PROVE  TypeOK'
<1>1. t \in registered /\ t \in Terms
  BY DEF IsReady, TypeOK
<1>2. Key(t) \in Keys /\ a \in Accounts
  BY <1>1 DEF Key, Keys, Terms
<1>3. state' \in [registered -> States]
  BY <1>1 DEF TypeOK, Final, States
<1>4. nova' \in [Accounts -> Nat] /\ holds' \in [Keys -> Holds \cup {NoHold}]
  BY <1>2, EmptyingTypes
<1> QED
  BY <1>3, <1>4 DEF TypeOK

LEMMA SettleTypes ==
    ASSUME TypeOK, NEW t, NEW sender, NEW value, Settle(t, sender, value)
    PROVE  TypeOK'
<1>1. t \in Terms /\ sender = t.buyer
  BY DEF Settle, CanSettle, IsReady, TypeOK
<1>2. t.seller \in Accounts /\ sender \in Accounts /\ t.amount \in Nat /\ t.price \in Nat
  BY <1>1, NumbersAssumption DEF Terms
<1>3. PICK price \in Nat : price = Price(t)
  BY <1>2, Z3 DEF Price
<1>4. /\ price <= hbar[sender]
      /\ hbar' = [hbar EXCEPT ![sender] = @ - price, ![t.seller] = @ + price]
  BY <1>3 DEF Settle, CanSettle
<1>5. hbar[sender] - price \in Nat /\ \A b \in Accounts \cup {Contract} : hbar[b] + price \in Nat
  BY <1>2, <1>3, <1>4 DEF TypeOK
<1>6. hbar' \in [Accounts \cup {Contract} -> Nat]
  BY <1>2, <1>3, <1>4, <1>5 DEF TypeOK
<1>7. /\ IsReady(t) /\ EmptyHold(Key(t), t.buyer) /\ state' = [state EXCEPT ![t] = "Settled"]
      /\ UNCHANGED <<time, registered, matchDigest, usedHold>>
  BY DEF Settle, CanSettle
<1> QED
  BY <1>6, <1>7, EndTypes DEF Final

LEMMA CancelTypes ==
    ASSUME TypeOK, NEW t, NEW sender, Cancel(t, sender) \/ Reclaim(t, sender)
    PROVE  TypeOK'
<1>1. PICK outcome \in Final :
         /\ IsReady(t) /\ EmptyHold(Key(t), t.seller)
         /\ state' = [state EXCEPT ![t] = outcome]
         /\ UNCHANGED <<time, hbar, registered, matchDigest, usedHold>>
  BY DEF Cancel, Reclaim, CanReturn, Final
<1>2. hbar' \in [Accounts \cup {Contract} -> Nat]
  BY <1>1 DEF TypeOK
<1> QED
  BY <1>1, <1>2, EndTypes

LEMMA OrphanTypes ==
    ASSUME TypeOK, NEW a \in Accounts, NEW id \in HoldIds, RecoverOrphan(a, id)
    PROVE  TypeOK'
<1>1. <<a, id>> \in Keys
  BY DEF Keys
<1>2. /\ usedHold' = usedHold \cup {<<a, id>>}
      /\ EmptyHold(<<a, id>>, a)
      /\ UNCHANGED <<time, hbar, registered, state, matchDigest>>
  BY DEF RecoverOrphan
<1> QED
  BY <1>1, <1>2, EmptyingTypes DEF TypeOK

LEMMA OutOfBandTypes ==
    ASSUME TypeOK, OutOfBand PROVE TypeOK'
<1>1. ASSUME NEW a \in Accounts, NEW id \in HoldIds, NEW h \in NewHolds, CreateHold(a, id, h)
      PROVE  TypeOK'
  BY <1>1, InputsAssumption, CreateTypes
<1>2. ASSUME NEW k \in Keys, ReclaimAtAts(k) PROVE TypeOK'
  <2>1. k[1] \in Accounts
    BY DEF Keys
  <2>2. EmptyHold(k, k[1]) /\ UNCHANGED <<time, hbar, registered, state, matchDigest, usedHold>>
    BY <1>2 DEF ReclaimAtAts
  <2> QED
    BY <2>1, <2>2, EmptyingTypes DEF TypeOK
<1>3. ASSUME NEW t \in Offers, NEW sender \in Accounts, Register(t, sender)
      PROVE  TypeOK'
  BY <1>3, OfferedTerms, RegisterTypes
<1>4. ASSUME NEW a \in Accounts, NEW id \in HoldIds, RecoverOrphan(a, id) PROVE TypeOK'
  BY <1>4, OrphanTypes
<1> QED
  BY <1>1, <1>2, <1>3, <1>4, SettleTypes, CancelTypes DEF OutOfBand, TokenStep, ContractStep

LEMMA SuccessTypes ==
    ASSUME Truth, TypeOK, NEW x \in Transactions, Succeeds(x), Dated(x.terms),
           x.sender = Sender(x.action, x.terms), x.action # "lock" => Fixed(x.terms)
    PROVE  TypeOK'
<1> DEFINE t == x.terms
<1>1. t \in TermsRows /\ x.sender \in Accounts
  BY AccountsAssumption DEF Transactions
<1>2. ASSUME x.action # "lock" PROVE t.hold \in HoldIds /\ t \in Terms
  <2>1. t.hold \in HoldIds
    BY <1>1, <1>2 DEF Truth, Provenance, Fixed, TermsRows
  <2> QED
    BY <1>1, <2>1, DatedTerms
<1>3. CASE x.action = "lock"
  <2>1. NextHold(t.seller) # 0 /\ CreateHold(t.seller, NextHold(t.seller), LockedHold(t))
    BY <1>3 DEF Succeeds
  <2>2. PICK id \in HoldIds : id = NextHold(t.seller)
    BY <2>1, NextHoldIsId
  <2>3. t.seller \in Accounts /\ LockedHold(t) \in Holds
    BY <1>1, DatedHold, AccountsAssumption DEF TermsRows
  <2> QED
    BY <2>1, <2>2, <2>3, CreateTypes
<1>4. CASE x.action = "register"
  BY <1>2, <1>4, RegisterTypes DEF Succeeds
<1>5. CASE x.action = "settle"
  <2>1. Settle(t, x.sender, Price(t))
    BY <1>5 DEF Succeeds
  <2> QED
    BY <2>1, SettleTypes
<1>6. CASE x.action \in {"cancel", "reclaim"}
  BY <1>6, CancelTypes DEF Succeeds
<1>7. CASE x.action = "orphan"
  BY <1>1, <1>2, <1>7, OrphanTypes DEF Succeeds
<1> QED
  BY <1>3, <1>4, <1>5, <1>6, <1>7 DEF Transactions, Actions

-----------------------------------------------------------------------------
(* The steps of the server, the wallets and the blocks.                    *)
LEMMA InitTyped == StoreInit => Typed
<1> SUFFICES ASSUME StoreInit PROVE Typed
  OBVIOUS
<1>1. TypeOK
  <2>1. Init
    BY DEF StoreInit
  <2>2. 0 \in 0..MaxTime
    BY NumbersAssumption
  <2>3. hbar \in [Accounts \cup {Contract} -> Nat]
    BY <2>1, NumbersAssumption DEF Init
  <2> QED
    BY <2>1, <2>2, <2>3, NumbersAssumption DEF Init, TypeOK
<1>2. ops = <<>> /\ txs = <<>> /\ DOMAIN ops = {} /\ DOMAIN txs = {}
      /\ \A m \in Matches : settlements[m].status = "none"
  BY DEF StoreInit, NoSettlement
<1> QED
  BY <1>1, <1>2 DEF Typed, TermsDated, HashesKept

LEMMA PrepareTyped ==
    ASSUME Protocol, Typed, NEW m \in Matches, NEW action \in Actions,
           NEW chainTime \in 0..MaxTime, PrepareSettlement(m, action, chainTime)
    PROVE  Typed'
<1> DEFINE old == settlements[m]
           first == [status |-> "Unprepared", terms |-> FirstTerms(m, chainTime)]
           v == IF old = NoSettlement /\ action = "lock" THEN first ELSE old
           o == [match |-> m, action |-> action, terms |-> v.terms,
                 sender |-> Sender(action, v.terms), status |-> "prepared", hash |-> NoHash]
<1>1. /\ v.status = AllowedFrom[action]
      /\ settlements' = [settlements EXCEPT ![m] = v]
      /\ ops' = Append(ops, o)
      /\ UNCHANGED <<txs, vars>>
  BY DEF PrepareSettlement
<1>2. first.terms.preparedAt = chainTime /\ first.terms.expiry = chainTime + Validity
  BY DEF FirstTerms
<1>3. Dated(v.terms)
  <2>1. CASE old = NoSettlement /\ action = "lock"
    BY <1>2, <2>1 DEF Dated
  <2>2. CASE ~(old = NoSettlement /\ action = "lock")
    <3>1. v = old /\ v.status # "none"
      BY <1>1, <2>2 DEF AllowedFrom, Actions
    <3> QED
      BY <3>1 DEF Typed, TermsDated
  <2> QED
    BY <2>1, <2>2
<1>4. /\ settlements'[m] = v
      /\ \A n \in Matches \ {m} : settlements'[n] = settlements[n]
  BY <1>1 DEF Protocol, StoreTypes
<1>5. /\ DOMAIN ops' = DOMAIN ops \cup {Len(ops) + 1}
      /\ \A i \in DOMAIN ops : ops'[i] = ops[i]
      /\ ops'[Len(ops) + 1] = o
  <2>1. ops \in Seq(Operations)
    BY DEF Protocol, StoreTypes
  <2> HIDE DEF o
  <2> QED
    BY <1>1, <2>1
<1>6. o.terms = v.terms /\ o.status = "prepared" /\ o.hash = NoHash
  OBVIOUS
<1>7. TermsDated'
  <2> HIDE DEF v, o
  <2> QED
    BY <1>1, <1>3, <1>4, <1>5, <1>6 DEF Typed, TermsDated, Dated
<1>8. HashesKept'
  <2>1. Len(txs) \in Nat
    BY DEF Protocol, StoreTypes
  <2>2. HashKept(o, Len(txs))
    BY <1>6, <2>1 DEF HashKept, NoHash
  <2> HIDE DEF o
  <2> QED
    BY <1>1, <1>5, <2>2 DEF Typed, HashesKept, HashKept, NoHash
<1>9. TypeOK'
  BY <1>1, QuietTypes DEF Quiet, Typed
<1> QED
  BY <1>7, <1>8, <1>9 DEF Typed

LEMMA SendTyped ==
    ASSUME Protocol, Typed, NEW i \in DOMAIN ops, Send(i)
    PROVE  Typed'
<1> DEFINE x == [action |-> ops[i].action, terms |-> ops[i].terms, sender |-> ops[i].sender,
                 status |-> "sent", block |-> 0, hold |-> 0, proof |-> FALSE]
<1>1. txs' = Append(txs, x) /\ UNCHANGED <<vars, settlements, ops>> /\ x.terms = ops[i].terms
  BY DEF Send
<1>2. /\ DOMAIN txs' = DOMAIN txs \cup {Len(txs) + 1}
      /\ \A j \in DOMAIN txs : txs'[j] = txs[j]
      /\ txs'[Len(txs) + 1] = x
      /\ Len(txs') = Len(txs) + 1 /\ Len(txs) \in Nat
  <2>1. txs \in Seq(Transactions)
    BY DEF Protocol, StoreTypes
  <2> HIDE DEF x
  <2> QED
    BY <1>1, <2>1
<1>3. TermsDated'
  <2> HIDE DEF x
  <2> QED
    BY <1>1, <1>2 DEF Typed, TermsDated, Dated
<1>4. HashesKept'
  <2>1. \A k \in DOMAIN ops : HashKept(ops[k], Len(txs)) => HashKept(ops[k], Len(txs'))
    BY <1>2 DEF HashKept
  <2> QED
    BY <1>1, <2>1 DEF Typed, HashesKept, HashKept, NoHash
<1>5. TypeOK'
  BY <1>1, QuietTypes DEF Quiet, Typed
<1> QED
  BY <1>3, <1>4, <1>5 DEF Typed

(* What leaves the operations and the terms alone.                         *)
LEMMA RestTyped ==
    ASSUME Typed, TypeOK', UNCHANGED <<settlements, ops>>,
           DOMAIN txs' = DOMAIN txs, Len(txs') = Len(txs),
           \A j \in DOMAIN txs : txs'[j].terms = txs[j].terms
    PROVE  Typed'
<1>1. TermsDated'
  BY DEF Typed, TermsDated, Dated
<1>2. HashesKept'
  BY DEF Typed, HashesKept, HashKept, NoHash
<1> QED
  BY <1>1, <1>2 DEF Typed

LEMMA MineTyped ==
    ASSUME Protocol, Truth, Typed, NEW j \in DOMAIN txs, Mine(j)
    PROVE  Typed'
<1>1. txs \in Seq(Transactions) /\ txs[j] \in Transactions
  BY ElementOfSeq DEF Protocol, StoreTypes
<1>2. PICK x \in Transactions : x = txs[j]
  BY <1>1
<1>3. PICK status, hold :
         txs' = [txs EXCEPT ![j].status = status, ![j].block = time, ![j].hold = hold]
  <2> DEFINE made == IF txs[j].action = "lock" THEN NextHold(txs[j].terms.seller) ELSE 0
             Mined(status, hold) ==
               txs' = [txs EXCEPT ![j].status = status, ![j].block = time, ![j].hold = hold]
  <2>1. Mined("success", made) \/ Mined("reverted", 0)
    BY DEF Mine
  <2>2. \E status, hold : Mined(status, hold)
    <3> HIDE DEF made, Mined
    <3> QED
      BY <2>1
  <2> QED
    BY <2>2
<1>4. DOMAIN txs' = DOMAIN txs /\ Len(txs') = Len(txs)
      /\ \A k \in DOMAIN txs : txs'[k].terms = txs[k].terms
  <2>1. PICK y : y = [txs[j] EXCEPT !.status = status, !.block = time, !.hold = hold]
    OBVIOUS
  <2>2. y.terms = txs[j].terms
    BY <1>1, <2>1 DEF Transactions
  <2>3. txs' = [txs EXCEPT ![j] = y]
    BY <1>3, <2>1
  <2> QED
    BY <1>1, <2>2, <2>3
<1>5. TypeOK'
  <2>1. CASE Succeeds(x)
    <3>1. Dated(x.terms)
      BY <1>2 DEF Typed, TermsDated
    <3>2. x.sender = Sender(x.action, x.terms) /\ (x.action # "lock" => Fixed(x.terms))
      BY <1>2 DEF Truth, Provenance
    <3> QED
      BY <2>1, <3>1, <3>2, SuccessTypes DEF Typed
  <2>2. CASE Quiet
    BY <2>2, QuietTypes DEF Typed
  <2> QED
    BY <1>2, <2>1, <2>2 DEF Mine, Quiet
<1> QED
  BY <1>4, <1>5, RestTyped DEF Mine

LEMMA OutOfBandTyped ==
    ASSUME Typed, OutOfBand PROVE Typed'
<1>1. TypeOK'
  BY OutOfBandTypes DEF Typed
<1>2. UNCHANGED <<settlements, ops, txs>>
  BY DEF OutOfBand, storeVars
<1> QED
  BY <1>1, <1>2, RestTyped

LEMMA BlockTyped ==
    ASSUME Protocol, Typed, NextBlock PROVE Typed'
<1>1. TypeOK'
  <2>1. time < MaxTime /\ time' = time + 1
        /\ UNCHANGED <<nova, holds, hbar, registered, state, matchDigest, usedHold>>
    BY DEF NextBlock, Advance, chain
  <2>2. time' \in 0..MaxTime
    BY <2>1, NumbersAssumption DEF Typed, TypeOK
  <2> QED
    BY <2>1, <2>2 DEF Typed, TypeOK
<1>2. UNCHANGED <<settlements, ops>>
  BY DEF NextBlock
<1>3. DOMAIN txs' = DOMAIN txs /\ Len(txs') = Len(txs)
  <2> DEFINE y(j) == IF txs[j].status # "sent" /\ txs[j].block = time
                     THEN [txs[j] EXCEPT !.proof = BlockProves(txs[j])] ELSE txs[j]
  <2>1. txs' = [j \in DOMAIN txs |-> y(j)]
    BY DEF NextBlock
  <2>2. DOMAIN txs = 1..Len(txs) /\ Len(txs) \in Nat
    BY DEF Protocol, StoreTypes
  <2> HIDE DEF y
  <2>3. txs' \in Seq({y(j) : j \in DOMAIN txs})
    BY <2>1, <2>2, SeqDef
  <2>4. DOMAIN txs' = 1..Len(txs') /\ Len(txs') \in Nat
    BY <2>3
  <2> QED
    BY <2>1, <2>2, <2>4
<1>4. ASSUME NEW j \in DOMAIN txs PROVE txs'[j].terms = txs[j].terms
  <2>1. txs[j] \in Transactions
    BY ElementOfSeq DEF Protocol, StoreTypes
  <2>2. txs'[j] = txs[j] \/ txs'[j] = [txs[j] EXCEPT !.proof = BlockProves(txs[j])]
    BY DEF NextBlock
  <2> QED
    BY <2>1, <2>2 DEF Transactions
<1> QED
  BY <1>1, <1>2, <1>3, <1>4, RestTyped

LEMMA ReportTyped ==
    ASSUME Protocol, Typed, NEW i \in DOMAIN ops, NEW j \in DOMAIN txs, ReportHash(i, j)
    PROVE  Typed'
<1>1. PICK o : o = [ops[i] EXCEPT !.hash = j, !.status = "pending"]
  OBVIOUS
<1>2. ops' = [ops EXCEPT ![i] = o] /\ UNCHANGED <<vars, settlements, txs>>
  BY <1>1 DEF ReportHash
<1>3. ops \in Seq(Operations) /\ ops[i] \in Operations /\ txs \in Seq(Transactions)
  BY ElementOfSeq DEF Protocol, StoreTypes
<1>4. o.terms = ops[i].terms /\ o.hash = j /\ o.status = "pending"
  BY <1>1, <1>3 DEF Operations
<1>5. DOMAIN ops' = DOMAIN ops /\ \A k \in DOMAIN ops : ops'[k] = IF k = i THEN o ELSE ops[k]
  BY <1>2, <1>3
<1>6. HashKept(o, Len(txs))
  <2>1. Len(txs) \in Nat /\ j \in 1..Len(txs)
    BY <1>3
  <2> QED
    BY <1>4, <2>1 DEF HashKept, NoHash
<1>7. TermsDated'
  BY <1>2, <1>4, <1>5 DEF Typed, TermsDated, Dated
<1>8. HashesKept'
  BY <1>2, <1>5, <1>6 DEF Typed, HashesKept, HashKept, NoHash
<1>9. TypeOK'
  BY <1>2, QuietTypes DEF Quiet, Typed
<1> QED
  BY <1>7, <1>8, <1>9 DEF Typed

LEMMA RecoverTyped ==
    ASSUME Protocol, Typed, NEW i \in DOMAIN ops, Recover(i)
    PROVE  Typed'
<1> DEFINE x == txs[ops[i].hash]
           m == ops[i].match
           v == settlements[m]
           terms == IF ops[i].action = "lock" THEN [v.terms EXCEPT !.hold = x.hold] ELSE v.terms
           w == IF x.status = "reverted" THEN v
                ELSE [status |-> StatusAfter[ops[i].action], terms |-> terms]
<1>1. PICK end \in {"reverted", "verified"} :
         /\ ops[i].status = "pending"
         /\ ops' = [ops EXCEPT ![i].status = end]
         /\ settlements' = [settlements EXCEPT ![m] = w]
         /\ UNCHANGED <<vars, txs>>
  BY DEF Recover, Protocol, StoreTypes
<1>2. PICK o : o = [ops[i] EXCEPT !.status = end]
  OBVIOUS
<1>3. ops \in Seq(Operations) /\ ops[i] \in Operations
  BY ElementOfSeq DEF Protocol, StoreTypes
<1>4. o.terms = ops[i].terms /\ o.hash = ops[i].hash /\ o.status = end
  BY <1>2, <1>3 DEF Operations
<1>5. DOMAIN ops' = DOMAIN ops /\ \A k \in DOMAIN ops : ops'[k] = IF k = i THEN o ELSE ops[k]
  BY <1>1, <1>2, <1>3
<1>6. m \in Matches /\ ops[i].action \in Actions /\ v \in Settlements
  BY <1>3 DEF Operations, Protocol, StoreTypes
<1>7. v.status # "none" /\ v.terms \in TermsRows
  <2>1. v.status = AllowedFrom[ops[i].action]
    BY <1>1 DEF Protocol, SlotKeepsMatch, Unresolved
  <2> QED
    BY <1>6, <2>1 DEF AllowedFrom, Actions, Settlements, NoSettlement
<1>8. Dated(w.terms)
  <2>1. Dated(v.terms)
    BY <1>6, <1>7 DEF Typed, TermsDated
  <2>2. terms.preparedAt = v.terms.preparedAt /\ terms.expiry = v.terms.expiry
    BY <1>7 DEF TermsRows
  <2>3. w.terms = v.terms \/ w.terms = terms
    OBVIOUS
  <2> HIDE DEF terms, w
  <2> QED
    BY <2>1, <2>2, <2>3 DEF Dated
<1>9. settlements'[m] = w /\ \A n \in Matches \ {m} : settlements'[n] = settlements[n]
  BY <1>1, <1>6 DEF Protocol, StoreTypes
<1>10. TermsDated'
  <2> HIDE DEF w, m
  <2> QED
    BY <1>1, <1>4, <1>5, <1>8, <1>9 DEF Typed, TermsDated, Dated
<1>11. HashesKept'
  BY <1>1, <1>4, <1>5 DEF Typed, HashesKept, HashKept, NoHash
<1>12. TypeOK'
  BY <1>1, QuietTypes DEF Quiet, Typed
<1> QED
  BY <1>10, <1>11, <1>12 DEF Typed

LEMMA StepTyped ==
    ASSUME Protocol, Truth, Typed, [StoreNext]_allVars
    PROVE  Typed'
<1>1. CASE PrepareAny
  <2>1. PICK m \in Matches, action \in Actions, age \in 0..Lag :
           age <= time /\ PrepareSettlement(m, action, time - age)
    BY <1>1 DEF PrepareAny
  <2>2. time \in 0..MaxTime
    BY DEF Typed, TypeOK
  <2>3. PICK chainTime \in 0..MaxTime : chainTime = time - age
    BY <2>1, <2>2, StoreBoundsAssumption, NumbersAssumption
  <2> QED
    BY <2>1, <2>3, PrepareTyped
<1>2. CASE SendAny
  BY <1>2, SendTyped DEF SendAny
<1>3. CASE MineAny
  BY <1>3, MineTyped DEF MineAny
<1>4. CASE OutOfBand
  BY <1>4, OutOfBandTyped
<1>5. CASE NextBlock
  BY <1>5, BlockTyped
<1>6. CASE ReportAny
  BY <1>6, ReportTyped DEF ReportAny
<1>7. CASE RecoverAny
  BY <1>7, RecoverTyped DEF RecoverAny
<1>8. CASE UNCHANGED allVars
  <2>1. UNCHANGED <<vars, settlements, ops, txs>>
    BY <1>8 DEF allVars, storeVars
  <2> QED
    BY <2>1, QuietTypes, RestTyped DEF Quiet, Typed
<1> QED
  BY <1>1, <1>2, <1>3, <1>4, <1>5, <1>6, <1>7, <1>8 DEF StoreNext

(***************************************************************************)
(* StoreTypeOK: the tables, the contract and the balances are well formed, *)
(* an operation has a hash of a transaction from its report on, and at     *)
(* most one is unresolved: the slot is never taken twice, whatever is      *)
(* sent or reported in between (settlement.go 151 to 158).                 *)
(***************************************************************************)
THEOREM StoreIsTyped == StoreSpec => []StoreTypeOK
<1>1. Protocol /\ Truth /\ [StoreNext]_allVars /\ Typed => Typed'
  BY StepTyped
<1>2. Protocol /\ Typed => StoreTypeOK
  <2> SUFFICES ASSUME Protocol, Typed PROVE StoreTypeOK
    OBVIOUS
  <2>1. \A m \in Matches : settlements[m].status \in SettlementStatuses
    <3>1. \A s \in Settlements : s.status \in SettlementStatuses
      BY DEF Settlements, NoSettlement, SettlementStatuses
    <3> QED
      BY <3>1 DEF Protocol, StoreTypes
  <2>2. ASSUME NEW i \in DOMAIN ops
        PROVE  /\ ops[i].status \in {"prepared", "pending", "verified", "reverted"}
               /\ ops[i].hash \in DOMAIN txs \cup {NoHash}
               /\ ops[i].hash = NoHash <=> ops[i].status = "prepared"
    <3>1. ops[i] \in Operations /\ DOMAIN txs = 1..Len(txs) /\ Len(txs) \in Nat
      BY ElementOfSeq DEF Protocol, StoreTypes
    <3>2. HashKept(ops[i], Len(txs))
      BY DEF Typed, HashesKept
    <3> QED
      BY <3>1, <3>2 DEF Operations, HashKept, NoHash
  <2>3. Cardinality({i \in DOMAIN ops : Unresolved(ops[i])}) <= 1
    <3> DEFINE U == {i \in DOMAIN ops : Unresolved(ops[i])}
    <3>1. CASE U = {}
      BY <3>1, FS_EmptySet
    <3>2. CASE U # {}
      <4>1. PICK i : i \in U
        BY <3>2
      <4>2. U = {i}
        BY <4>1 DEF Protocol, OneUnresolved
      <4>3. Cardinality(U) = 1
        BY <4>2, FS_Singleton
      <4> QED
        BY <4>3
    <3> QED
      BY <3>1, <3>2
  <2> QED
    BY <2>1, <2>2, <2>3 DEF StoreTypeOK, Typed
<1> QED
  BY <1>1, <1>2, InitTyped, StoreProtocol, StoreTruth, PTL DEF StoreSpec

-----------------------------------------------------------------------------
(***************************************************************************)
(* The deals of the contract beside those of the table.                    *)
(***************************************************************************)
DealsApart ==
    /\ \A t \in registered : matchDigest[t.match] = t /\ Key(t) \in usedHold
    /\ DistinctKeys

(* No step but a registration adds a deal or changes what a match has.     *)
DealsStay ==
    /\ registered' = registered /\ matchDigest' = matchDigest
    /\ usedHold \subseteq usedHold'

LEMMA DealsStayApart == ASSUME DealsApart, DealsStay PROVE DealsApart'
BY DEF DealsApart, DealsStay, DistinctKeys, Key

LEMMA RegisterApart ==
    ASSUME TypeOK, DealsApart, NEW t \in Terms, NEW sender, Register(t, sender)
    PROVE  DealsApart'
<1>1. /\ matchDigest[t.match] = NoTerms /\ Key(t) \notin usedHold
      /\ usedHold' = usedHold \cup {Key(t)}
      /\ matchDigest' = [matchDigest EXCEPT ![t.match] = t]
      /\ registered' = registered \cup {t}
  BY DEF Register, CanRegister
<1>2. t.match \in Matches /\ matchDigest'[t.match] = t
  BY <1>1 DEF Terms, TypeOK
<1>3. ASSUME NEW u \in registered
      PROVE  u.match # t.match /\ matchDigest'[u.match] = u /\ Key(u) # Key(t)
  <2>1. u \in Terms /\ u # NoTerms /\ u.match \in Matches
    BY NoTermsAssumption DEF TypeOK, Terms
  <2> QED
    BY <1>1, <2>1 DEF DealsApart, TypeOK
<1> QED
  BY <1>1, <1>2, <1>3 DEF DealsApart, DistinctKeys, Key

LEMMA SuccessApart ==
    ASSUME Truth, TypeOK, DealsApart, NEW x \in Transactions, Succeeds(x), Dated(x.terms),
           x.action # "lock" => Fixed(x.terms)
    PROVE  DealsApart'
<1>1. CASE x.action = "register"
  <2>1. x.terms \in TermsRows
    BY DEF Transactions
  <2>2. x.terms.hold \in HoldIds
    BY <1>1, <2>1 DEF Truth, Provenance, Fixed, TermsRows
  <2> QED
    BY <1>1, <2>1, <2>2, DatedTerms, RegisterApart DEF Succeeds
<1>2. CASE x.action # "register"
  <2>1. DealsStay
    BY <1>2 DEF Transactions, Actions, Succeeds, CreateHold, Settle, Cancel, Reclaim,
                RecoverOrphan, DealsStay
  <2> QED
    BY <2>1, DealsStayApart
<1> QED
  BY <1>1, <1>2

LEMMA StepApart ==
    ASSUME Protocol, Truth, Typed, DealsApart, [StoreNext]_allVars
    PROVE  DealsApart'
<1>1. CASE MineAny
  <2>1. PICK j \in DOMAIN txs : Mine(j)
    BY <1>1 DEF MineAny
  <2>2. txs[j] \in Transactions
    BY ElementOfSeq DEF Protocol, StoreTypes
  <2>3. Dated(txs[j].terms) /\ (txs[j].action # "lock" => Fixed(txs[j].terms))
    BY DEF Typed, TermsDated, Truth, Provenance
  <2>4. CASE UNCHANGED vars
    BY <2>4, DealsStayApart DEF vars, DealsStay
  <2>5. CASE Succeeds(txs[j])
    BY <2>2, <2>3, <2>5, SuccessApart DEF Typed
  <2> QED
    BY <2>1, <2>4, <2>5 DEF Mine
<1>2. CASE OutOfBand
  <2>1. ASSUME NEW t \in Offers, NEW sender \in Accounts, Register(t, sender)
        PROVE  DealsApart'
    BY <2>1, OfferedTerms, RegisterApart DEF Typed
  <2>2. ASSUME ~ \E t \in Offers, sender \in Accounts : Register(t, sender)
        PROVE  DealsStay
    BY <1>2, <2>2 DEF OutOfBand, TokenStep, ContractStep, CreateHold, ReclaimAtAts, Settle,
                      Cancel, Reclaim, RecoverOrphan, DealsStay
  <2> QED
    BY <2>1, <2>2, DealsStayApart
<1>3. CASE PrepareAny \/ SendAny \/ NextBlock \/ ReportAny \/ RecoverAny \/ UNCHANGED allVars
  <2>1. DealsStay
    BY <1>3 DEF PrepareAny, PrepareSettlement, SendAny, Send, NextBlock, Advance, chain,
                ReportAny, ReportHash, RecoverAny, Recover, vars, allVars, DealsStay
  <2> QED
    BY <2>1, DealsStayApart
<1> QED
  BY <1>1, <1>2, <1>3 DEF StoreNext

(***************************************************************************)
(* ShownDealsAreExclusive: whatever the traders register without the       *)
(* server, a deal that the table shows as Ready or ended has its match and *)
(* its Hold for itself (NovaSettlement.sol 59 to 75, settlement.go 311).   *)
(***************************************************************************)
THEOREM ShownDealsStandAlone == StoreSpec => []ShownDealsAreExclusive
<1>1. StoreInit => DealsApart
  BY DEF StoreInit, Init, DealsApart, DistinctKeys
<1>2. Protocol /\ Truth /\ Typed /\ DealsApart /\ [StoreNext]_allVars => DealsApart'
  BY StepApart
<1>3. Truth /\ DealsApart => ShownDealsAreExclusive
  <2> SUFFICES ASSUME Truth, DealsApart, NEW m \in Matches, NEW t \in registered,
                      settlements[m].status \in {"Ready"} \cup Final,
                      t.match = m \/ Key(t) = Key(settlements[m].terms)
               PROVE  t = settlements[m].terms
    BY DEF ShownDealsAreExclusive
  <2>1. settlements[m].terms \in registered
    BY DEF Truth, RecordsTrue, RecordedOf, Ended
  <2>2. settlements[m].terms.match = m
    BY DEF Truth, Provenance, Final
  <2> QED
    BY <2>1, <2>2 DEF DealsApart, DistinctKeys
<1>4. Protocol /\ Truth /\ [StoreNext]_allVars /\ Typed => Typed'
  BY StepTyped
<1> QED
  BY <1>1, <1>2, <1>3, <1>4, InitTyped, StoreProtocol, StoreTruth, PTL DEF StoreSpec
===========================================================================
