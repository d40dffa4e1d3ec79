-------------------------------- MODULE Escrow --------------------------------
(***************************************************************************)
(* What contracts/NovaSettlement.sol promises, one atomic step per         *)
(* successful call: a call that reverts changes nothing and is a           *)
(* stuttering step.  NovaSettlement.tla takes the calls apart and          *)
(* implements this module; SettlementStore.tla composes it with the        *)
(* server.                                                                 *)
(*                                                                         *)
(* The Holds belong to the ATS NOVA token, which is outside the            *)
(* repository; what is modelled of it is what the contract relies on       *)
(* (contracts/test/NovaSettlement.t.sol, SettlementHoldFixture): a Hold is *)
(* executed or released by its escrow before it expires, and from that     *)
(* second on anybody may send it back to its holder.                       *)
(*                                                                         *)
(* A digest is collision free: the terms stand for their digest.  Order    *)
(* ids, the market salt and the chain id, which the digest also covers,    *)
(* are left out.                                                           *)
(***************************************************************************)
EXTENDS Integers, FiniteSets

CONSTANTS
    Accounts,       \* accounts that hold NOVA and HBAR
    Traders,        \* ACCOUNT_A and ACCOUNT_B
    Contract,       \* this settlement contract
    Elsewhere,      \* any other escrow
    Matches,        \* match ids
    NoTerms,        \* the digest of a match that was never registered
    HoldIds,        \* the ids ATS gives the Holds of one holder: 1, 2, ...
    Amounts,        \* amounts of NOVA that are tried
    Prices,         \* prices per unit that are tried, in tinybars
    Values,         \* values sent with a payment
    NewHolds,       \* the Holds that are tried
    Offers,         \* the terms that are tried
    MaxAmount,      \* 1000 in the code
    MaxInt64,
    Validity,       \* 1800 seconds from preparation to expiry
    MaxTime,        \* bound on block time, for TLC
    InitialNova, InitialHbar

ASSUME AccountsAssumption == Traders \subseteq Accounts /\ Contract \notin Accounts
ASSUME EscrowsAssumption == Contract # Elsewhere
ASSUME NumbersAssumption ==
    /\ HoldIds \subseteq Nat \ {0}
    /\ Amounts \subseteq Nat /\ Prices \subseteq Nat /\ Values \subseteq Nat
    /\ MaxAmount \in Nat /\ MaxInt64 \in Nat
    /\ Validity \in Nat \ {0} /\ MaxTime \in Nat
    /\ InitialNova \in [Accounts -> Nat] /\ InitialHbar \in [Accounts -> Nat]

Times == 0..(MaxTime + Validity)
Keys == Accounts \X HoldIds

(* kind stands for the fields that _checkHold wants empty: data,           *)
(* operatorData and thirdPartyType.                                        *)
Holds == [amount : Amounts \cup {0}, expiry : Times, escrow : {Contract, Elsewhere},
          to : Accounts, kind : {"plain", "other"}]

NoHold == [amount |-> 0, expiry |-> 0, escrow |-> "none", to |-> "none", kind |-> "none"]

Terms == [match : Matches, seller : Accounts, buyer : Accounts, amount : Amounts,
          price : Prices, preparedAt : 0..MaxTime, expiry : Times, hold : HoldIds]

ASSUME NoTermsAssumption == NoTerms \notin Terms
ASSUME InputsAssumption == NewHolds \subseteq Holds /\ Offers \subseteq Terms

States == {"Unregistered", "Ready", "Settled", "Cancelled", "Reclaimed"}
Final == {"Settled", "Cancelled", "Reclaimed"}

VARIABLES
    time,          \* block.timestamp
    nova,          \* free NOVA of every account
    holds,         \* the Holds of ATS, by holder and id
    hbar,          \* tinybars of every account and of the contract
    registered,    \* the digests with terms
    state,         \* their state; the others are Unregistered
    matchDigest,   \* the digest of each match, or zero
    usedHold       \* the Holds that terms or a recovery have used

chain == <<nova, holds, hbar, registered, state, matchDigest, usedHold>>
vars == <<time, nova, holds, hbar, registered, state, matchDigest, usedHold>>

Init ==
    /\ time = 0
    /\ nova = InitialNova
    /\ holds = [k \in Keys |-> NoHold]
    /\ hbar = [a \in Accounts \cup {Contract} |-> IF a = Contract THEN 0 ELSE InitialHbar[a]]
    /\ registered = {}
    /\ state = [t \in {} |-> "Unregistered"]
    /\ matchDigest = [m \in Matches |-> NoTerms]
    /\ usedHold = {}

-----------------------------------------------------------------------------
(***************************************************************************)
(* The Holds of ATS.  createHold takes the amount out of the free balance. *)
(* A Hold of another escrow is only ever sent back here.                   *)
(***************************************************************************)
CanCreate(a, id, h) ==
    /\ holds[<<a, id>>] = NoHold
    /\ \A j \in HoldIds : j < id => holds[<<a, j>>] # NoHold
    /\ h.amount > 0
    /\ h.amount <= nova[a]
    /\ h.expiry > time

CreateHold(a, id, h) ==
    /\ CanCreate(a, id, h)
    /\ holds' = [holds EXCEPT ![<<a, id>>] = h]
    /\ nova' = [nova EXCEPT ![a] = @ - h.amount]
    /\ UNCHANGED <<time, hbar, registered, state, matchDigest, usedHold>>

(* The effect of an execute, release or reclaim: the amount goes to an     *)
(* account and the Hold is empty.                                          *)
EmptyHold(k, a) ==
    /\ nova' = [nova EXCEPT ![a] = @ + holds[k].amount]
    /\ holds' = [holds EXCEPT ![k].amount = 0]

CanExecute(k, to) == holds[k].escrow = Contract /\ holds[k].to = to /\ time < holds[k].expiry
CanRelease(k) == holds[k].escrow = Contract /\ time < holds[k].expiry
CanReclaimHold(k) == holds[k] # NoHold /\ time >= holds[k].expiry

ReclaimAtAts(k) ==
    /\ CanReclaimHold(k)
    /\ holds[k].amount > 0
    /\ EmptyHold(k, k[1])
    /\ UNCHANGED <<time, hbar, registered, state, matchDigest, usedHold>>

-----------------------------------------------------------------------------
(***************************************************************************)
(* The guards of the contract.                                             *)
(***************************************************************************)
Key(t) == <<t.seller, t.hold>>

CheckHold(t) ==
    LET h == holds[Key(t)]
    IN  /\ h.amount = t.amount
        /\ h.expiry = t.expiry
        /\ h.escrow = Contract
        /\ h.to = t.buyer
        /\ h.kind = "plain"

Price(t) == t.amount * t.price

ValidTerms(t) ==
    /\ t.seller \in Traders /\ t.buyer \in Traders /\ t.seller # t.buyer
    /\ t.amount # 0
    /\ t.amount <= MaxAmount
    /\ t.price # 0
    /\ Price(t) <= MaxInt64
    /\ t.preparedAt <= time
    /\ t.expiry = t.preparedAt + Validity
    /\ time < t.expiry

(* Mutant: a match may be registered again, on another Hold.               *)
CanRegisterAgain(t, sender) ==
    /\ sender = t.seller
    /\ ValidTerms(t)
    /\ Key(t) \notin usedHold
    /\ CheckHold(t)

CanRegister(t, sender) ==
    /\ sender = t.seller
    /\ ValidTerms(t)
    /\ matchDigest[t.match] = NoTerms
    /\ Key(t) \notin usedHold
    /\ CheckHold(t)

IsReady(t) == t \in registered /\ state[t] = "Ready"

CanSettle(t, sender, value) ==
    /\ IsReady(t)
    /\ sender = t.buyer
    /\ time < t.expiry
    /\ value = Price(t)
    /\ CheckHold(t)

(* Mutant: at the second of the expiry the deal counts as not expired.     *)
CanReturnLate(t, sender, expired) ==
    /\ IsReady(t)
    /\ sender = t.seller
    /\ (time > t.expiry) = expired
    /\ CheckHold(t)

CanReturn(t, sender, expired) ==
    /\ IsReady(t)
    /\ sender = t.seller
    /\ (time >= t.expiry) = expired
    /\ CheckHold(t)

(* Mutant: a recovery does not ask whether terms use the Hold.             *)
CanRecoverUsed(sender, id) ==
    /\ sender \in Traders
    /\ holds[<<sender, id>>].escrow = Contract
    /\ holds[<<sender, id>>].amount # 0

CanRecover(sender, id) ==
    /\ sender \in Traders
    /\ <<sender, id>> \notin usedHold
    /\ holds[<<sender, id>>].escrow = Contract
    /\ holds[<<sender, id>>].amount # 0

-----------------------------------------------------------------------------

(* Mutant: the Hold is not marked as used.                                 *)
RegisterForgetsHold(t, sender) ==
    /\ CanRegister(t, sender)
    /\ matchDigest' = [matchDigest EXCEPT ![t.match] = t]
    /\ registered' = registered \cup {t}
    /\ state' = [u \in registered \cup {t} |-> IF u = t THEN "Ready" ELSE state[u]]
    /\ UNCHANGED <<time, nova, holds, hbar, usedHold>>

(* Mutant: the terms are stored without a state.                           *)
RegisterForgetsState(t, sender) ==
    /\ CanRegister(t, sender)
    /\ usedHold' = usedHold \cup {Key(t)}
    /\ matchDigest' = [matchDigest EXCEPT ![t.match] = t]
    /\ registered' = registered \cup {t}
    /\ UNCHANGED <<time, nova, holds, hbar, state>>

Register(t, sender) ==
    /\ CanRegister(t, sender)
    /\ usedHold' = usedHold \cup {Key(t)}
    /\ matchDigest' = [matchDigest EXCEPT ![t.match] = t]
    /\ registered' = registered \cup {t}
    /\ state' = [u \in registered \cup {t} |-> IF u = t THEN "Ready" ELSE state[u]]
    /\ UNCHANGED <<time, nova, holds, hbar>>

(* NOVA to the buyer and HBAR to the seller, or neither.                   *)
Settle(t, sender, value) ==
    /\ CanSettle(t, sender, value)
    /\ value <= hbar[sender]
    /\ CanExecute(Key(t), t.buyer)
    /\ state' = [state EXCEPT ![t] = "Settled"]
    /\ EmptyHold(Key(t), t.buyer)
    /\ hbar' = [hbar EXCEPT ![sender] = @ - value, ![t.seller] = @ + value]
    /\ UNCHANGED <<time, registered, matchDigest, usedHold>>

(* Mutant: the deal is closed and the Hold is not released.                *)
CancelKeepsHold(t, sender) ==
    /\ CanReturn(t, sender, FALSE)
    /\ state' = [state EXCEPT ![t] = "Cancelled"]
    /\ UNCHANGED <<time, nova, holds, hbar, registered, matchDigest, usedHold>>

Cancel(t, sender) ==
    /\ CanReturn(t, sender, FALSE)
    /\ CanRelease(Key(t))
    /\ state' = [state EXCEPT ![t] = "Cancelled"]
    /\ EmptyHold(Key(t), t.seller)
    /\ UNCHANGED <<time, hbar, registered, matchDigest, usedHold>>

Reclaim(t, sender) ==
    /\ CanReturn(t, sender, TRUE)
    /\ CanReclaimHold(Key(t))
    /\ state' = [state EXCEPT ![t] = "Reclaimed"]
    /\ EmptyHold(Key(t), t.seller)
    /\ UNCHANGED <<time, hbar, registered, matchDigest, usedHold>>

RecoverOrphan(sender, id) ==
    LET k == <<sender, id>>
    IN  /\ CanRecover(sender, id)
        /\ IF time >= holds[k].expiry THEN CanReclaimHold(k) ELSE CanRelease(k)
        /\ usedHold' = usedHold \cup {k}
        /\ EmptyHold(k, sender)
        /\ UNCHANGED <<time, hbar, registered, state, matchDigest>>

Advance ==
    /\ time < MaxTime
    /\ time' = time + 1
    /\ UNCHANGED chain

TokenStep ==
    \/ \E a \in Accounts, id \in HoldIds, h \in NewHolds : CreateHold(a, id, h)
    \/ \E k \in Keys : ReclaimAtAts(k)

ContractStep ==
    \/ \E t \in Offers, sender \in Accounts : Register(t, sender)
    \/ \E t \in registered, sender \in Accounts :
          \/ \E value \in Values : Settle(t, sender, value)
          \/ Cancel(t, sender)
          \/ Reclaim(t, sender)
    \/ \E sender \in Accounts, id \in HoldIds : RecoverOrphan(sender, id)

Next == TokenStep \/ ContractStep \/ Advance

Spec == Init /\ [][Next]_vars

-----------------------------------------------------------------------------

TypeOK ==
    /\ time \in 0..MaxTime
    /\ nova \in [Accounts -> Nat]
    /\ holds \in [Keys -> Holds \cup {NoHold}]
    /\ hbar \in [Accounts \cup {Contract} -> Nat]
    /\ registered \subseteq Terms
    /\ state \in [registered -> States]
    /\ matchDigest \in [Matches -> Terms \cup {NoTerms}]
    /\ usedHold \subseteq Keys

(***************************************************************************)
(* While a deal is Ready and not expired, its Hold is intact, whoever      *)
(* calls what in which order: what the buyer would pay for is there.  Once *)
(* expired, the Hold is intact or has gone back to the seller at ATS.      *)
(***************************************************************************)
ReadyIsBacked ==
    \A t \in registered :
       state[t] = "Ready" =>
          \/ CheckHold(t)
          \/ time >= t.expiry /\ holds[Key(t)].amount = 0

(***************************************************************************)
(* No two deals are about the same match or rest on the same Hold, and a   *)
(* Hold that a recovery emptied is under no deal that can still be paid.   *)
(***************************************************************************)
OneDealPerHold ==
    \A t, u \in registered :
       t # u => t.match # u.match /\ Key(t) # Key(u)

SpentHoldsAreEmpty ==
    \A k \in usedHold :
       \/ holds[k].amount = 0
       \/ \E t \in registered : Key(t) = k /\ state[t] = "Ready"

(***************************************************************************)
(* NOVA is never stuck: at every instant, the second of the expiry         *)
(* included, a trader can get every Hold of this escrow back with a call   *)
(* of its own, on the deal that uses it or as an orphan.                   *)
(***************************************************************************)
CanTakeBack(a, id) ==
    LET k == <<a, id>>
    IN  \/ /\ CanRecover(a, id)
           /\ IF time >= holds[k].expiry THEN CanReclaimHold(k) ELSE CanRelease(k)
        \/ \E t \in registered :
              /\ Key(t) = k
              /\ \/ CanReturn(t, a, FALSE) /\ CanRelease(k)
                 \/ CanReturn(t, a, TRUE) /\ CanReclaimHold(k)

EveryHoldHasAWayOut ==
    \A a \in Traders, id \in HoldIds :
       holds[<<a, id>>].escrow = Contract /\ holds[<<a, id>>].amount > 0
          => CanTakeBack(a, id)

(***************************************************************************)
(* A deal ends once: a final state is left by no call, and terms, once     *)
(* registered, keep their match and their Hold for ever.                   *)
(***************************************************************************)
FinalStep ==
    /\ registered \subseteq registered'
    /\ usedHold \subseteq usedHold'
    /\ \A t \in registered :
          /\ state[t] \in Final => state'[t] = state[t]
          /\ matchDigest'[t.match] = matchDigest[t.match]

FinalIsFinal == [][FinalStep]_vars
=============================================================================
