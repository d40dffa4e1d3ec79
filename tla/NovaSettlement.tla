---------------------------- MODULE NovaSettlement ----------------------------
(***************************************************************************)
(* The calls of contracts/NovaSettlement.sol taken apart at their external *)
(* calls.  settle, cancel, reclaim and recoverOrphan check, write their    *)
(* own storage first, then call the token and, in settle, the seller.  An  *)
(* external call that fails makes the contract revert, which restores      *)
(* everything the call wrote and returns the value.                        *)
(*                                                                         *)
(* Every entry is nonReentrant and a block executes one transaction after  *)
(* another, so at most one call is under way.                              *)
(***************************************************************************)
EXTENDS Escrow, FiniteSetsExt

ASSUME HoldIdsAssumption == IsFiniteSet(HoldIds)    \* an id is a uint256

VARIABLES
    call,    \* the call under way, or Idle
    saved    \* what a revert restores

callVars == <<time, nova, holds, hbar, registered, state, matchDigest, usedHold, call, saved>>

Idle == [step |-> "idle"]

Snapshot == [nova |-> nova, holds |-> holds, hbar |-> hbar, state |-> state,
             usedHold |-> usedHold]

CallInit ==
    /\ Init
    /\ call = Idle
    /\ saved = Snapshot

(* A call enters: it remembers what to restore and the step that follows.  *)
Enter(c) ==
    /\ call = Idle
    /\ call' = c
    /\ saved' = Snapshot

Leave == call' = Idle /\ UNCHANGED saved

SettleEnters(t, sender, value) ==
    /\ CanSettle(t, sender, value)
    /\ value <= hbar[sender]
    /\ Enter([step |-> "deliver", key |-> Key(t), seller |-> t.seller, to |-> t.buyer,
              value |-> value])
    /\ state' = [state EXCEPT ![t] = "Settled"]
    /\ hbar' = [hbar EXCEPT ![sender] = @ - value, ![Contract] = @ + value]
    /\ UNCHANGED <<time, nova, holds, registered, matchDigest, usedHold>>

Deliver ==
    /\ call.step = "deliver"
    /\ CanExecute(call.key, call.to)
    /\ EmptyHold(call.key, call.to)
    /\ call' = [call EXCEPT !.step = "pay"]
    /\ UNCHANGED <<time, hbar, registered, state, matchDigest, usedHold, saved>>

(* Mutant: the result of the payment is not looked at.                     *)
PayUnchecked ==
    /\ call.step = "pay"
    /\ hbar' \in {hbar, [hbar EXCEPT ![Contract] = @ - call.value,
                                    ![call.seller] = @ + call.value]}
    /\ Leave
    /\ UNCHANGED <<time, nova, holds, registered, state, matchDigest, usedHold>>

Pay ==
    /\ call.step = "pay"
    /\ hbar' = [hbar EXCEPT ![Contract] = @ - call.value, ![call.seller] = @ + call.value]
    /\ Leave
    /\ UNCHANGED <<time, nova, holds, registered, state, matchDigest, usedHold>>

ReturnEnters(t, sender, expired) ==
    /\ CanReturn(t, sender, expired)
    /\ Enter([step |-> IF expired THEN "reclaim" ELSE "release", key |-> Key(t)])
    /\ state' = [state EXCEPT ![t] = IF expired THEN "Reclaimed" ELSE "Cancelled"]
    /\ UNCHANGED <<time, nova, holds, hbar, registered, matchDigest, usedHold>>

RecoverEnters(sender, id) ==
    /\ CanRecover(sender, id)
    /\ Enter([step |-> IF time >= holds[<<sender, id>>].expiry THEN "reclaim" ELSE "release",
              key |-> <<sender, id>>])
    /\ usedHold' = usedHold \cup {<<sender, id>>}
    /\ UNCHANGED <<time, nova, holds, hbar, registered, state, matchDigest>>

TokenReturns ==
    /\ \/ call.step = "release" /\ CanRelease(call.key)
       \/ call.step = "reclaim" /\ CanReclaimHold(call.key)
    /\ EmptyHold(call.key, call.key[1])
    /\ Leave
    /\ UNCHANGED <<time, hbar, registered, state, matchDigest, usedHold>>

(***************************************************************************)
(* The token refuses (KYC, pause, a result that is not the partition) or   *)
(* the seller does not take the HBAR.                                      *)
(***************************************************************************)
(* Mutant: a failed recovery still uses up the Hold.                       *)
RevertKeepsUsedHold ==
    /\ call # Idle
    /\ nova' = saved.nova
    /\ holds' = saved.holds
    /\ hbar' = saved.hbar
    /\ state' = saved.state
    /\ Leave
    /\ UNCHANGED <<time, registered, matchDigest, usedHold>>

Revert ==
    /\ call # Idle
    /\ nova' = saved.nova
    /\ holds' = saved.holds
    /\ hbar' = saved.hbar
    /\ state' = saved.state
    /\ usedHold' = saved.usedHold
    /\ Leave
    /\ UNCHANGED <<time, registered, matchDigest>>

CallNext ==
    \/ /\ call = Idle
       /\ \/ TokenStep
          \/ Advance
          \/ \E t \in Offers, sender \in Accounts : Register(t, sender)
       /\ UNCHANGED <<call, saved>>
    \/ \E t \in registered, sender \in Accounts :
          \/ \E value \in Values : SettleEnters(t, sender, value)
          \/ \E expired \in BOOLEAN : ReturnEnters(t, sender, expired)
    \/ \E sender \in Accounts, id \in HoldIds : RecoverEnters(sender, id)
    \/ Deliver
    \/ Pay
    \/ TokenReturns
    \/ Revert

CallSpec == CallInit /\ [][CallNext]_callVars

-----------------------------------------------------------------------------

(***************************************************************************)
(* The calls are atomic: while one is under way nothing of it has happened *)
(* yet for anybody else, and it ends as one step of Escrow or as none.     *)
(***************************************************************************)
Atomic ==
    INSTANCE Escrow WITH
        nova     <- IF call = Idle THEN nova ELSE saved.nova,
        holds    <- IF call = Idle THEN holds ELSE saved.holds,
        hbar     <- IF call = Idle THEN hbar ELSE saved.hbar,
        state    <- IF call = Idle THEN state ELSE saved.state,
        usedHold <- IF call = Idle THEN usedHold ELSE saved.usedHold

ImplementsEscrow == Atomic!Spec

(***************************************************************************)
(* Delivery versus payment, in balances.  Between calls, what an account   *)
(* has in NOVA (free and in its Holds) and in HBAR differs from what it    *)
(* started with by exactly the settled deals it bought and sold, and the   *)
(* contract keeps nothing: no failure leaves half of an exchange.          *)
(***************************************************************************)
SumOver(S, f(_)) == MapThenSumSet(f, S)

Sold(a) == {t \in registered : state[t] = "Settled" /\ t.seller = a}
Bought(a) == {t \in registered : state[t] = "Settled" /\ t.buyer = a}

Amount(t) == t.amount
HeldAmount(k) == holds[k].amount

BalancesExplained ==
    call = Idle =>
       /\ hbar[Contract] = 0
       /\ \A a \in Accounts :
             /\ hbar[a] + SumOver(Bought(a), Price)
                   = InitialHbar[a] + SumOver(Sold(a), Price)
             /\ nova[a] + SumOver({k \in Keys : k[1] = a}, HeldAmount) + SumOver(Sold(a), Amount)
                   = InitialNova[a] + SumOver(Bought(a), Amount)
=============================================================================
