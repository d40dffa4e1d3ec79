------------------------------ MODULE HoldSteps ------------------------------
(***************************************************************************)
(* T04, hold.ts: one Hold of 10 NOVA is created, 6 of it executed to the   *)
(* buyer and 4 released, with the buyer's KYC in between and two read-only *)
(* simulations that the token refuses what it must refuse.                 *)
(***************************************************************************)
EXTENDS Journal

HoldActions == <<"create-hold", "kyc-negative", "buyer-kyc", "permission-negative", "execute", "release">>
HoldSimulations == {"kyc-negative", "permission-negative"}
HoldTransactions == {HoldActions[i] : i \in DOMAIN HoldActions} \ HoldSimulations
InT04 == milestone = "t04"

(* The token's own rules, external.  An execution needs the Hold in full   *)
(* and unexpired, and a buyer with KYC; a release needs the rest of it.    *)
HoldSucceeds(op) ==
    LET did == Did(Now)
        itsHold == intents[op].hold \in HashOf("create-hold", Now)
    IN  CASE Action(op) = "create-hold" -> time < intents[op].expiry
          [] Action(op) = "buyer-kyc" -> "buyer-kyc" \notin did
          [] Action(op) = "execute" -> /\ itsHold /\ "buyer-kyc" \in did /\ "execute" \notin did
                                       /\ time < intents[op].expiry
          [] Action(op) = "release" -> /\ itsHold /\ "execute" \in did /\ "release" \notin did
                                       /\ time < intents[op].expiry

HoldHash(records) == {r.hash : r \in Completed(records, "create-hold")}
HoldExpiry(records, now) ==
    LET created == Completed(records, "create-hold")
    IN  IF created = {} THEN now + Validity ELSE intents[(CHOOSE r \in created : TRUE).op].expiry

(* What was done is a prefix of the actions, each once; the token has done *)
(* the same transactions, and no Hold but the recorded one; a grant that   *)
(* was recreated from calldata lacks the digest of the credential.         *)
HoldNext(state, now, records) ==
    LET done == {i \in DOMAIN HoldActions : Completed(records, HoldActions[i]) # {}}
        n == Cardinality(done)
    IN  IF /\ Settled(records)
           /\ done = 1..n /\ n < Len(HoldActions)
           /\ \A i \in done : Cardinality(Completed(records, HoldActions[i])) = 1
           /\ Once(state)
           /\ Did(state) = {HoldActions[i] : i \in done} \ HoldSimulations
           /\ HashOf("create-hold", state) = HoldHash(records)
           /\ now < HoldExpiry(records, now)
           /\ \A r \in Completed(records, "buyer-kyc") : intents[r.op].digest
        THEN HoldActions[n + 1]
        ELSE "none"

(* assertHoldTransition: the state in front, and the block before expiry.  *)
HoldPrecedes(hash) ==
    LET i == CHOOSE k \in DOMAIN HoldActions : HoldActions[k] = TxAction(hash)
        before == {HoldActions[k] : k \in 1..(i - 1)} \ HoldSimulations
    IN  /\ Did(txs[hash].state) = before /\ Once(txs[hash].state)
        /\ txs[hash].time < intents[txs[hash].op].expiry

-----------------------------------------------------------------------------
(* runHoldAction.                                                          *)
HoldRuns(t) == InT04 /\ RunStarts(t)

(* checkCurrent: journal, state, stage and expiry are still as reviewed.   *)
HoldIsCurrent(t) ==
    LET review == reviews[t]
    IN  /\ journal = review.journal
        /\ Digest(Now) = Digest(review.state)
        /\ HoldNext(Now, time, journal) = review.action
        /\ time < review.expiry

(* The storage is probed with the records that were read at first.         *)
HoldProbes(t) ==
    /\ InT04
    /\ tabs[t].step = "running"
    /\ reviews[t].action \in HoldTransactions
    /\ HoldIsCurrent(t)
    /\ journal' = tabs[t].records
    /\ Goto(t, [tabs[t] EXCEPT !.step = "probed"])
    /\ UNCHANGED <<fixed, intents, lock, reviews, orphans, ledger>>

HoldIntent(review) == Intent(review.action, review.hold, review.expiry, review.state, TRUE)

HoldAsks(t) ==
    /\ InT04
    /\ tabs[t].step = "probed"
    /\ HoldIsCurrent(t)
    /\ Len(intents) < maxOps
    /\ intents' = Append(intents, HoldIntent(reviews[t]))
    /\ Asks(t, Len(intents'))

-----------------------------------------------------------------------------
(* sdkBuyerNegative: with providers that cannot send, the SDK refuses to   *)
(* execute for a buyer without KYC, before the token is asked.             *)
SdkRejects(state) == "buyer-kyc" \notin Did(state)

HoldSimulating(t) ==
    LET action == reviews[t].action
    IN  /\ InT04
        /\ tabs[t].step = "running"
        /\ action \in HoldSimulations
        /\ HoldIsCurrent(t)
        /\ action = "kyc-negative" => SdkRejects(Now)
        /\ Goto(t, [tabs[t] EXCEPT !.step = "simulating"])
        /\ UNCHANGED <<fixed, intents, journal, lock, reviews, orphans, ledger>>

(* A simulation sends nothing: its record is complete at once, unless the  *)
(* state or the journal changed while it ran.                              *)
HoldSimulated(t) ==
    LET op == Len(intents) + 1
    IN  /\ InT04
        /\ tabs[t].step = "simulating"
        /\ Digest(Now) = Digest(reviews[t].state)
        /\ journal = reviews[t].journal
        /\ op <= maxOps
        /\ intents' = Append(intents, HoldIntent(reviews[t]))
        /\ Ends(t, Record(op, "complete", NoHash))
        /\ UNCHANGED <<fixed, orphans, ledger>>

(* assertSimulationState: the Hold in full, and KYC of the buyer only in   *)
(* front of the second simulation.  That its blocks must be from before    *)
(* the expiry is left out: from there on nothing is offered anyway.        *)
SimulationHolds(op) ==
    LET state == intents[op].state
    IN  /\ Did(state) = {"create-hold"} \cup
                         (IF Action(op) = "permission-negative" THEN {"buyer-kyc"} ELSE {})
        /\ intents[op].hold \in HashOf("create-hold", state)

(* verifySavedSimulation, from the history of the chain.                   *)
HoldReplays(op) ==
    /\ Action(op) = "kyc-negative" => SdkRejects(intents[op].state)
    /\ SimulationHolds(op)

-----------------------------------------------------------------------------
(* recoverHold takes the first record that has the hash or is unresolved   *)
(* with this action.                                                       *)
HoldFinds(records, hash, action) ==
    FirstOf(records, {r \in Members(records) : r.hash = hash} \cup Unresolved(records, action))

HoldFits(records, hash, action) ==
    \A r \in Members(records) :
        r.op \in HoldFinds(records, hash, action) =>
            Action(r.op) = action /\ r.hash \in {NoHash, hash}

HoldRecovering(records, hash, action, left, expects) ==
    Recovering(HoldFinds(records, hash, action), hash, action, records, left, expects)

HoldRecovers(t, hash, action, left, expects) ==
    /\ Take(t)
    /\ HoldFits(journal, hash, action)
    /\ Goto(t, HoldRecovering(journal, hash, action, left, expects))
    /\ UNCHANGED <<fixed, intents, journal, reviews, orphans, ledger>>

(* After a run has saved a hash it recovers it, still holding the lock.    *)
HoldHashReturned(t) ==
    LET c == tabs[t]
    IN  /\ InT04
        /\ c.step = "sent"
        /\ HashReturned(t, HoldRecovering(Put(c.records, Record(c.op, "pending", c.hash)),
                                          c.hash, Action(c.op), <<>>, NotForReview))

HoldQuery(t, hash, action) ==
    /\ InT04
    /\ tabs[t] = Idle
    /\ HoldRecovers(t, hash, action, <<>>, NotForReview)

HoldReview(t) ==
    /\ InT04
    /\ tabs[t] = Idle
    /\ \A op \in Simulated(journal) : HoldReplays(op)
    /\ Goto(t, [step |-> "rechecking", left |-> ToRecheck(journal)])
    /\ DropReview(t)
    /\ UNCHANGED <<fixed, intents, journal, lock, orphans, ledger>>

HoldRechecks(t) ==
    LET c == tabs[t]
        r == c.left[1]
    IN  /\ InT04
        /\ c.step = "rechecking"
        /\ c.left # <<>>
        /\ HoldRecovers(t, r.hash, Action(r.op), Tail(c.left), r.status)

(* No receipt: the record that was found gets the hash, whatever it is.    *)
HoldMisses(t) ==
    LET c == tabs[t]
    IN  /\ InT04
        /\ c.step = "recovering"
        /\ ~Mined(c.hash)
        /\ \E op \in c.found : journal' = Put(c.records, Record(op, "pending", c.hash))
        /\ GoesOn(t, "pending")
        /\ UNCHANGED <<fixed, intents, reviews, orphans, ledger>>

(* Without a record of its own, a hash is verified with the inputs of the  *)
(* recorded Hold; a creation, with the basis that its intent names.        *)
HoldVerifies(t) ==
    LET c == tabs[t]
    IN  /\ InT04
        /\ Verifies(t)
        /\ c.found = {} /\ c.action # "create-hold" =>
             intents[txs[c.hash].op].hold \in HoldHash(c.records)
        /\ txs[c.hash].status = "ok" => HoldPrecedes(c.hash)

HoldSettles(t) == InT04 /\ Settles(t)

HoldOffers(t) ==
    LET c == tabs[t]
        action == HoldNext(c.state, c.time, journal)
    IN  /\ InT04
        /\ c.step = "read"
        /\ action # "none"
        /\ \E hold \in IF action = "create-hold" THEN {NoHash} ELSE HoldHash(journal) :
             Offers(t, action, hold, HoldExpiry(journal, c.time))

-----------------------------------------------------------------------------
(* restoreHoldEvidence takes no lock: it reads, hashes and writes.  The    *)
(* saved operation it replaces is the same one, or an unresolved one of    *)
(* the same action and calldata.                                           *)
HoldRestoreReads(t, exported) ==
    LET same == {r \in Members(journal) : r.op = exported.op}
        found == FirstOf(journal, same \cup Unresolved(journal, Action(exported.op)))
        IsTx == Action(exported.op) \in HoldTransactions
    IN  /\ InT04
        /\ exported \in exports
        /\ tabs[t] = Idle
        /\ RestoresAlone => lock = NoTab /\ \A u \in Tabs : tabs[u] = Idle
        /\ IsTx => exported.hash # NoHash
        /\ \A r \in Members(journal) : r.op \in found =>
             Call(r.op) = Call(exported.op) /\ r.hash \in {NoHash, exported.hash}
        /\ Goto(t, [step |-> "restoring", found |-> IF found = {} THEN {exported.op} ELSE found,
                    records |-> journal,
                    record |-> IF IsTx THEN [exported EXCEPT !.status = "pending"] ELSE exported])
        /\ UNCHANGED <<fixed, intents, journal, lock, reviews, orphans, ledger>>

HoldRestoreWrites(t) ==
    LET c == tabs[t]
    IN  /\ c.step = "restoring"
        /\ journal' = Append(Pick(c.records, {i \in DOMAIN c.records : c.records[i].op \notin c.found}),
                             c.record)
        /\ Finish(t)
        /\ UNCHANGED <<fixed, intents, reviews, orphans, ledger>>
=============================================================================
