------------------------------ MODULE Lifecycle ------------------------------
(***************************************************************************)
(* T03, lifecycle.ts: from the asset without supply to 100 NOVA with the   *)
(* seller.  Three roles, an issuer, the seller's KYC and one issuance, a   *)
(* transaction each.  There is one asset and one credential of the seller. *)
(***************************************************************************)
EXTENDS Journal

RoleActions == <<"issuer-role", "ssi-role", "kyc-role">>
LifecycleActions == RoleActions \o <<"register-issuer", "seller-kyc", "issue">>
InT03 == milestone = "t03"

(* The asset's own rules, external: every action once, but an issuance can *)
(* be repeated.                                                            *)
LifecycleSucceeds(op) ==
    LET did == Did(Now)
    IN  CASE Action(op) = "register-issuer" -> "ssi-role" \in did /\ Action(op) \notin did
          [] Action(op) = "seller-kyc" -> {"kyc-role", "register-issuer"} \subseteq did
                                          /\ Action(op) \notin did
          [] Action(op) = "issue" -> {"issuer-role", "seller-kyc"} \subseteq did
          [] OTHER -> Action(op) \notin did

(* What comes next for an asset in this state; none also when something    *)
(* needs recovery or was done without evidence.                            *)
LifecycleNext(state, records) ==
    LET did == Did(state)
        granted == Completed(records, "seller-kyc") # {}
        missing == {i \in DOMAIN RoleActions : RoleActions[i] \notin did}
    IN  IF \/ ~Settled(records)
           \/ Completed(records, "issue") # {}
           \/ "issue" \in did
           \/ granted # ("seller-kyc" \in did)
        THEN "none"
        ELSE IF missing # {} THEN RoleActions[CHOOSE i \in missing : \A j \in missing : i <= j]
        ELSE IF "register-issuer" \notin did THEN "register-issuer"
        ELSE IF granted THEN "issue" ELSE "seller-kyc"

(* The state in front of a transaction that succeeded; what it changes is  *)
(* one action's doing, since a block of this model holds one transaction.  *)
LifecyclePrecedes(action, state) ==
    LET did == Did(state)
        roles == {RoleActions[i] : i \in DOMAIN RoleActions}
    IN  /\ {"issue", action} \cap did = {}
        /\ action \notin roles => roles \subseteq did
        /\ action \in {"seller-kyc", "issue"} => "register-issuer" \in did
        /\ action = "issue" => "seller-kyc" \in did

-----------------------------------------------------------------------------
(* actionCalldata: an action needs no input but the one credential.        *)
LifecycleIntent(review) == Intent(review.action, NoHash, 0, review.state, TRUE)

(* submitLifecycle.                                                        *)
LifecycleRuns(t) == InT03 /\ RunStarts(t)

LifecycleIsCurrent(t) ==
    /\ Digest(Now) = Digest(reviews[t].state)
    /\ LifecycleNext(Now, tabs[t].records) = reviews[t].action

(* Nobody but the holder of the lock writes this journal, so that the      *)
(* probe of the storage writes what it has.  Then the SDK is connected.    *)
LifecycleProbes(t) ==
    /\ InT03
    /\ tabs[t].step = "running"
    /\ LifecycleIsCurrent(t)
    /\ Goto(t, [tabs[t] EXCEPT !.step = "probed"])
    /\ UNCHANGED <<fixed, intents, journal, lock, reviews, orphans, ledger>>

(* The SDK executes the action: its provider checks again, and asks.       *)
LifecycleAsks(t) ==
    /\ InT03
    /\ tabs[t].step = "probed"
    /\ LifecycleIsCurrent(t)
    /\ Len(intents) < maxOps
    /\ intents' = Append(intents, LifecycleIntent(reviews[t]))
    /\ Asks(t, Len(intents'))

LifecycleHash(t) ==
    /\ InT03
    /\ HashReturned(t, [tabs[t] EXCEPT !.step = "polling"])

(* The SDK polls for a receipt of success for a minute, and publishes it.  *)
PollConfirms(t) ==
    LET c == tabs[t]
    IN  /\ InT03
        /\ c.step = "polling"
        /\ Mined(c.hash) /\ txs[c.hash].status = "ok"
        /\ Ends(t, Record(c.op, "confirmed", c.hash))
        /\ UNCHANGED <<fixed, intents, orphans, ledger>>

PollStops(t) ==
    LET c == tabs[t]
    IN  /\ InT03
        /\ c.step = "polling"
        /\ Ends(t, Record(c.op, "unknown", c.hash))
        /\ UNCHANGED <<fixed, intents, orphans, ledger>>

-----------------------------------------------------------------------------
(* recoverLifecycle looks for the hash first, then for what is unresolved. *)
LifecycleFinds(records, hash, action) ==
    LET byHash == FirstOf(records, {r \in Members(records) : r.hash = hash})
        open == FirstOf(records, Unresolved(records, action))
    IN  IF byHash # {} THEN byHash ELSE open

(* Recovery of a hash begins, for the user or for a review; the recorded   *)
(* action and hash are recovered first.                                    *)
LifecycleRecovers(t, hash, action, left, expects) ==
    LET found == LifecycleFinds(journal, hash, action)
    IN  /\ Take(t)
        /\ \A r \in Members(journal) :
             r.op \in found => Action(r.op) = action /\ r.hash \in {NoHash, hash}
        /\ Goto(t, Recovering(found, hash, action, journal, left, expects))
        /\ UNCHANGED <<fixed, intents, journal, reviews, orphans, ledger>>

LifecycleQuery(t, hash, action) ==
    /\ InT03
    /\ tabs[t] = Idle
    /\ LifecycleRecovers(t, hash, action, <<>>, NotForReview)

LifecycleReview(t) ==
    /\ InT03
    /\ tabs[t] = Idle
    /\ Goto(t, [step |-> "rechecking", left |-> ToRecheck(journal)])
    /\ DropReview(t)
    /\ UNCHANGED <<fixed, intents, journal, lock, orphans, ledger>>

LifecycleRechecks(t) ==
    LET c == tabs[t]
    IN  /\ InT03
        /\ c.step = "rechecking"
        /\ c.left # <<>>
        /\ LifecycleRecovers(t, c.left[1].hash, Action(c.left[1].op), Tail(c.left), c.left[1].status)

(* No receipt: the hash of a record that had none is not saved.            *)
LifecycleMisses(t) ==
    LET c == tabs[t]
    IN  /\ InT03
        /\ c.step = "recovering"
        /\ ~Mined(c.hash)
        /\ \E r \in Members(c.records) :
             /\ r.op \in c.found
             /\ journal' = Put(c.records, [r EXCEPT !.status = IF r.hash = NoHash THEN "unknown"
                                                                               ELSE "pending"])
        /\ GoesOn(t, "pending")
        /\ UNCHANGED <<fixed, intents, reviews, orphans, ledger>>

LifecycleVerifies(t) ==
    LET hash == tabs[t].hash
    IN  /\ InT03
        /\ Verifies(t)
        /\ txs[hash].status = "ok" => LifecyclePrecedes(TxAction(hash), txs[hash].state)

LifecycleSettles(t) == InT03 /\ Settles(t)

-----------------------------------------------------------------------------
(* The state is read first, then the journal; nothing holds the lock.      *)
LifecycleOffers(t) ==
    LET action == LifecycleNext(tabs[t].state, journal)
    IN  /\ InT03
        /\ tabs[t].step = "read"
        /\ action # "none"
        /\ Offers(t, action, NoHash, 0)
=============================================================================
