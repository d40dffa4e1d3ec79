-------------------------------- MODULE Trade --------------------------------
(***************************************************************************)
(* T05, trade.ts with NovaHbarSwap.sol: a swap contract is deployed, the   *)
(* seller locks 10 NOVA in a Hold for it, and the buyer pays, or the       *)
(* seller cancels before the expiry or reclaims from the expiry on.  The   *)
(* whole review and the restoring of evidence hold the lock here.          *)
(***************************************************************************)
EXTENDS Journal

TradeEnds == {"settle", "cancel", "reclaim"}
TradeSimulations == {"purchase-negative", "duplicate-negative"}
InT05 == milestone = "t05"

(* The swap that an operation is about: a lock names it, the others name   *)
(* the lock.                                                               *)
SwapOf(op) ==
    IF Action(op) = "lock" THEN intents[op].hold ELSE intents[txs[intents[op].hold].op].hold
EndsOf(swap, state) ==
    {TxAction(chain[i]) : i \in {k \in 1..state : /\ TxAction(chain[k]) \in TradeEnds
                                                  /\ SwapOf(txs[chain[k]].op) = swap}}
SwapOpen(swap, state) ==
    swap \in HashOf("deploy", state) /\ EndsOf(swap, state) = {}

(* _check: the swap is open, the right side of the expiry, and the Hold is *)
(* the one that was locked for it.                                         *)
SwapChecks(op, expired) ==
    LET swap == SwapOf(op)
        expiry == intents[txs[swap].op].expiry
    IN  /\ SwapOpen(swap, Now)
        /\ (time >= expiry) = expired
        /\ intents[op].hold \in HashOf("lock", Now)
        /\ intents[txs[intents[op].hold].op].expiry = expiry

TradeSucceeds(op) ==
    CASE Action(op) \in {"deploy", "lock"} -> time < intents[op].expiry
      [] Action(op) \in {"settle", "cancel"} -> SwapChecks(op, FALSE)
      [] Action(op) = "reclaim" -> SwapChecks(op, TRUE)

TradeHash(records, action) == {r.hash : r \in Completed(records, action)}
(* The expiry of the lock or the deployment, or a fresh one.               *)
TradeExpiry(records, now) ==
    LET made == Completed(records, "lock") \cup Completed(records, "deploy")
    IN  IF made = {} THEN now + Validity ELSE intents[(CHOOSE r \in made : TRUE).op].expiry

(* Mutant: the events of the chain are not compared with the records.      *)
UnrecordedIgnored(state, records) == FALSE

(* recordedHistory: the chain's swaps and Holds are those of the records.  *)
Unrecorded(state, records) ==
    \E action \in {"deploy", "lock"} : TradeHash(records, action) # HashOf(action, state)

(* nextTradeStep with recordedHistory: the records have no gap, no doubles *)
(* and nothing unrecorded, and token and swap are where they say.          *)
TradeNext(state, now, records) ==
    LET done == {Action(r.op) : r \in {q \in Members(records) : q.status = "complete"}}
        did == Did(state)
    IN  IF \/ ~Settled(records)
           \/ \E action \in done : Cardinality(Completed(records, action)) > 1
           \/ done # {} /\ "deploy" \notin done
           \/ "lock" \notin done /\ ~(done \subseteq {"deploy"})
           \/ "settle" \in done /\ done \cap {"cancel", "reclaim"} # {}
           \/ Unrecorded(state, records)
           \/ done \cap TradeEnds # did \cap TradeEnds
        THEN "none"
        ELSE IF done \cap TradeEnds # {}
        THEN IF "settle" \in done /\ "duplicate-negative" \notin done
             THEN "duplicate-negative" ELSE "complete"
        ELSE IF now >= TradeExpiry(records, now)
        THEN IF "lock" \in done THEN "reclaim" ELSE "none"
        ELSE IF "deploy" \notin done THEN "deploy"
        ELSE IF "lock" \notin done THEN "lock"
        ELSE IF "purchase-negative" \notin done THEN "purchase-negative" ELSE "settle"

Cancellable == {"purchase-negative", "settle"}
TradeOffered(state, now, records) ==
    LET next == TradeNext(state, now, records)
    IN  ({next} \ {"none", "complete"}) \cup IF next \in Cancellable THEN {"cancel"} ELSE {}

(* Mutant: a reclaim must come later than the expiry, not at it.           *)
TradePrecedesLate(hash) ==
    txs[hash].status = "ok" =>
       (TxAction(hash) = "reclaim") = (txs[hash].time > intents[txs[hash].op].expiry)

(* assertTradeTransition: the token in front of the lock, or of what ends  *)
(* it, and the side of the expiry.                                         *)
TradePrecedes(hash) ==
    LET did == Did(txs[hash].state)
    IN  txs[hash].status = "ok" =>
           /\ IF TxAction(hash) \in {"deploy", "lock"} THEN "lock" \notin did
              ELSE "lock" \in did /\ did \cap TradeEnds = {}
           /\ (TxAction(hash) = "reclaim") = (txs[hash].time >= intents[txs[hash].op].expiry)

(* The swap was open, also where the transaction failed and left it so.    *)
SwapPrecedes(hash) ==
    TxAction(hash) # "deploy" => SwapOpen(SwapOf(txs[hash].op), txs[hash].state)

-----------------------------------------------------------------------------
(* runTrade.                                                               *)
TradeRuns(t) == InT05 /\ RunStarts(t)

(* tradeEvidence: what a record says of its operation.                     *)
TradeIntent(review) == Intent(review.action, review.hold, review.expiry, review.state, TRUE)

(* current: the same journal and step, and not expired unless the step is  *)
(* one of the expired.                                                     *)
TradeIsCurrent(t, records) ==
    LET review == reviews[t]
    IN  /\ records = review.journal
        /\ Digest(Now) = Digest(review.state)
        /\ review.action \in TradeOffered(Now, time, records)
        /\ review.action \notin {"reclaim", "duplicate-negative"} => time < review.expiry

(* The intent is saved before the providers exist.                         *)
TradeIntends(t) ==
    LET op == Len(intents) + 1
    IN  /\ InT05
        /\ tabs[t].step = "running"
        /\ reviews[t].action \notin TradeSimulations
        /\ TradeIsCurrent(t, journal)
        /\ op <= maxOps
        /\ intents' = Append(intents, TradeIntent(reviews[t]))
        /\ Publish(t, Record(op, "awaiting-signature", NoHash),
                   [step |-> "intended", op |-> op, records |-> <<>>])
        /\ UNCHANGED <<fixed, lock, reviews, orphans, ledger>>

TradeAsks(t) ==
    LET c == tabs[t]
    IN  /\ InT05
        /\ c.step = "intended"
        /\ TradeIsCurrent(t, Without(journal, c.op))
        /\ Asks(t, c.op)
        /\ UNCHANGED intents

(* What fails between the intent and the prompt is recorded as rejected.   *)
TradeStops(t) ==
    /\ InT05
    /\ tabs[t].step = "intended"
    /\ Ends(t, Record(tabs[t].op, "rejected", NoHash))
    /\ UNCHANGED <<fixed, intents, orphans, ledger>>

TradeSimulates(t) ==
    LET op == Len(intents) + 1
    IN  /\ InT05
        /\ tabs[t].step = "running"
        /\ reviews[t].action \in TradeSimulations
        /\ TradeIsCurrent(t, journal)
        /\ op <= maxOps
        /\ intents' = Append(intents, TradeIntent(reviews[t]))
        /\ Ends(t, Record(op, "complete", NoHash))
        /\ UNCHANGED <<fixed, orphans, ledger>>

-----------------------------------------------------------------------------
(* recoverTrade works by operation; the hash is saved as pending before    *)
(* anything is known about it.                                             *)
TradeRecovers(t, op, hash, left, expects) ==
    LET records == Replace(journal, Record(op, "pending", hash))
    IN  /\ \E r \in Members(journal) : r.op = op /\ r.hash \in {NoHash, hash}
        /\ Action(op) \notin TradeSimulations
        /\ journal' = records
        /\ Goto(t, Recovering({op}, hash, Action(op), records, left, expects))
        /\ UNCHANGED <<fixed, intents, reviews, orphans, ledger>>

TradeQuery(t, op, hash) ==
    /\ InT05
    /\ tabs[t] = Idle
    /\ Take(t)
    /\ TradeRecovers(t, op, hash, <<>>, NotForReview)

TradeHashReturned(t) ==
    LET c == tabs[t]
    IN  /\ InT05
        /\ c.step = "sent"
        /\ HashReturned(t, Recovering({c.op}, c.hash, Action(c.op), <<>>, <<>>, NotForReview))

(* verifySimulation: the swap open and the Hold locked for it, or settled. *)
TradeReplays(op) ==
    LET state == intents[op].state
    IN  IF Action(op) = "purchase-negative"
        THEN SwapOpen(SwapOf(op), state) /\ "lock" \in Did(state)
        ELSE EndsOf(SwapOf(op), state) = {"settle"}

TradeReview(t) ==
    /\ InT05
    /\ tabs[t] = Idle
    /\ Take(t)
    /\ \A op \in Simulated(journal) : TradeReplays(op)
    /\ Goto(t, [step |-> "rechecking", left |-> ToRecheck(journal)])
    /\ DropReview(t)
    /\ UNCHANGED <<fixed, intents, journal, orphans, ledger>>

TradeRechecks(t) ==
    LET c == tabs[t]
        r == c.left[1]
    IN  /\ InT05
        /\ c.step = "rechecking"
        /\ c.left # <<>>
        /\ TradeRecovers(t, r.op, r.hash, Tail(c.left), r.status)
        /\ UNCHANGED lock

TradeMisses(t) ==
    /\ InT05
    /\ tabs[t].step = "recovering"
    /\ ~Mined(tabs[t].hash)
    /\ GoesOn(t, "pending")
    /\ UNCHANGED <<fixed, intents, journal, reviews, orphans, ledger>>

TradeVerifies(t) ==
    /\ InT05
    /\ Verifies(t)
    /\ TradePrecedes(tabs[t].hash)
    /\ SwapPrecedes(tabs[t].hash)

TradeSettles(t) == InT05 /\ Settles(t)

TradeOffers(t) ==
    LET c == tabs[t]
    IN  /\ InT05
        /\ c.step = "read"
        /\ \E action \in TradeOffered(c.state, c.time, journal) :
           \E hold \in CASE action = "deploy" -> {NoHash}
                         [] action = "lock" -> TradeHash(journal, "deploy")
                         [] OTHER -> TradeHash(journal, "lock") :
             Offers(t, action, hold, TradeExpiry(journal, c.time))

(* restoreTrade: an intent of a transaction, as unknown.                   *)
TradeRestores(t, exported) ==
    /\ InT05
    /\ exported \in exports
    /\ tabs[t] = Idle
    /\ lock = NoTab
    /\ Action(exported.op) \notin TradeSimulations
    /\ \A r \in Members(journal) : r.op = exported.op => r.hash \in {NoHash, exported.hash}
    /\ journal' = Put(journal, [exported EXCEPT !.status = "unknown"])
    /\ UNCHANGED <<fixed, intents, pages, orphans, ledger>>
=============================================================================
