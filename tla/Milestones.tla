------------------------------ MODULE Milestones ------------------------------
(***************************************************************************)
(* The journals of the browser milestones T02 to T05 on several pages,     *)
(* with the user, the wallet and the chain: one milestone at a time, from  *)
(* any point of its fixed sequence.  The pages of one milestone share the  *)
(* lock with those of another; T05 also asks that the journals before it   *)
(* are settled, as they are at its starts.                                 *)
(***************************************************************************)
EXTENDS Creation, Lifecycle, HoldSteps, Trade

(* A start is a milestone, how many of its steps are done, how many        *)
(* further operations there may be, and whether the storage was lost       *)
(* meanwhile, so that there is only what had been exported.                *)
CONSTANT Starts

Path(m) ==
    CASE m = "t02" -> <<CreateNova>>
      [] m = "t03" -> LifecycleActions
      [] m = "t04" -> HoldActions
      [] m = "t05" -> <<"deploy", "lock", "purchase-negative", "settle", "duplicate-negative">>
Simulations == HoldSimulations \cup TradeSimulations
TradeNames == {"deploy", "lock"} \cup TradeEnds \cup TradeSimulations
AllActions == {CreateNova} \cup {LifecycleActions[i] : i \in DOMAIN LifecycleActions}
                  \cup {HoldActions[i] : i \in DOMAIN HoldActions} \cup TradeNames
ASSUME StartsAssumption ==
    Starts \subseteq
        {start \in {"t02", "t03", "t04", "t05"} \X Nat \X Nat \X BOOLEAN :
            start[2] <= Len(Path(start[1])) /\ (start[1] = "t02" => ~start[4])}

(* How many transactions there are among the first steps of a milestone.   *)
Sends(m, k) == Cardinality({i \in 1..k : Path(m)[i] \notin Simulations})
PastHash(m, i) == IF Path(m)[i] \in Simulations THEN NoHash ELSE Sends(m, i)
PastHold(m, i) ==
    CASE m \in {"t02", "t03"} \/ i = 1 -> NoHash
      [] m = "t05" /\ i > 2 -> 2
      [] OTHER -> 1

(* T03 needs evidence of the KYC only.  Its pages start in a browser where *)
(* that was recovered by hash; those of T04 and T05 with all evidence.     *)
HasEvidence(m, i) == m = "t03" => Path(m)[i] = "seller-kyc"

InitAt(m, done, further, lost) ==
    /\ milestone = m
    /\ maxOps = done + further
    /\ time = 0
    /\ intents = [i \in 1..done |->
          IF m \in {"t02", "t03"} THEN Intent(Path(m)[i], NoHash, 0, -1, FALSE)
          ELSE Intent(Path(m)[i], PastHold(m, i), Validity, Sends(m, i - 1), TRUE)]
    /\ LET records == Pick([i \in 1..done |-> Record(i, "complete", PastHash(m, i))],
                           {i \in 1..done : HasEvidence(m, i)})
       IN  /\ journal = IF lost THEN <<>> ELSE records
           /\ exports = IF lost THEN Members(records) ELSE {}
    /\ txs = [h \in 1..Sends(m, done) |->
          [op |-> CHOOSE i \in 1..done : PastHash(m, i) = h, status |-> "ok", state |-> h - 1, time |-> 0]]
    /\ chain = [h \in 1..Sends(m, done) |-> h]
    /\ lock = NoTab
    /\ tabs = [t \in Tabs |-> Idle]
    /\ reviews = [t \in Tabs |-> NoReview]
    /\ orphans = {}

Init == \E start \in Starts : InitAt(start[1], start[2], start[3], start[4])

-----------------------------------------------------------------------------
(* The chain, external: the transaction does what its rules allow, or also *)
(* fails for lack of gas inside the asset, reported as a revert.           *)
Succeeds(op) ==
    CASE InT02 -> TRUE
      [] InT03 -> LifecycleSucceeds(op)
      [] InT04 -> HoldSucceeds(op)
      [] InT05 -> TradeSucceeds(op)

Mine ==
    \E hash \in InFlight : \E ok \in BOOLEAN :
        /\ ok => Succeeds(txs[hash].op)
        /\ ~ok => ~Succeeds(txs[hash].op) \/ milestone \in Reverting
        /\ txs' = [txs EXCEPT ![hash] =
              [@ EXCEPT !.status = IF ok THEN "ok" ELSE "failed", !.state = Now, !.time = time]]
        /\ chain' = IF ok THEN Append(chain, hash) ELSE chain
        /\ UNCHANGED <<fixed, intents, journal, pages, orphans, time>>

(* What a user types: the hash of the very transaction that is looked for, *)
(* as the wallet or the record shows it, or by mistake a hash of none;     *)
(* with nothing recorded to look for, that changes nothing.                *)
Open(action) == {r.op : r \in Unresolved(journal, action)}
Typed(action) ==
    IF Open(action) = {} THEN {h \in DOMAIN txs : TxAction(h) = action}
    ELSE WrongHashes \cup {h \in DOMAIN txs :
             \/ txs[h].op \in Open(action)
             \/ \E r \in Unresolved(journal, action) : r.hash = h}

-----------------------------------------------------------------------------
Submits(t) ==
    \/ NovaStarts(t) \/ NovaReviews(t) \/ NovaIntends(t) \/ NovaConnects(t)
    \/ NovaAsks(t) \/ NovaStops(t)
    \/ LifecycleRuns(t) \/ LifecycleProbes(t) \/ LifecycleAsks(t)
    \/ HoldRuns(t) \/ HoldProbes(t) \/ HoldAsks(t) \/ HoldSimulating(t) \/ HoldSimulated(t)
    \/ TradeRuns(t) \/ TradeIntends(t) \/ TradeAsks(t) \/ TradeStops(t) \/ TradeSimulates(t)

Answers(t) ==
    \/ WalletSends(t) \/ Refused(t) \/ Unknown(t)
    \/ NovaHash(t) \/ NovaPolled(t)
    \/ LifecycleHash(t) \/ PollConfirms(t) \/ PollStops(t)
    \/ HoldHashReturned(t) \/ TradeHashReturned(t)

Queries(t) ==
    \/ \E hash \in DOMAIN txs : NovaQuery(t, hash)
    \/ /\ InT03 \/ InT04
       /\ tabs[t] = Idle
       /\ \E action \in AllActions : \E hash \in Typed(action) :
             LifecycleQuery(t, hash, action) \/ HoldQuery(t, hash, action)
    \/ \E r \in Members(journal) : \E hash \in WrongHashes \cup {h \in DOMAIN txs : txs[h].op = r.op} :
          (r.hash # NoHash \/ ~Resolved(r)) /\ TradeQuery(t, r.op, hash)

Recovers(t) ==
    \/ NovaMisses(t) \/ NovaRecovers(t)
    \/ LifecycleMisses(t) \/ LifecycleVerifies(t) \/ LifecycleSettles(t)
    \/ HoldMisses(t) \/ HoldVerifies(t) \/ HoldSettles(t)
    \/ TradeMisses(t) \/ TradeVerifies(t) \/ TradeSettles(t)
    \/ MirrorLags(t)

Reviews(t) ==
    \/ LifecycleReview(t) \/ HoldReview(t) \/ TradeReview(t)
    \/ LifecycleRechecks(t) \/ HoldRechecks(t) \/ TradeRechecks(t)
    \/ ReadsState(t)
    \/ LifecycleOffers(t) \/ HoldOffers(t) \/ TradeOffers(t)

Restores(t) ==
    \/ HoldRestoreWrites(t)
    \/ \E exported \in exports : HoldRestoreReads(t, exported) \/ TradeRestores(t, exported)

Page(t) ==
    Submits(t) \/ Answers(t) \/ Queries(t) \/ Recovers(t) \/ Reviews(t) \/ Restores(t)
    \/ Fails(t) \/ Close(t)

Next ==
    \/ \E t \in Tabs : Page(t)
    \/ \E op \in orphans : OrphanSends(op)
    \/ Mine \/ Tick

Spec == Init /\ [][Next]_vars

-----------------------------------------------------------------------------
Steps == {"idle", "running", "probed", "simulating", "intended", "connected", "asked", "sent",
          "polling", "rechecking", "read", "recovering", "confirmed", "restoring"}
(* Where a page must have the lock.                                        *)
Exclusive == {"running", "probed", "simulating", "intended", "connected", "asked", "sent",
              "polling", "recovering", "confirmed"}
Statuses == {"awaiting-signature", "rejected", "unknown", "pending", "confirmed", "complete",
             "failed", "mismatch"}

(* Only the holder of the lock runs, asks, recovers or, in T05, reviews    *)
(* (guards.ts 84-91); T02 recovers without it (nova.ts 395-401).           *)
LockHeld ==
    \A t \in Tabs :
        /\ tabs[t].step \in Exclusive => lock = t \/ (InT02 /\ tabs[t].step = "recovering")
        /\ InT05 /\ tabs[t].step \in {"rechecking", "read"} => lock = t

(* The wallet is asked once for an operation: it has no second prompt, and *)
(* none once it was sent, which happens once.                              *)
AskedOnce ==
    /\ \A t \in Tabs : tabs[t].step = "asked" => tabs[t].op \notin orphans
    /\ \A h \in DOMAIN txs : txs[h].op \notin Prompts
    /\ \A h, k \in DOMAIN txs : txs[h].op = txs[k].op => h = k

(* Types, the lock, and every record is of an operation and the only one   *)
(* of it; restoring what was recovered by hash already makes a second one  *)
(* with its id in T04 (hold.ts 511-515).                                   *)
TypeOK ==
    /\ lock \in Tabs \cup {NoTab}
    /\ \A t \in Tabs : tabs[t].step \in Steps
    /\ LockHeld
    /\ \A r \in Members(journal) :
         /\ r.op \in DOMAIN intents /\ r.status \in Statuses
         /\ r.hash \in {NoHash} \cup WrongHashes \cup DOMAIN txs
    /\ exports = {} \/ ~InT04 =>
         \A i, j \in DOMAIN journal : journal[i].op = journal[j].op => i = j
    /\ orphans \subseteq DOMAIN intents
    /\ \A h \in DOMAIN txs :
         txs[h].op \in DOMAIN intents /\ txs[h].status \in {"sent", "ok", "failed"}

(* What the journal shows as over is: complete is a transaction that       *)
(* succeeded, failed, or in T02 a mismatch with a hash, one that failed,   *)
(* and it is the only one there is; rejected, or a mismatch without a      *)
(* hash, means that nothing was sent or can be any more (the unresolved    *)
(* predicates, and what recovery writes).                                  *)
Over(r) == Action(r.op) \notin Simulations /\ (Resolved(r) \/ r.status = "mismatch")
ResolvedIsTrue ==
    /\ AskedOnce
    /\ \A r \in Members(journal) : Over(r) =>
         /\ r.op \notin Prompts
         /\ \A h \in DOMAIN txs : txs[h].op = r.op => h = r.hash
         /\ r.hash # NoHash =>
              /\ Mined(r.hash)
              /\ (Outcome(r.hash) = "complete") = (r.status = "complete")
              /\ Call(r.op) = Call(txs[r.hash].op)

(* At no time is there a second prompt or transaction under way, whatever  *)
(* pages are closed and whatever is recovered ("no two local transactions  *)
(* may overlap", lifecycle.ts 171; "do not resubmit", 53).                 *)
OneInFlight == Cardinality(Prompts) + Cardinality(InFlight) <= 1

(* No step of a milestone happens twice on the chain, although a creation, *)
(* an issuance or a deployment could ("never create another", nova.ts 350; *)
(* "never issue another 100", lifecycle.ts 63; "do not redeploy            *)
(* automatically", trade.ts 98).                                           *)
OncePerAction == Once(Now)

(* A transaction whose record is not settled can be: what the preflight    *)
(* checked before it was sent is what the recovery asks for, so that no    *)
(* transaction blocks its milestone for ever.  Two exceptions: T04 accepts *)
(* no success from the expiry on, and a wrong hash that was saved.         *)
Recoverable ==
    \A r \in Members(journal) : \A h \in DOMAIN txs :
        /\ txs[h].op = r.op /\ Mined(h) /\ ~Resolved(r)
        /\ r.hash \notin WrongHashes
        => /\ r.hash \in {NoHash, h}
           /\ IsFor(r.op, h)
           /\ CASE InT02 -> TRUE
                [] InT03 -> txs[h].status = "ok" => LifecyclePrecedes(TxAction(h), txs[h].state)
                [] InT04 -> txs[h].status = "ok" /\ txs[h].time < intents[r.op].expiry
                               => HoldPrecedes(h)
                [] InT05 -> TradePrecedes(h) /\ SwapPrecedes(h)
=============================================================================
