------------------------------- MODULE Journal -------------------------------
(***************************************************************************)
(* What the milestones T02 (nova.ts), T03 (lifecycle.ts), T04 (hold.ts)    *)
(* and T05 (trade.ts) share: a journal of operations in localStorage, read *)
(* and written by several pages, one Web Lock (guards.ts), and a provider  *)
(* that lets each operation ask the wallet once (transport.ts).  An        *)
(* operation is saved before the wallet is asked, and settled only by      *)
(* reading its transaction from the chain.                                 *)
(*                                                                         *)
(* Every await is a point where other pages go on, a prompt is answered, a *)
(* block is made or the page is closed, so a handler is a sequence of      *)
(* steps between awaits, kept in tabs.  The modules of the milestones      *)
(* extend this one; Milestones composes them.                              *)
(*                                                                         *)
(* A failed request, another account in the wallet, an expired credential  *)
(* or an aborted signal ends a handler (Fails); nothing else tells them    *)
(* apart.  The statuses confirmed and mirror-pending are one, confirmed:   *)
(* both are unresolved and have a hash, and no code distinguishes them.    *)
(***************************************************************************)
EXTENDS Integers, Sequences, FiniteSets

CONSTANTS
    Tabs,           \* pages of this origin, in one browser
    NoTab,
    ClosedTabs,     \* pages of this build, whose ...Closed flag is set; the other
                    \* pages were loaded before the milestones were closed
    WrongHashes,    \* well-formed hashes of no transaction, typed by mistake
    RestoresAlone,  \* whether users restore evidence only while no handler runs
    Reverting,      \* milestones whose transactions may also revert for lack of gas
    Validity,       \* how long a reviewed expiry lies ahead: 86400 in the code
    MaxTime         \* bound on time, for TLC

ASSUME TabsAssumption == NoTab \notin Tabs /\ ClosedTabs \subseteq Tabs
ASSUME JournalAssumption ==
    /\ Validity \in Nat \ {0} /\ MaxTime \in Nat
    /\ RestoresAlone \in BOOLEAN
    /\ WrongHashes \cap Nat = {}

VARIABLES
    milestone,  \* the milestone these pages are about
    maxOps,     \* bound on its operations, for TLC; each is sent at most once
    exports,    \* records exported before another browser's storage was lost
    intents,    \* every operation: its action, inputs and reviewed state
    journal,    \* the records in localStorage, in their order
    lock,       \* the page that holds the Web Lock
    tabs,       \* the handler each page is in, between two awaits
    reviews,    \* what each page shows for approval
    orphans,    \* operations whose prompt is open although their page is gone
    txs,        \* the transactions sent; a hash is a position
    chain,      \* the transactions that succeeded, in order
    time        \* of the latest block

vars == <<milestone, maxOps, exports, intents, journal, lock, tabs, reviews, orphans, txs, chain, time>>
fixed == <<milestone, maxOps, exports>>
pages == <<lock, tabs, reviews>>
ledger == <<txs, chain, time>>

NoHash == 0
Idle == [step |-> "idle"]
NoReview == [action |-> "none"]

Record(op, status, hash) == [op |-> op, status |-> status, hash |-> hash]
Action(op) == intents[op].action
Resolved(r) == r.status \in {"complete", "failed"} \/ (r.status = "rejected" /\ r.hash = NoHash)
Members(records) == {records[i] : i \in DOMAIN records}

(* Mutant: only operations with a hash are waited for.                     *)
SettledHashes(records) == \A r \in Members(records) : Resolved(r) \/ r.hash = NoHash
Settled(records) == \A r \in Members(records) : Resolved(r)
Completed(records, action) ==
    {r \in Members(records) : r.status = "complete" /\ Action(r.op) = action}
Unresolved(records, action) ==
    {r \in Members(records) : ~Resolved(r) /\ Action(r.op) = action}

(* The elements at some positions of a sequence, in their order.           *)
Pick(s, keep) ==
    [n \in 1..Cardinality(keep) |->
        s[CHOOSE i \in keep : Cardinality({j \in keep : j <= i}) = n]]
Without(records, op) == Pick(records, {i \in DOMAIN records : records[i].op # op})

(* persist: the record leaves its place and goes to the end.               *)
Put(records, r) == Append(Without(records, r.op), r)

(* recoverTrade replaces the record in its place.                          *)
Replace(records, r) ==
    [i \in DOMAIN records |-> IF records[i].op = r.op THEN r ELSE records[i]]
Place(records, r) == IF milestone = "t05" THEN Replace(records, r) ELSE Put(records, r)

(* The operation of the first record that is wanted; Array.find.           *)
FirstOf(records, wanted) ==
    LET found == {i \in DOMAIN records : records[i] \in wanted}
    IN  {records[i].op : i \in {k \in found : \A j \in found : k <= j}}

Intent(action, hold, expiry, state, digest) ==
    [action |-> action, hold |-> hold, expiry |-> expiry, state |-> state, digest |-> digest]
Call(op) == <<intents[op].action, intents[op].hold, intents[op].expiry>>
TxAction(hash) == Action(txs[hash].op)

-----------------------------------------------------------------------------
(***************************************************************************)
(* The chain, external.  A state is the number of transactions that have   *)
(* succeeded; Did are their actions.  A digest compares token states: a    *)
(* deployed swap is not part of it.                                        *)
(***************************************************************************)
Did(state) == {TxAction(chain[i]) : i \in 1..state}
Once(state) == Cardinality(Did(state)) = state
HashOf(action, state) == {chain[i] : i \in {k \in 1..state : TxAction(chain[k]) = action}}
Digest(state) == Cardinality({i \in 1..state : TxAction(chain[i]) # "deploy"})
Now == Len(chain)

Tick ==
    /\ milestone \in {"t04", "t05"}   \* nothing else depends on the time
    /\ time < MaxTime
    /\ time' = time + 1
    /\ UNCHANGED <<fixed, intents, journal, pages, orphans, txs, chain>>

-----------------------------------------------------------------------------
(***************************************************************************)
(* Pages.  withTransactionLock never waits, and a handler that finds the   *)
(* lock taken, or the lease of its page, does nothing.                     *)
(***************************************************************************)
(* Mutant: a handler does not wait for the lock.                           *)
TakeAnyway(t) ==
    /\ tabs[t].step \in {"idle", "rechecking"}
    /\ RestoresAlone => \A u \in Tabs : tabs[u].step # "restoring"
    /\ lock' = t

Take(t) ==
    /\ tabs[t].step \in {"idle", "rechecking"}
    /\ lock = NoTab
    /\ RestoresAlone => \A u \in Tabs : tabs[u].step # "restoring"
    /\ lock' = t

Goto(t, c) == tabs' = [tabs EXCEPT ![t] = c]
Release(t) == lock' = IF lock = t THEN NoTab ELSE lock
Finish(t) == Goto(t, Idle) /\ Release(t)
DropReview(t) == reviews' = [reviews EXCEPT ![t] = NoReview]

(* publish: sanitize, save and keep the record.                            *)
Publish(t, r, c) ==
    LET records == Put(tabs[t].records, r)
    IN  /\ journal' = records
        /\ Goto(t, [c EXCEPT !.records = records])

Prompts == orphans \cup {tabs[t].op : t \in {u \in Tabs : tabs[u].step = "asked"}}
InFlight == {h \in DOMAIN txs : txs[h].status = "sent"}

(* The page is closed or reloaded; a prompt that is open stays open.       *)
Close(t) ==
    /\ tabs[t] # Idle
    /\ orphans' = IF tabs[t].step = "asked" THEN orphans \cup {tabs[t].op} ELSE orphans
    /\ Finish(t)
    /\ DropReview(t)
    /\ UNCHANGED <<fixed, intents, journal, ledger>>

(* run... : the review is still what is saved, and the build not closed.   *)
RunStarts(t) ==
    /\ t \notin ClosedTabs
    /\ tabs[t] = Idle
    /\ Take(t)
    /\ reviews[t] # NoReview
    /\ reviews[t].journal = journal
    /\ Goto(t, [step |-> "running", records |-> journal])
    /\ UNCHANGED <<fixed, intents, journal, reviews, orphans, ledger>>

(* eth_sendTransaction: saved as awaiting a signature, then asked.         *)
Asks(t, op) ==
    /\ Publish(t, Record(op, "awaiting-signature", NoHash),
               [step |-> "asked", op |-> op, records |-> <<>>])
    /\ UNCHANGED <<fixed, lock, reviews, orphans, ledger>>

-----------------------------------------------------------------------------
(***************************************************************************)
(* The wallet.  The user approves, refuses, or something fails and leaves  *)
(* the prompt open or the answer lost.                                     *)
(***************************************************************************)
Sent(op) == [op |-> op, status |-> "sent", state |-> 0, time |-> 0]

WalletSends(t) ==
    /\ tabs[t].step = "asked"
    /\ txs' = Append(txs, Sent(tabs[t].op))
    /\ Goto(t, [step |-> "sent", op |-> tabs[t].op, hash |-> Len(txs'),
                records |-> tabs[t].records])
    /\ UNCHANGED <<fixed, intents, journal, lock, reviews, orphans, chain, time>>

OrphanSends(op) ==
    /\ op \in orphans
    /\ txs' = Append(txs, Sent(op))
    /\ orphans' = orphans \ {op}
    /\ UNCHANGED <<fixed, intents, journal, pages, chain, time>>

(* The last record that a run publishes.                                   *)
Ends(t, r) ==
    /\ journal' = Put(tabs[t].records, r)
    /\ Finish(t)
    /\ DropReview(t)

(* Code 4001.                                                              *)
Refused(t) ==
    /\ tabs[t].step = "asked"
    /\ Ends(t, Record(tabs[t].op, "rejected", NoHash))
    /\ UNCHANGED <<fixed, intents, orphans, ledger>>

(* Mutant: an unknown result is taken for a refusal.                       *)
UnknownIsRefusal(t) ==
    /\ tabs[t].step \in {"asked", "sent"}
    /\ orphans' = IF tabs[t].step = "asked" THEN orphans \cup {tabs[t].op} ELSE orphans
    /\ Ends(t, Record(tabs[t].op, "rejected", NoHash))
    /\ UNCHANGED <<fixed, intents, ledger>>

Unknown(t) ==
    /\ tabs[t].step \in {"asked", "sent"}
    /\ orphans' = IF tabs[t].step = "asked" THEN orphans \cup {tabs[t].op} ELSE orphans
    /\ Ends(t, Record(tabs[t].op, "unknown", NoHash))
    /\ UNCHANGED <<fixed, intents, ledger>>

(* The hash is saved, whatever became of the wallet session meanwhile.     *)
HashReturned(t, next) ==
    LET c == tabs[t]
    IN  /\ c.step = "sent"
        /\ Publish(t, Record(c.op, "pending", c.hash), next)
        /\ DropReview(t)
        /\ UNCHANGED <<fixed, intents, lock, orphans, ledger>>

-----------------------------------------------------------------------------
(***************************************************************************)
(* Recovery of one operation from its hash.  In a handler of its own, at   *)
(* the end of a run, or for each settled record when a review starts: then *)
(* left are the records still to recheck, and expects is the status that   *)
(* the one under way has.  found is the operation of the record it is for, *)
(* the empty set if none was saved.                                        *)
(***************************************************************************)
Recovering(found, hash, action, records, left, expects) ==
    [step |-> "recovering", found |-> found, hash |-> hash, action |-> action,
     records |-> records, left |-> left, expects |-> expects]

NotForReview == "any"
Mined(hash) == hash \in DOMAIN txs /\ txs[hash].status # "sent"
Outcome(hash) == IF txs[hash].status = "ok" THEN "complete" ELSE "failed"

(* The calldata of the transaction is that of the record, and the state in *)
(* front of it is the one that was reviewed.                               *)
IsFor(op, hash) ==
    /\ Call(op) = Call(txs[hash].op)
    /\ intents[op].state >= 0 => Digest(intents[op].state) = Digest(txs[hash].state)

(* A review goes on with the next record, or is over when this one is not  *)
(* what it was; T03 does not look at the outcome.                          *)
GoesOn(t, status) ==
    LET c == tabs[t]
    IN  IF c.expects # NotForReview /\ (milestone = "t03" \/ c.expects = status)
        THEN /\ Goto(t, [step |-> "rechecking", left |-> c.left])
             /\ lock' = IF milestone = "t05" THEN lock ELSE NoTab
        ELSE Finish(t)

(* The receipt verifies: the record is confirmed, before Mirror is asked.  *)
(* A hash without a record gets one, with what the calldata says.          *)
Verifies(t) ==
    LET c == tabs[t]
        call == intents[txs[c.hash].op]
        op == IF c.found = {} THEN Len(intents) + 1 ELSE CHOOSE o \in c.found : TRUE
        records == Place(c.records, Record(op, "confirmed", c.hash))
    IN  /\ c.step = "recovering"
        /\ Mined(c.hash)
        /\ TxAction(c.hash) = c.action
        /\ \A o \in c.found : IsFor(o, c.hash)
        /\ IF c.found = {}
           THEN /\ Len(intents) < maxOps
                /\ intents' = Append(intents, Intent(call.action, call.hold, call.expiry, -1, FALSE))
           ELSE UNCHANGED intents
        /\ journal' = records
        /\ Goto(t, [c EXCEPT !.step = "confirmed", !.found = {op}, !.records = records])
        /\ UNCHANGED <<fixed, lock, reviews, orphans, ledger>>

(* Mirror has the transaction: the record is settled.                      *)
Settles(t) ==
    LET c == tabs[t]
        status == Outcome(c.hash)
    IN  /\ c.step = "confirmed"
        /\ \E op \in c.found : journal' = Place(c.records, Record(op, status, c.hash))
        /\ GoesOn(t, status)
        /\ UNCHANGED <<fixed, intents, reviews, orphans, ledger>>

(* Mirror has not: mirror-pending.                                         *)
MirrorLags(t) ==
    /\ tabs[t].step = "confirmed"
    /\ GoesOn(t, "confirmed")
    /\ UNCHANGED <<fixed, intents, journal, reviews, orphans, ledger>>

(* Requests fail, the wallet differs, a check does not pass.               *)
Fails(t) ==
    /\ tabs[t].step \in {"running", "probed", "simulating", "rechecking", "read", "recovering",
                         "confirmed", "restoring"}
    /\ Finish(t)
    /\ IF tabs[t].step \in {"running", "probed", "simulating"}
       THEN DropReview(t) ELSE UNCHANGED reviews
    /\ UNCHANGED <<fixed, intents, journal, orphans, ledger>>

-----------------------------------------------------------------------------
(***************************************************************************)
(* A review: recheck what is settled, read the state, then the journal.    *)
(***************************************************************************)
(* The transactions are rechecked one by one.  The simulations of T04 and  *)
(* T05, which have no hash, are replayed from what cannot change any more, *)
(* so that the first step of a review stands for all of their replays.     *)
ToRecheck(records) ==
    Pick(records, {i \in DOMAIN records :
                      records[i].status \in {"complete", "failed"} /\ records[i].hash # NoHash})
Simulated(records) == {r.op : r \in {q \in Members(records) : q.status = "complete" /\ q.hash = NoHash}}

ReadsState(t) ==
    /\ tabs[t].step = "rechecking"
    /\ tabs[t].left = <<>>
    /\ Goto(t, [step |-> "read", state |-> Now, time |-> time])
    /\ UNCHANGED <<fixed, intents, journal, lock, reviews, orphans, ledger>>

(* What a review offers: action, the Hold or swap it is about, the expiry. *)
Offers(t, action, hold, expiry) ==
    /\ reviews' = [reviews EXCEPT
          ![t] = [action |-> action, hold |-> hold, expiry |-> expiry,
                  state |-> tabs[t].state, journal |-> journal]]
    /\ Finish(t)
    /\ UNCHANGED <<fixed, intents, journal, orphans, ledger>>
=============================================================================
