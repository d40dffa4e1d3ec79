------------------------------- MODULE Creation -------------------------------
(***************************************************************************)
(* T02, nova.ts: the asset is created, once.  There is a single record.    *)
(* It is created under the lock; what its hash became of is found without  *)
(* the lock, and saved over whatever record there is then.  mismatch: the  *)
(* wallet was never asked, or the transaction is not the creation wanted.  *)
(***************************************************************************)
EXTENDS Journal

InT02 == milestone = "t02"
CreateNova == "create-nova"
CanCreateNova(records) ==
    \A r \in Members(records) : r.status = "rejected" /\ r.hash = NoHash

(* createNova.                                                             *)
NovaStarts(t) ==
    /\ InT02
    /\ t \notin ClosedTabs
    /\ tabs[t] = Idle
    /\ Take(t)
    /\ CanCreateNova(journal)
    /\ Goto(t, [step |-> "running", records |-> <<>>])
    /\ UNCHANGED <<fixed, intents, journal, reviews, orphans, ledger>>

(* The review that the user saw, of wallet, SDK, deployment and calldata,  *)
(* is done again under the lock; none of them changes.                     *)
NovaReviews(t) ==
    /\ InT02
    /\ tabs[t].step = "running"
    /\ Goto(t, [tabs[t] EXCEPT !.step = "probed"])
    /\ UNCHANGED <<fixed, intents, journal, lock, reviews, orphans, ledger>>

(* The intent is saved before the providers exist.                         *)
NovaIntends(t) ==
    LET op == Len(intents) + 1
    IN  /\ InT02
        /\ tabs[t].step = "probed"
        /\ op <= maxOps
        /\ intents' = Append(intents, Intent(CreateNova, NoHash, 0, -1, TRUE))
        /\ Publish(t, Record(op, "awaiting-signature", NoHash),
                   [step |-> "intended", op |-> op, records |-> <<>>])
        /\ UNCHANGED <<fixed, lock, reviews, orphans, ledger>>

(* The SDK connects to the providers and is given the configuration; then  *)
(* it creates, and the wallet is asked.                                    *)
NovaConnects(t) ==
    /\ InT02
    /\ tabs[t].step = "intended"
    /\ Goto(t, [tabs[t] EXCEPT !.step = "connected"])
    /\ UNCHANGED <<fixed, intents, journal, lock, reviews, orphans, ledger>>

NovaAsks(t) ==
    /\ InT02
    /\ tabs[t].step = "connected"
    /\ Asks(t, tabs[t].op)
    /\ UNCHANGED intents

(* What fails between the intent and the prompt blocks a creation for ever. *)
NovaStops(t) ==
    /\ InT02
    /\ tabs[t].step \in {"intended", "connected"}
    /\ Ends(t, Record(tabs[t].op, "mismatch", NoHash))
    /\ UNCHANGED <<fixed, intents, orphans, ledger>>

NovaHash(t) ==
    /\ InT02
    /\ HashReturned(t, [tabs[t] EXCEPT !.step = "polling"])

(* A receipt of success is confirmed; all else is unknown.  With the lock  *)
(* released, the hash is then recovered.                                   *)
NovaPolled(t) ==
    LET c == tabs[t]
    IN  /\ InT02
        /\ c.step = "polling"
        /\ \E status \in {"unknown"} \cup IF Mined(c.hash) /\ txs[c.hash].status = "ok"
                                          THEN {"confirmed"} ELSE {} :
             /\ journal' = Put(c.records, Record(c.op, status, c.hash))
             /\ Goto(t, Recovering({c.op}, c.hash, CreateNova, journal', <<>>, NotForReview))
        /\ Release(t)
        /\ UNCHANGED <<fixed, intents, reviews, orphans, ledger>>

-----------------------------------------------------------------------------
(* ActivityPage queries the known creation without what is recorded of it; *)
(* pages of this build do that too.                                        *)
NovaQuery(t, hash) ==
    /\ InT02
    /\ tabs[t] = Idle
    /\ Goto(t, Recovering({}, hash, CreateNova, <<>>, <<>>, NotForReview))
    /\ UNCHANGED <<fixed, intents, journal, lock, reviews, orphans, ledger>>

(* recoverNova gives one result, in the end, and it is saved.              *)
NovaSaves(t, status) ==
    LET c == tabs[t]
        op == IF c.found = {} THEN Len(intents) + 1 ELSE CHOOSE o \in c.found : TRUE
    IN  /\ InT02
        /\ c.step = "recovering"
        /\ op <= maxOps
        /\ intents' = IF c.found = {} THEN Append(intents, Intent(CreateNova, NoHash, 0, -1, FALSE))
                      ELSE intents
        /\ journal' = <<Record(op, status, c.hash)>>
        /\ Finish(t)
        /\ UNCHANGED <<fixed, reviews, orphans, ledger>>

NovaMisses(t) ==
    /\ tabs[t].step = "recovering" /\ tabs[t].found # {}
    /\ ~Mined(tabs[t].hash)
    /\ NovaSaves(t, "pending")

NovaRecovers(t) ==
    /\ tabs[t].step = "recovering"
    /\ Mined(tabs[t].hash)
    /\ IF txs[tabs[t].hash].status = "ok"
       THEN \E status \in {"complete", "confirmed"} : NovaSaves(t, status)
       ELSE tabs[t].found # {} /\ NovaSaves(t, "mismatch")
=============================================================================
