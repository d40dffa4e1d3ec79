--------------------------- MODULE SettlementClient ---------------------------
(***************************************************************************)
(* The settlement client of the browser (src/src/lib/settlement.ts, with   *)
(* guards.ts and transport.ts): several panels, in several tabs or mounted *)
(* one after another, share one saved record in localStorage and one Web   *)
(* Lock.  Preparing and submitting hold the lock; querying does not.       *)
(*                                                                         *)
(* Every await is a point where other panels go on, a wallet prompt is     *)
(* answered or the tab is closed, so each handler is a sequence of steps   *)
(* between awaits.  The server is reduced to its operations and what       *)
(* SettlementStore lets happen to them; the wallet sends a transaction,    *)
(* refuses, or fails without saying which.  A panel shows the record as it *)
(* read it last, and the operations of the server as a poll found them.    *)
(*                                                                         *)
(* An answer to a query and "Load original operation" write the record     *)
(* without the lock.  overwritten is a history variable: the operations    *)
(* whose attempted record was written over by one of the two while the     *)
(* operation was unresolved.                                               *)
(*                                                                         *)
(* Left out: the account, KYC and chain checks of the preflight, which may *)
(* stop a handler at any of its steps (PrepareFails, SubmitFails).         *)
(***************************************************************************)
EXTENDS Integers, Sequences, FiniteSets

CONSTANTS
    Panels,         \* mounted settlement panels
    NoPanel,
    WrongHashes,    \* well-formed hashes of no transaction, typed by mistake
    MaxOps,         \* bound on operations, for TLC
    MaxSends        \* bound on transactions, for TLC

ASSUME PanelsAssumption == NoPanel \notin Panels
ASSUME ClientBoundsAssumption ==
    /\ MaxOps \in Nat /\ MaxSends \in Nat
    /\ WrongHashes \cap 0..MaxSends = {}

VARIABLES
    saved,     \* the record in localStorage
    lock,      \* the panel that holds the Web Lock
    panels,    \* the handler each panel is in, between two awaits
    shown,     \* what each panel shows of the record it read last
    reviews,   \* the operation each panel shows for approval, 0 if none
    orphans,   \* operations whose prompt is open although nobody waits for it
    ops,       \* the server's operations: status and hash
    txs,       \* the operation of each transaction sent; its hash is its position
    overwritten   \* the operations whose attempted record was written over

vars == <<saved, lock, panels, shown, reviews, orphans, ops, txs, overwritten>>

NoHash == 0
Idle == [step |-> "idle"]
Record(op, status, hash, attempted, rejected) ==
    [op |-> op, status |-> status, hash |-> hash, attempted |-> attempted,
     rejected |-> rejected]
NoRecord == Record(0, "none", NoHash, FALSE, FALSE)

\* "verified" or "reverted": the client makes no difference between them.
Resolved(status) == status = "resolved"
Attempted(r) == r.attempted /\ ~r.rejected

(* A panel tells from its record which operation it is of, and whether its *)
(* transaction was submitted or is unknown: then it offers only the query. *)
Shows(r) == [op |-> r.op, unknown |-> Attempted(r) /\ ~Resolved(r.status)]

Init ==
    /\ saved = NoRecord
    /\ lock = NoPanel
    /\ panels = [p \in Panels |-> Idle]
    /\ shown = [p \in Panels |-> Shows(NoRecord)]
    /\ reviews = [p \in Panels |-> 0]
    /\ orphans = {}
    /\ ops = <<>>
    /\ txs = <<>>
    /\ overwritten = {}

Take(p) ==
    /\ panels[p] = Idle
    /\ lock = NoPanel
    /\ lock' = p

Goto(p, c) == panels' = [panels EXCEPT ![p] = c]
Show(p, r) == shown' = [shown EXCEPT ![p] = Shows(r)]

Finish(p) ==
    /\ Goto(p, Idle)
    /\ lock' = IF lock = p THEN NoPanel ELSE lock

-----------------------------------------------------------------------------
(***************************************************************************)
(* prepareSettlement.  The server answers with the unresolved operation or *)
(* with a new one; the browser saves it, not attempted, and then checks    *)
(* that the server has no hash for it.                                     *)
(***************************************************************************)
PrepareStarts(p) ==
    /\ Take(p)
    /\ reviews[p] = 0 /\ ~shown[p].unknown
    /\ ~(Attempted(saved) /\ ~Resolved(saved.status))
    /\ Goto(p, [step |-> "preparing"])
    /\ UNCHANGED <<saved, shown, reviews, orphans, ops, txs, overwritten>>

PrepareAtServer(p) ==
    /\ panels[p].step = "preparing"
    /\ IF ops # <<>> /\ ~Resolved(ops[Len(ops)].status)
       THEN UNCHANGED ops
       ELSE Len(ops) < MaxOps /\ ops' = Append(ops, [status |-> "prepared", hash |-> NoHash])
    /\ Goto(p, [step |-> "prepared", op |-> Len(ops'), status |-> ops'[Len(ops')].status,
                hash |-> ops'[Len(ops')].hash])
    /\ UNCHANGED <<saved, lock, shown, reviews, orphans, txs, overwritten>>

(* The operation is compared with the matched orders and the calldata that *)
(* the browser derives on its own; it is the one of this match, or not and *)
(* then PrepareFails.                                                      *)
PrepareSaves(p) ==
    LET c == panels[p]
    IN  /\ c.step = "prepared"
        /\ saved' = Record(c.op, c.status, c.hash, FALSE, FALSE)
        /\ Goto(p, [step |-> "checking", op |-> c.op])
        /\ UNCHANGED <<lock, shown, reviews, orphans, ops, txs, overwritten>>

PrepareReviewed(p) ==
    /\ panels[p].step = "checking"
    /\ ops[panels[p].op].status = "prepared"
    /\ reviews' = [reviews EXCEPT ![p] = panels[p].op]
    /\ Show(p, saved)
    /\ Finish(p)
    /\ UNCHANGED <<saved, orphans, ops, txs, overwritten>>

(* The panel reads the record again, unless its account changed meanwhile. *)
PrepareFails(p) ==
    /\ panels[p].step \in {"preparing", "prepared", "checking"}
    /\ Show(p, saved) \/ UNCHANGED shown
    /\ Finish(p)
    /\ UNCHANGED <<saved, reviews, orphans, ops, txs, overwritten>>

(* Back to the match, or another account.                                  *)
DropReview(p) ==
    /\ reviews[p] # 0
    /\ panels[p] = Idle
    /\ reviews' = [reviews EXCEPT ![p] = 0]
    /\ UNCHANGED <<saved, lock, panels, shown, orphans, ops, txs, overwritten>>

(* The storage event of another panel's write, or the page is loaded anew. *)
Hears(p) ==
    /\ shown[p] # Shows(saved) \/ reviews[p] # 0
    /\ Show(p, saved)
    /\ reviews' = [reviews EXCEPT ![p] = 0]
    /\ UNCHANGED <<saved, lock, panels, orphans, ops, txs, overwritten>>

-----------------------------------------------------------------------------
(***************************************************************************)
(* submitSettlement.  The record must name the operation, not attempted,   *)
(* when it starts and again right before sending; it is saved as attempted *)
(* before the wallet is asked.                                             *)
(***************************************************************************)
(* Mutant: a record that was attempted does not stop a second submission.  *)
MaySendAgain(op) == saved.op = op

MaySend(op) == saved.op = op /\ ~Attempted(saved)

SubmitStarts(p) ==
    /\ Take(p)
    /\ reviews[p] # 0 /\ ~shown[p].unknown
    /\ MaySend(reviews[p])
    /\ Goto(p, [step |-> "submitting", op |-> reviews[p]])
    /\ UNCHANGED <<saved, shown, reviews, orphans, ops, txs, overwritten>>

(* The first preflight; then the providers are made, and for a lock the    *)
(* SDK is connected to them.                                               *)
SubmitConnects(p) ==
    /\ panels[p].step = "submitting"
    /\ MaySend(panels[p].op)
    /\ ops[panels[p].op].status = "prepared"
    /\ Goto(p, [step |-> "connected", op |-> panels[p].op])
    /\ UNCHANGED <<saved, lock, shown, reviews, orphans, ops, txs, overwritten>>

(* The second, when the provider is about to send; it reads the chain      *)
(* after the server, so that there is time until the wallet is asked.      *)
SubmitRechecks(p) ==
    /\ panels[p].step = "connected"
    /\ MaySend(panels[p].op)
    /\ ops[panels[p].op].status = "prepared"
    /\ Goto(p, [step |-> "checked", op |-> panels[p].op])
    /\ UNCHANGED <<saved, lock, shown, reviews, orphans, ops, txs, overwritten>>

(* Mutant: the wallet is asked before the record is saved.                 *)
AskUnsaved(p) ==
    /\ panels[p].step = "checked"
    /\ Goto(p, [step |-> "asked", op |-> panels[p].op])
    /\ UNCHANGED <<saved, lock, shown, reviews, orphans, ops, txs, overwritten>>

Ask(p) ==
    /\ panels[p].step = "checked"
    /\ saved' = Record(panels[p].op, "prepared", NoHash, TRUE, FALSE)
    /\ Show(p, saved')
    /\ Goto(p, [step |-> "asked", op |-> panels[p].op])
    /\ UNCHANGED <<lock, reviews, orphans, ops, txs, overwritten>>

EndSubmit(p) ==
    /\ Finish(p)
    /\ reviews' = [reviews EXCEPT ![p] = 0]

SubmitFails(p) ==
    /\ panels[p].step \in {"submitting", "connected", "checked"}
    /\ EndSubmit(p)
    /\ UNCHANGED <<saved, shown, orphans, ops, txs, overwritten>>

(* The user approves; the answer is on its way to the panel.               *)
WalletSends(p) ==
    /\ panels[p].step = "asked"
    /\ Len(txs) < MaxSends
    /\ txs' = Append(txs, panels[p].op)
    /\ Goto(p, [step |-> "sent", op |-> panels[p].op, hash |-> Len(txs')])
    /\ UNCHANGED <<saved, lock, shown, reviews, orphans, ops, overwritten>>

OrphanSends(op) ==
    /\ op \in orphans
    /\ Len(txs) < MaxSends
    /\ txs' = Append(txs, op)
    /\ orphans' = orphans \ {op}
    /\ UNCHANGED <<saved, lock, panels, shown, reviews, ops, overwritten>>

(* Code 4001: there is no transaction, and the operation may be sent again.*)
Refused(p) ==
    /\ panels[p].step = "asked"
    /\ saved' = Record(panels[p].op, "prepared", NoHash, TRUE, TRUE)
    /\ Show(p, saved')
    /\ EndSubmit(p)
    /\ UNCHANGED <<orphans, ops, txs, overwritten>>

(* Any other error: the prompt may still be open, or the answer is lost.   *)
Unknown(p) ==
    /\ panels[p].step \in {"asked", "sent"}
    /\ saved' = Record(panels[p].op, "prepared", NoHash, TRUE, FALSE)
    /\ orphans' = IF panels[p].step = "asked" THEN orphans \cup {panels[p].op} ELSE orphans
    /\ Show(p, saved')
    /\ EndSubmit(p)
    /\ UNCHANGED <<ops, txs, overwritten>>

(* The hash is saved; then the providers are closed.                       *)
HashReturned(p) ==
    /\ panels[p].step = "sent"
    /\ saved' = Record(panels[p].op, "pending", panels[p].hash, TRUE, FALSE)
    /\ Show(p, saved')
    /\ Goto(p, [step |-> "returned"])
    /\ reviews' = [reviews EXCEPT ![p] = 0]
    /\ UNCHANGED <<lock, orphans, ops, txs, overwritten>>

-----------------------------------------------------------------------------
(***************************************************************************)
(* recoverSettlement, with the hash the user typed or none.  The record is *)
(* read before the request and written back, with the answer, after it.    *)
(***************************************************************************)
Query(p, typed) ==
    LET hash == IF typed # NoHash THEN typed ELSE saved.hash
        r == IF hash = NoHash THEN saved ELSE [saved EXCEPT !.hash = hash, !.attempted = TRUE]
    IN  /\ saved.op # 0
        /\ saved.hash \in {NoHash, hash}
        /\ saved' = r
        /\ IF hash = NoHash THEN UNCHANGED shown ELSE Show(p, r)
        /\ Goto(p, [step |-> "querying", record |-> r])
        /\ UNCHANGED <<lock, reviews, orphans, ops, txs, overwritten>>

QueryStarts(p, typed) ==
    /\ panels[p] = Idle
    /\ Query(p, typed)

(* Once a hash has returned, what is saved by now is queried, under the    *)
(* lock of the submission.                                                 *)
SubmitQueries(p) ==
    /\ panels[p].step = "returned"
    /\ Query(p, NoHash)

(***************************************************************************)
(* The server takes a hash only if it is of a transaction of the operation *)
(* and no other is stored; verification may come to an end or not.         *)
(***************************************************************************)
QueryAtServer(p) ==
    LET r == panels[p].record
        o == ops[r.op]
        hash == IF r.hash = NoHash THEN o.hash ELSE r.hash
        outcomes == IF Resolved(o.status) \/ hash = NoHash THEN {o.status}
                    ELSE {"pending", "resolved"}
    IN  /\ panels[p].step = "querying"
        /\ hash # NoHash => hash \in DOMAIN txs /\ txs[hash] = r.op
        /\ o.hash \in {NoHash, hash}
        /\ \E status \in outcomes :
              /\ ops' = [ops EXCEPT ![r.op] = [status |-> status, hash |-> hash]]
              /\ Goto(p, [step |-> "answering", record |-> r, status |-> status, hash |-> hash])
        /\ UNCHANGED <<saved, lock, shown, reviews, orphans, txs, overwritten>>

(* What is saved instead of an attempted record of an unresolved operation *)
(* does not name the operation, or says that it was not sent.              *)
Overwrites ==
    overwritten' =
       IF /\ Attempted(saved) /\ ~Resolved(ops[saved.op].status)
          /\ ~(saved'.op = saved.op /\ Attempted(saved'))
       THEN overwritten \cup {saved.op}
       ELSE overwritten

QueryEnds(p) ==
    LET c == panels[p]
    IN  /\ c.step = "answering"
        /\ c.record.hash \in {NoHash, c.hash}
        /\ saved' = [c.record EXCEPT !.status = c.status, !.hash = c.hash]
        /\ Overwrites
        /\ Show(p, saved')
        /\ Finish(p)
        /\ UNCHANGED <<reviews, orphans, ops, txs>>

QueryFails(p) ==
    /\ panels[p].step \in {"querying", "answering", "returned"}
    /\ Finish(p)
    /\ UNCHANGED <<saved, shown, reviews, orphans, ops, txs, overwritten>>

(* The unresolved operation of the server that a panel knows of: a poll    *)
(* found it at any time before.                                            *)
Earlier(o) ==
    {o, [status |-> "prepared", hash |-> NoHash]}
       \cup IF o.hash = NoHash THEN {} ELSE {[o EXCEPT !.status = "pending"]}
Views ==
    {v \in UNION {[op : {i}, found : Earlier(ops[i])] : i \in DOMAIN ops} :
        ~Resolved(v.found.status)}

(* "Load original operation for query": the record is that of the server's *)
(* unresolved operation, taken for attempted.                              *)
Load(p, v) ==
    /\ saved' = Record(v.op, v.found.status, v.found.hash, TRUE, FALSE)
    /\ Overwrites
    /\ Show(p, saved')
    /\ UNCHANGED <<lock, panels, reviews, orphans, ops, txs>>

(* Mutant: it is also offered for the operation that is shown.             *)
LoadOriginalAlways(p) == panels[p] = Idle /\ \E v \in Views : Load(p, v)

(* It is offered when the record that the panel shows is of another one.   *)
LoadOriginal(p) ==
    /\ panels[p] = Idle
    /\ \E v \in Views : shown[p].op # v.op /\ Load(p, v)

(* The tab is closed or reloaded; a prompt stays open.                     *)
Close(p) ==
    /\ panels[p] # Idle
    /\ orphans' = IF panels[p].step = "asked" THEN orphans \cup {panels[p].op} ELSE orphans
    /\ Show(p, saved)
    /\ EndSubmit(p)
    /\ UNCHANGED <<saved, ops, txs, overwritten>>

(* What the user may type: a hash that the wallet shows, or something else.*)
Typed == DOMAIN txs \cup WrongHashes \cup {NoHash}

PanelStep(p) ==
    \/ PrepareStarts(p)
    \/ PrepareAtServer(p)
    \/ PrepareSaves(p)
    \/ PrepareReviewed(p)
    \/ PrepareFails(p)
    \/ DropReview(p)
    \/ Hears(p)
    \/ SubmitStarts(p)
    \/ SubmitConnects(p)
    \/ SubmitRechecks(p)
    \/ Ask(p)
    \/ SubmitFails(p)
    \/ WalletSends(p)
    \/ Refused(p)
    \/ Unknown(p)
    \/ HashReturned(p)
    \/ SubmitQueries(p)
    \/ \E typed \in Typed : QueryStarts(p, typed)
    \/ QueryAtServer(p)
    \/ QueryEnds(p)
    \/ QueryFails(p)
    \/ LoadOriginal(p)
    \/ Close(p)

Next ==
    \/ \E p \in Panels : PanelStep(p)
    \/ \E op \in orphans : OrphanSends(op)

Spec == Init /\ [][Next]_vars

-----------------------------------------------------------------------------

(***************************************************************************)
(* Whatever panels race, prompts are answered late or not at all, and tabs *)
(* are closed, an operation is sent twice only after an answer to a query  *)
(* or a load wrote over its attempted record: no order of prepare, submit, *)
(* refusal and lost answers alone sends again (submitSettlement).          *)
(***************************************************************************)
OnceUnlessOverwritten ==
    \A i, j \in DOMAIN txs : i # j /\ txs[i] = txs[j] => txs[i] \in overwritten

(***************************************************************************)
(* While an operation that was sent is unresolved, the saved record names  *)
(* it and says that it was sent, unless one of those two wrote over it:    *)
(* preparing, submitting and starting a query never do (settlement.ts).    *)
(***************************************************************************)
KeptUnlessOverwritten ==
    \A op \in {txs[j] : j \in DOMAIN txs} \ overwritten :
       ~Resolved(ops[op].status) => saved.op = op /\ Attempted(saved)

(***************************************************************************)
(* "bad/late hash cannot silently replace it"                              *)
(* (docs/plans/004-matched-settlement.md), as far as it is true of the     *)
(* browser: a record that has the hash of its operation's transaction      *)
(* keeps both while the operation is unresolved and not written over.  No  *)
(* other hash replaces it; it is dropped only by an answer that was on its *)
(* way while the hash was saved, of a query that began without it or of    *)
(* the wallet, or by a panel that showed another operation and loads this  *)
(* one.                                                                    *)
(***************************************************************************)
LateAnswer ==
    \E p \in Panels :
       /\ panels'[p] = Idle
       /\ \/ panels[p].step = "answering" /\ panels[p].record.hash = NoHash
          \/ panels[p].step = "sent"

LateLoad ==
    \E p \in Panels :
       panels[p] = Idle /\ shown[p].op # saved.op /\ shown'[p].op = saved.op

HashIsKept ==
    /\ saved.hash \in DOMAIN txs /\ txs[saved.hash] = saved.op
    /\ ~Resolved(ops[saved.op].status)
    /\ saved.op \notin overwritten'
    => /\ saved'.op = saved.op
       /\ \/ saved'.hash = saved.hash
          \/ saved'.hash = NoHash /\ (LateAnswer \/ LateLoad)

FirstHashKept == [][HashIsKept]_vars

-----------------------------------------------------------------------------
(***************************************************************************)
(* What the code and its documents say, and does not hold: "Query the      *)
(* original intent; do not resend." (submitSettlement), "Querying never    *)
(* resubmits." (SettlementPanel.tsx) and "Unknown stays pending and        *)
(* queries original operation" (docs/plans/004-matched-settlement.md).  An *)
(* operation is sent at most once.                                         *)
(***************************************************************************)
SentOnce == \A i, j \in DOMAIN txs : i # j => txs[i] # txs[j]
=============================================================================
