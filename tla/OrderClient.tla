------------------------------ MODULE OrderClient ------------------------------
(***************************************************************************)
(* The order client of the browser (src/src/lib/market.ts and              *)
(* MarketPanel.tsx): in every open tab a panel, in which the user prepares *)
(* a command, signs it or queries it, and a poller that queries it every   *)
(* two seconds while it is pending.  The tabs share one saved intent in    *)
(* localStorage and one Web Lock.  Signing holds the lock; preparing and   *)
(* querying do not.                                                        *)
(*                                                                         *)
(* Every await is a point where the others go on, the wallet is answered   *)
(* or the tab is closed.  The server is what CommandStore makes of it: a   *)
(* command is decided once, and expires when somebody reads it after its   *)
(* deadline.                                                               *)
(*                                                                         *)
(* Left out: the checks of account, domain and signature, which may stop a *)
(* handler at any of its steps (PrepareFails, SignFails).                  *)
(*                                                                         *)
(* overwritten is a history variable: the code keeps no such thing, no     *)
(* guard reads it, and the properties use it to tell apart the intents     *)
(* that a late answer about another request has replaced.                  *)
(***************************************************************************)
EXTENDS Integers, Sequences, FiniteSets

CONSTANTS
    Tabs,         \* open tabs
    Visible,      \* those that are visible, and stay so: a hidden one does not poll
    NoTab,
    MaxRequests   \* bound on prepared commands, for TLC

ASSUME TabsAssumption == NoTab \notin Tabs
ASSUME VisibleAssumption == Visible \subseteq Tabs
ASSUME ClientBoundsAssumption == MaxRequests \in Nat

VARIABLES
    saved,       \* the intent in localStorage: request id and status
    lock,        \* the tab that holds the Web Lock
    handlers,    \* what each panel and each poller does, between two awaits
    reviews,     \* the request each panel shows for approval, 0 if none
    commands,    \* the server's commands, by request id
    posted,      \* signed commands on their way to the server
    overwritten  \* requests whose pending intent a query about another replaced

vars == <<saved, lock, handlers, reviews, commands, posted, overwritten>>

Slots == Tabs \X {"panel", "poller"}
Panel(t) == <<t, "panel">>
Poller(t) == <<t, "poller">>

Idle == [step |-> "idle"]
NoIntent == [id |-> 0, status |-> "none"]
Intent(id, status) == [id |-> id, status |-> status]
Pending(v) == v.status = "pending"

Init ==
    /\ saved = NoIntent
    /\ lock = NoTab
    /\ handlers = [h \in Slots |-> Idle]
    /\ reviews = [t \in Tabs |-> 0]
    /\ commands = <<>>
    /\ posted = {}
    /\ overwritten = {}

Goto(h, c) == handlers' = [handlers EXCEPT ![h] = c]

Querying == {h \in Slots : handlers[h].step \in {"querying", "answering"}}

-----------------------------------------------------------------------------
(***************************************************************************)
(* prepareOrder.  An answer that is lost leaves a command that nobody      *)
(* signs.                                                                  *)
(***************************************************************************)
PrepareStarts(t) ==
    /\ handlers[Panel(t)] = Idle
    /\ ~Pending(saved)
    /\ Goto(Panel(t), [step |-> "preparing"])
    /\ reviews' = [reviews EXCEPT ![t] = 0]
    /\ UNCHANGED <<saved, lock, commands, posted, overwritten>>

PrepareAtServer(t) ==
    /\ handlers[Panel(t)].step = "preparing"
    /\ Len(commands) < MaxRequests
    /\ commands' = Append(commands, [status |-> "pending", late |-> FALSE, asked |-> FALSE])
    /\ Goto(Panel(t), [step |-> "prepared", id |-> Len(commands')])
    /\ UNCHANGED <<saved, lock, reviews, posted, overwritten>>

PrepareReviewed(t) ==
    /\ handlers[Panel(t)].step = "prepared"
    /\ reviews' = [reviews EXCEPT ![t] = handlers[Panel(t)].id]
    /\ Goto(Panel(t), Idle)
    /\ UNCHANGED <<saved, lock, commands, posted, overwritten>>

PrepareFails(t) ==
    /\ handlers[Panel(t)].step \in {"preparing", "prepared"}
    /\ Goto(Panel(t), Idle)
    /\ UNCHANGED <<saved, lock, reviews, commands, posted, overwritten>>

(* Back to the order, or another account or page.                          *)
DropReview(t) ==
    /\ reviews[t] # 0
    /\ handlers[Panel(t)] = Idle
    /\ reviews' = [reviews EXCEPT ![t] = 0]
    /\ UNCHANGED <<saved, lock, handlers, commands, posted, overwritten>>

-----------------------------------------------------------------------------
(***************************************************************************)
(* signOrder.  The saved intent must not be pending when it starts; the    *)
(* reviewed one is saved before the wallet is asked.  However it ends, the *)
(* review is gone.                                                         *)
(***************************************************************************)
SignStarts(t) ==
    /\ handlers[Panel(t)] = Idle
    /\ reviews[t] # 0
    /\ lock = NoTab
    /\ ~Pending(saved)
    /\ lock' = t
    /\ Goto(Panel(t), [step |-> "signing", id |-> reviews[t]])
    /\ UNCHANGED <<saved, reviews, commands, posted, overwritten>>

(* Mutant: the intent is saved when the wallet has answered.               *)
AskUnsaved(t) ==
    LET id == handlers[Panel(t)].id
    IN  /\ handlers[Panel(t)].step = "signing"
        /\ ~commands[id].late
            /\ commands' = [commands EXCEPT ![id].asked = TRUE]
        /\ Goto(Panel(t), [step |-> "asked", id |-> id])
        /\ UNCHANGED <<saved, lock, reviews, posted, overwritten>>

Ask(t) ==
    LET id == handlers[Panel(t)].id
    IN  /\ handlers[Panel(t)].step = "signing"
        /\ ~commands[id].late
            /\ saved' = Intent(id, "pending")
        /\ commands' = [commands EXCEPT ![id].asked = TRUE]
        /\ Goto(Panel(t), [step |-> "asked", id |-> id])
        /\ UNCHANGED <<lock, reviews, posted, overwritten>>

WalletSigns(t) ==
    /\ handlers[Panel(t)].step = "asked"
    /\ Goto(Panel(t), [step |-> "signed", id |-> handlers[Panel(t)].id])
    /\ UNCHANGED <<saved, lock, reviews, commands, posted, overwritten>>

(* A signature that comes after the deadline is discarded.                 *)
Post(t) ==
    LET id == handlers[Panel(t)].id
    IN  /\ handlers[Panel(t)].step = "signed"
        /\ ~commands[id].late
        /\ posted' = posted \cup {id}
        /\ Goto(Panel(t), [step |-> "waiting", id |-> id])
        /\ UNCHANGED <<saved, lock, reviews, commands, overwritten>>

EndSign(t) ==
    /\ Goto(Panel(t), Idle)
    /\ lock' = NoTab
    /\ reviews' = [reviews EXCEPT ![t] = 0]

(* Mutant: the lock is not released.                                       *)
SubmitAnsweredKeepsLock(t) ==
    LET id == handlers[Panel(t)].id
    IN  /\ handlers[Panel(t)].step = "waiting"
        /\ id \notin posted
        /\ saved' = Intent(id, commands[id].status)
        /\ Goto(Panel(t), Idle)
        /\ reviews' = [reviews EXCEPT ![t] = 0]
        /\ UNCHANGED <<lock, commands, posted, overwritten>>

SubmitAnswered(t) ==
    LET id == handlers[Panel(t)].id
    IN  /\ handlers[Panel(t)].step = "waiting"
        /\ id \notin posted
        /\ saved' = Intent(id, commands[id].status)
        /\ EndSign(t)
        /\ UNCHANGED <<commands, posted, overwritten>>

Signing == {"signing", "asked", "signed", "waiting"}

(* Mutant: a failure counts as a refusal by the user.                      *)
SignFailsRejected(t) ==
    LET id == handlers[Panel(t)].id
    IN  /\ handlers[Panel(t)].step \in Signing
        /\ saved' = IF saved.id = id THEN Intent(id, "rejected") ELSE saved
        /\ EndSign(t)
        /\ UNCHANGED <<commands, posted, overwritten>>

(* The wallet refuses, the session changes, an answer is lost: what was    *)
(* saved stays pending.                                                    *)
SignFails(t) ==
    /\ handlers[Panel(t)].step \in Signing
    /\ EndSign(t)
    /\ UNCHANGED <<saved, commands, posted, overwritten>>

-----------------------------------------------------------------------------
(***************************************************************************)
(* recoverIntent, by the button of a panel or by a poller.  The intent is  *)
(* read before the request, and the answer is saved, without the lock,     *)
(* after it.                                                               *)
(***************************************************************************)
QueryStarts(h) ==
    /\ handlers[h] = Idle
    /\ saved # NoIntent
    /\ h[2] = "poller" => h[1] \in Visible /\ Pending(saved)
    /\ Goto(h, [step |-> "querying", id |-> saved.id])
    /\ UNCHANGED <<saved, lock, reviews, commands, posted, overwritten>>

(* Mutant: the server answers without expiring what is late.               *)
QueryUnexpired(h) ==
    LET id == handlers[h].id
    IN  /\ handlers[h].step = "querying"
        /\ Goto(h, [step |-> "answering", id |-> id, status |-> commands[id].status])
        /\ UNCHANGED <<saved, lock, reviews, commands, posted, overwritten>>

QueryAtServer(h) ==
    LET id == handlers[h].id
    IN  /\ handlers[h].step = "querying"
        /\ commands' = [commands EXCEPT ![id].status =
                           IF @ = "pending" /\ commands[id].late THEN "expired" ELSE @]
        /\ Goto(h, [step |-> "answering", id |-> id, status |-> commands'[id].status])
        /\ UNCHANGED <<saved, lock, reviews, posted, overwritten>>

QueryEnds(h) ==
    /\ handlers[h].step = "answering"
    /\ saved' = Intent(handlers[h].id, handlers[h].status)
    /\ overwritten' = IF Pending(saved) /\ saved.id # handlers[h].id
                      THEN overwritten \cup {saved.id} ELSE overwritten
    /\ Goto(h, Idle)
    /\ UNCHANGED <<lock, reviews, commands, posted>>

QueryFails(h) ==
    /\ h \in Querying
    /\ Goto(h, Idle)
    /\ UNCHANGED <<saved, lock, reviews, commands, posted, overwritten>>

(* The tab is closed or reloaded; a prompt that is open leads nowhere.     *)
Close(t) ==
    /\ \E h \in {Panel(t), Poller(t)} : handlers[h] # Idle
    /\ handlers' = [handlers EXCEPT ![Panel(t)] = Idle, ![Poller(t)] = Idle]
    /\ lock' = IF lock = t THEN NoTab ELSE lock
    /\ reviews' = [reviews EXCEPT ![t] = 0]
    /\ UNCHANGED <<saved, commands, posted, overwritten>>

-----------------------------------------------------------------------------
(* The server: Submit, and the deadline.                                   *)

SubmitAtServer(id) ==
    /\ id \in posted
    /\ posted' = posted \ {id}
    /\ \E status \in IF commands[id].status # "pending" THEN {commands[id].status}
                     ELSE IF commands[id].late THEN {"expired"}
                     ELSE {"accepted", "rejected"} :
          commands' = [commands EXCEPT ![id].status = status]
    /\ UNCHANGED <<saved, lock, handlers, reviews, overwritten>>

DeadlinePasses(id) ==
    /\ ~commands[id].late
    /\ commands' = [commands EXCEPT ![id].late = TRUE]
    /\ UNCHANGED <<saved, lock, handlers, reviews, posted, overwritten>>

PanelStep(t) ==
    \/ PrepareStarts(t)
    \/ PrepareAtServer(t)
    \/ PrepareReviewed(t)
    \/ PrepareFails(t)
    \/ DropReview(t)
    \/ SignStarts(t)
    \/ Ask(t)
    \/ WalletSigns(t)
    \/ Post(t)
    \/ SubmitAnswered(t)
    \/ SignFails(t)
    \/ Close(t)

QueryStep(h) ==
    \/ QueryStarts(h)
    \/ QueryAtServer(h)
    \/ QueryEnds(h)
    \/ QueryFails(h)

ServerStep == \E id \in DOMAIN commands : SubmitAtServer(id) \/ DeadlinePasses(id)

Next ==
    \/ \E t \in Tabs : PanelStep(t)
    \/ \E h \in Slots : QueryStep(h)
    \/ ServerStep

Spec == Init /\ [][Next]_vars

(***************************************************************************)
(* Time passes and a visible panel polls for ever.  Requests fail and tabs *)
(* are reloaded, but not every request of a poller and not each time while *)
(* it waits.  Nothing obliges a user to sign or a server to take a command *)
(* that was posted.                                                        *)
(***************************************************************************)
Fairness ==
    /\ \A id \in 1..MaxRequests : WF_vars(id \in DOMAIN commands /\ DeadlinePasses(id))
    /\ \A t \in Visible :
          /\ WF_vars(QueryStarts(Poller(t)))
          /\ SF_vars(QueryAtServer(Poller(t)))
          /\ SF_vars(QueryEnds(Poller(t)))

FairSpec == Spec /\ Fairness

-----------------------------------------------------------------------------

TypeOK ==
    /\ saved \in {NoIntent} \cup
          [id : DOMAIN commands, status : {"pending", "accepted", "rejected", "expired"}]
    /\ \A t \in Tabs :
          /\ lock = t <=> handlers[Panel(t)].step \in Signing
          /\ reviews[t] \in 0..Len(commands)
    /\ posted \subseteq {id \in DOMAIN commands : commands[id].asked}

(***************************************************************************)
(* "Persist public intent before signing ... unblock only on confirmed     *)
(* terminal outcome" (docs/plans/003-matching-engine.md): a command that   *)
(* the wallet was asked to sign and the server has not decided is the      *)
(* saved intent, and blocks every other, in all tabs, whatever is closed,  *)
(* refused or lost.                                                        *)
(***************************************************************************)
IntentKept ==
    \A id \in DOMAIN commands :
       commands[id].asked /\ commands[id].status = "pending" => saved = Intent(id, "pending")

(***************************************************************************)
(* What the code keeps of that, however many tabs: a command that the      *)
(* wallet was asked to sign and the server has not decided stays the saved *)
(* intent, whatever is closed, refused, lost or answered late.  Only the   *)
(* answer to a query about another request, which recoverIntent saves      *)
(* without looking again, ever replaces it: preparing, signing, the        *)
(* server's answer to a submission and queries about itself do not.        *)
(***************************************************************************)
KeptUnlessOverwritten ==
    \A id \in DOMAIN commands :
       commands[id].asked /\ commands[id].status = "pending"
          => saved = Intent(id, "pending") \/ id \in overwritten

(***************************************************************************)
(* What the browser shows as decided is what the server decided, however   *)
(* late the answer and whoever saved it: no failure is taken for an        *)
(* outcome.                                                                *)
(***************************************************************************)
OutcomeIsTheServers ==
    saved.status \notin {"none", "pending"} => commands[saved.id].status = saved.status

(***************************************************************************)
(* The user is not blocked for ever: whatever is pending, the browser      *)
(* comes to a time at which nothing is.  And an intent that the server has *)
(* not decided comes to an outcome, which is saved before the intent is    *)
(* replaced, unless a query about another overwrote it.                    *)
(***************************************************************************)
IntentResolves ==
    /\ Pending(saved) ~> ~Pending(saved)
    /\ \A id \in 1..MaxRequests :
          (saved = Intent(id, "pending") /\ commands[id].status = "pending")
             ~> ((saved.id = id /\ ~Pending(saved)) \/ id \in overwritten)
=============================================================================
