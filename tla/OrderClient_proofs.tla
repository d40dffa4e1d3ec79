-------------------------- MODULE OrderClient_proofs --------------------------
(***************************************************************************)
(* The intent that the browser saves, shown to the user and blocking the   *)
(* next order, for any tabs and requests.                                  *)
(*                                                                         *)
(* Inductive: a signer holds the lock, and a decision on its way to a      *)
(* handler is the server's, who never takes it back.  Keeping: at most one *)
(* request is undecided and not overwritten, the one that is saved and     *)
(* that the signer is about; queries may be about any other.               *)
(***************************************************************************)
EXTENDS OrderClient, TLAPS

(* Asked of the wallet; an equation, for the provers.                      *)
Asked(id) == commands[id].asked = TRUE

Statuses == {"pending", "accepted", "rejected", "expired"}
Command == [status : Statuses, late : BOOLEAN, asked : BOOLEAN]

(* The steps of a handler that is about one request.                       *)
WithRequest == {"prepared", "signing", "asked", "signed", "waiting", "querying"}

(* The state, with what every handler may look like.                       *)
Shape ==
    /\ commands \in Seq(Command)
    /\ handlers = [h \in Slots |-> handlers[h]]
    /\ reviews \in [Tabs -> Nat]
    /\ saved \in [id : Nat, status : Statuses \cup {"none"}]
    /\ lock \in Tabs \cup {NoTab}

(* What handlers and reviews name was prepared.                            *)
Prepared ==
    /\ saved # NoIntent => saved.id \in DOMAIN commands
    /\ saved.status = "none" => saved = NoIntent
    /\ \A t \in Tabs : reviews[t] \in DOMAIN commands \cup {0}
    /\ \A h \in Slots : handlers[h].step \in WithRequest \cup {"answering"}
                           => handlers[h].id \in DOMAIN commands
    /\ posted \subseteq {id \in DOMAIN commands : Asked(id)}

(* Who is signing holds the lock.                                          *)
LockHeld == \A t \in Tabs : lock = t <=> handlers[Panel(t)].step \in Signing

(* What the wallet saw is marked.                                          *)
AskedOnes ==
    \A t \in Tabs : handlers[Panel(t)].step \in Signing \ {"signing"}
                       => Asked(handlers[Panel(t)].id)

(* A decision on its way to a handler is the server's.                     *)
AnswersAreTheServers ==
    \A h \in Slots :
       handlers[h].step = "answering" =>
          /\ handlers[h].status \in Statuses
          /\ handlers[h].status # "pending"
                => commands[handlers[h].id].status = handlers[h].status

Inductive ==
    /\ Shape
    /\ Prepared
    /\ LockHeld
    /\ AskedOnes
    /\ AnswersAreTheServers
    /\ OutcomeIsTheServers

(* The wallet may have signed it, and the server has not decided it.       *)
Undecided(id) == Asked(id) /\ commands[id].status = "pending"

(* And no query about another request has been saved over its intent.      *)
Open(id) == Undecided(id) /\ id \notin overwritten

(* No request is open when the wallet is about to be asked.                *)
NothingOpen ==
    \A t \in Tabs : handlers[Panel(t)].step = "signing"
                       => \A id \in DOMAIN commands : ~Open(id)

(* Then only what the signer is about may be.                              *)
OnlyThisOpen ==
    \A t \in Tabs : handlers[Panel(t)].step \in Signing \ {"signing"}
                       => \A id \in DOMAIN commands :
                             Open(id) => id = handlers[Panel(t)].id

Keeping ==
    /\ NothingOpen
    /\ OnlyThisOpen
    /\ KeptUnlessOverwritten

(* What every step does to the commands.                                   *)
Matures ==
    /\ commands' \in Seq(Command)
    /\ \A id \in DOMAIN commands :
          /\ id \in DOMAIN commands'
          /\ Asked(id) => Asked(id)'
          /\ commands[id].status # "pending" => commands'[id].status = commands[id].status

(* The panels and pollers of the tabs are different slots.                 *)
LEMMA SlotsLemma ==
    /\ \A t \in Tabs : Panel(t) \in Slots /\ Poller(t) \in Slots
    /\ \A t, u \in Tabs : (Panel(t) = Panel(u) => t = u) /\ Panel(t) # Poller(u)
BY DEF Slots, Panel, Poller

(* A command of the server is a record with a status.                      *)
LEMMA CommandType ==
    ASSUME Shape, NEW id \in DOMAIN commands
    PROVE  commands[id] \in Command /\ commands[id].status \in Statuses
<1>1. commands[id] \in Command
    BY DEF Shape
<1> QED
    BY <1>1 DEF Command

(* A command may be asked for and decided, once.                           *)
LEMMA UpdateMatures ==
    ASSUME commands \in Seq(Command), NEW id \in DOMAIN commands, NEW c \in Command,
           commands' = [commands EXCEPT ![id] = c],
           Asked(id) => c.asked = TRUE,
           commands[id].status # "pending" => c.status = commands[id].status
    PROVE  Matures
BY DEF Matures, Asked

(* So it is when nothing happens to the commands.                          *)
LEMMA UnchangedMatures ==
    ASSUME commands \in Seq(Command), UNCHANGED commands
    PROVE  Matures
BY DEF Matures, Asked

(* Before anything is prepared the invariant holds.                        *)
THEOREM InitInductive == Init => Inductive
<1> SUFFICES ASSUME Init PROVE Inductive
    OBVIOUS
<1>1. Shape
    BY DEF Init, Shape, NoIntent
<1>2. Prepared
    BY SlotsLemma DEF Init, Prepared, Idle, WithRequest
<1>3. LockHeld
    BY SlotsLemma, TabsAssumption DEF Init, LockHeld, Idle, Signing
<1>4. AskedOnes
    BY SlotsLemma DEF Init, AskedOnes, Idle, Signing
<1>5. AnswersAreTheServers
    BY DEF Init, AnswersAreTheServers, Idle
<1>6. OutcomeIsTheServers
    BY DEF Init, OutcomeIsTheServers, NoIntent
<1> QED
    BY <1>1, <1>2, <1>3, <1>4, <1>5, <1>6 DEF Inductive

(* Who starts to prepare was idle and does not hold the lock.              *)
LEMMA PrepareStartsInductive ==
    ASSUME NEW t \in Tabs, Inductive, PrepareStarts(t)
    PROVE  Inductive' /\ Matures
<1> USE SlotsLemma, TabsAssumption DEF Inductive
<1>1. Matures
    BY UnchangedMatures DEF Shape, PrepareStarts
<1>2. Shape'
    BY DEF PrepareStarts, Goto, Shape
<1>3. Prepared'
    BY DEF PrepareStarts, Goto, Prepared, WithRequest, Asked, Shape
<1>4. LockHeld'
    <2>1. \A u \in Tabs : handlers'[Panel(u)].step \in Signing
                             <=> handlers[Panel(u)].step \in Signing
        BY DEF PrepareStarts, Goto, Idle, Shape, Signing
    <2>2. UNCHANGED lock
        BY DEF PrepareStarts
    <2> QED
        BY <2>1, <2>2 DEF LockHeld
<1>5. AskedOnes'
    BY DEF PrepareStarts, Goto, AskedOnes, Signing, Asked, Shape
<1>6. AnswersAreTheServers'
    BY DEF PrepareStarts, Goto, AnswersAreTheServers, Shape
<1>7. OutcomeIsTheServers'
    BY DEF PrepareStarts, OutcomeIsTheServers
<1> QED
    BY <1>1, <1>2, <1>3, <1>4, <1>5, <1>6, <1>7

(* A prepared command is new, and nobody was asked to sign it.             *)
LEMMA PrepareAtServerInductive ==
    ASSUME NEW t \in Tabs, Inductive, PrepareAtServer(t)
    PROVE  Inductive' /\ Matures
<1> USE SlotsLemma, TabsAssumption DEF Inductive
<1>1. Matures
    BY DEF PrepareAtServer, Matures, Asked, Shape, Command, Statuses
<1>2. Shape'
    BY <1>1 DEF PrepareAtServer, Goto, Shape, Matures
<1>3. Prepared'
    BY DEF PrepareAtServer, Goto, Prepared, Asked, Shape
<1>4. LockHeld'
    BY DEF PrepareAtServer, Goto, LockHeld, Signing, Shape
<1>5. AskedOnes'
    BY <1>1
       DEF PrepareAtServer, Goto, AskedOnes, Prepared, Signing, WithRequest, Asked,
           Shape, Matures
<1>6. AnswersAreTheServers'
    BY DEF PrepareAtServer, Goto, AnswersAreTheServers, Prepared, Shape, WithRequest
<1>7. OutcomeIsTheServers'
    BY DEF PrepareAtServer, OutcomeIsTheServers, Prepared, NoIntent, Shape
<1> QED
    BY <1>1, <1>2, <1>3, <1>4, <1>5, <1>6, <1>7

(* The review names the command that was prepared.                         *)
LEMMA PrepareReviewedInductive ==
    ASSUME NEW t \in Tabs, Inductive, PrepareReviewed(t)
    PROVE  Inductive' /\ Matures
<1> USE SlotsLemma, TabsAssumption DEF Inductive
<1>1. Matures
    BY UnchangedMatures DEF Shape, PrepareReviewed
<1>2. Shape'
  <2>1. handlers[Panel(t)].id \in DOMAIN commands
      BY DEF PrepareReviewed, Prepared, WithRequest
  <2>2. reviews' \in [Tabs -> Nat]
      BY <2>1 DEF PrepareReviewed, Shape
  <2> QED
      BY <2>2 DEF PrepareReviewed, Goto, Shape
<1>3. Prepared'
    BY DEF PrepareReviewed, Goto, Idle, Prepared, WithRequest, Asked, Shape
<1>4. LockHeld'
    BY DEF PrepareReviewed, Goto, Idle, LockHeld, Signing, Shape
<1>5. AskedOnes'
    BY DEF PrepareReviewed, Goto, Idle, AskedOnes, Signing, Asked, Shape
<1>6. AnswersAreTheServers'
    BY DEF PrepareReviewed, Goto, Idle, AnswersAreTheServers, Shape
<1>7. OutcomeIsTheServers'
    BY DEF PrepareReviewed, OutcomeIsTheServers
<1> QED
    BY <1>1, <1>2, <1>3, <1>4, <1>5, <1>6, <1>7

(* A preparation that fails leaves only its handler.                       *)
LEMMA PrepareFailsInductive ==
    ASSUME NEW t \in Tabs, Inductive, PrepareFails(t)
    PROVE  Inductive' /\ Matures
<1> USE SlotsLemma, TabsAssumption DEF Inductive
<1>1. Matures
    BY UnchangedMatures DEF Shape, PrepareFails
<1>2. Inductive'
    BY DEF PrepareFails, Goto, Idle, Shape, Prepared, LockHeld, AskedOnes,
           AnswersAreTheServers, OutcomeIsTheServers, WithRequest, Asked, Signing
<1> QED
    BY <1>1, <1>2

(* A review that is dropped names nothing.                                 *)
LEMMA DropReviewInductive ==
    ASSUME NEW t \in Tabs, Inductive, DropReview(t)
    PROVE  Inductive' /\ Matures
<1> USE SlotsLemma, TabsAssumption DEF Inductive
<1>1. Matures
    BY UnchangedMatures DEF Shape, DropReview
<1>2. Inductive'
    BY DEF DropReview, Shape, Prepared, LockHeld, AskedOnes, AnswersAreTheServers,
           OutcomeIsTheServers, Asked
<1> QED
    BY <1>1, <1>2

(* Signing starts with the lock, for the reviewed command.                 *)
LEMMA SignStartsInductive ==
    ASSUME NEW t \in Tabs, Inductive, SignStarts(t)
    PROVE  Inductive' /\ Matures
<1> USE SlotsLemma, TabsAssumption DEF Inductive
<1>1. Matures
    BY UnchangedMatures DEF Shape, SignStarts
<1>2. Inductive'
    BY <1>1 DEF SignStarts, Goto, Idle, Matures, Shape, Prepared, LockHeld, AskedOnes,
                AnswersAreTheServers, OutcomeIsTheServers, WithRequest, Signing
<1> QED
    BY <1>1, <1>2

(* The saved intent was prepared, and its command is marked.               *)
LEMMA AskInductive ==
    ASSUME NEW t \in Tabs, Inductive, Ask(t)
    PROVE  Inductive' /\ Matures
<1> USE SlotsLemma, TabsAssumption DEF Inductive
<1> DEFINE id == handlers[Panel(t)].id
<1>1. Matures
    <2> DEFINE c == [commands[id] EXCEPT !.asked = TRUE]
    <2>1. id \in DOMAIN commands
        BY DEF Ask, Prepared, WithRequest
    <2>2. c \in Command
        <3>1. commands[id] \in Command
            BY <2>1, CommandType
        <3> QED
            BY <3>1 DEF Command, Statuses
    <2>3. Asked(id) => c.asked = TRUE
        BY <2>1 DEF Shape, Command, Asked
    <2>4. commands[id].status # "pending" => c.status = commands[id].status
        BY <2>1 DEF Shape, Command
    <2>5. commands' = [commands EXCEPT ![id] = c]
        BY DEF Ask
    <2> QED
        BY <2>1, <2>2, <2>3, <2>4, <2>5, UpdateMatures DEF Shape
<1>2. Shape'
    <2>1. id \in Nat
        BY DEF Ask, Shape, Prepared, WithRequest
    <2>2. saved' \in [id : Nat, status : Statuses \cup {"none"}]
        BY <2>1 DEF Ask, Intent, Statuses
    <2> QED
        BY <1>1, <2>2 DEF Ask, Goto, Shape, Matures
<1>3. Prepared'
    BY DEF Ask, Goto, Intent, Prepared, WithRequest, Asked, Shape
<1>4. LockHeld'
    BY DEF Ask, Goto, LockHeld, Signing, Shape
<1>5. AskedOnes'
    <2>1. id \in DOMAIN commands /\ commands'[id].asked = TRUE
        BY DEF Ask, Shape, Command, Prepared, WithRequest
    <2>2. \A u \in Tabs : u # t => handlers'[Panel(u)] = handlers[Panel(u)]
        BY DEF Ask, Goto, Shape
    <2>3. handlers'[Panel(t)].id = id
        BY DEF Ask, Goto, Shape
    <2>4. ASSUME NEW u \in Tabs, handlers'[Panel(u)].step \in Signing \ {"signing"}
          PROVE  commands'[handlers'[Panel(u)].id].asked = TRUE
        <3>1. CASE u = t
            BY <2>1, <2>3, <3>1
        <3>2. CASE u # t
            BY <1>1, <2>2, <2>4, <3>2
               DEF AskedOnes, Prepared, Matures, Asked, Signing, WithRequest
        <3> QED
            BY <3>1, <3>2
    <2> QED
        BY <2>4 DEF AskedOnes, Asked
<1>6. AnswersAreTheServers'
    BY DEF Ask, Goto, AnswersAreTheServers, Shape, Prepared, WithRequest
<1>7. OutcomeIsTheServers'
    BY DEF Ask, Intent, OutcomeIsTheServers, Shape, Prepared, NoIntent
<1> QED
    BY <1>1, <1>2, <1>3, <1>4, <1>5, <1>6, <1>7

(* The signer goes on with the command it asked for.                       *)
LEMMA WalletSignsInductive ==
    ASSUME NEW t \in Tabs, Inductive, WalletSigns(t)
    PROVE  Inductive' /\ Matures
<1> USE SlotsLemma, TabsAssumption DEF Inductive
<1>1. Matures
    BY UnchangedMatures DEF Shape, WalletSigns
<1>2. Inductive'
    BY DEF WalletSigns, Goto, Shape, Prepared, LockHeld, AskedOnes, AnswersAreTheServers,
           OutcomeIsTheServers, WithRequest, Asked, Signing
<1> QED
    BY <1>1, <1>2

(* What is posted was asked for.                                           *)
LEMMA PostInductive ==
    ASSUME NEW t \in Tabs, Inductive, Post(t)
    PROVE  Inductive' /\ Matures
<1> USE SlotsLemma, TabsAssumption DEF Inductive
<1>1. Matures
    BY UnchangedMatures DEF Shape, Post
<1>2. Shape'
    BY DEF Post, Goto, Shape
<1>3. Prepared'
    BY <1>1
       DEF Post, Goto, Shape, Prepared, AskedOnes, Signing, Matures, WithRequest, Asked,
           NoIntent, Command, Statuses
<1>4. LockHeld'
    BY DEF Post, Goto, LockHeld, Signing, Shape
<1>5. AskedOnes'
    BY DEF Post, Goto, AskedOnes, Signing, Asked, Shape
<1>6. AnswersAreTheServers'
    BY DEF Post, Goto, AnswersAreTheServers, Shape
<1>7. OutcomeIsTheServers'
    BY DEF Post, OutcomeIsTheServers
<1> QED
    BY <1>1, <1>2, <1>3, <1>4, <1>5, <1>6, <1>7

(* The status that is saved is read from the command, and the lock goes free. *)
LEMMA SubmitAnsweredInductive ==
    ASSUME NEW t \in Tabs, Inductive, SubmitAnswered(t)
    PROVE  Inductive' /\ Matures
<1> USE SlotsLemma, TabsAssumption DEF Inductive
<1> DEFINE id == handlers[Panel(t)].id
<1>1. Matures
    BY UnchangedMatures DEF Shape, SubmitAnswered
<1>2. Shape'
    <2>1. id \in Nat /\ id \in DOMAIN commands
        BY DEF SubmitAnswered, Shape, Prepared, WithRequest
    <2>2. commands[id].status \in Statuses
        BY <2>1, CommandType
    <2>3. saved' \in [id : Nat, status : Statuses \cup {"none"}]
        BY <2>1, <2>2 DEF SubmitAnswered, Intent
    <2> QED
        BY <1>1, <2>3 DEF SubmitAnswered, EndSign, Goto, Shape
<1>3. Prepared'
    <2>1. id \in DOMAIN commands
        BY DEF SubmitAnswered, Prepared, WithRequest
    <2>2. commands[id].status \in Statuses
        BY <2>1, CommandType
    <2>3. /\ saved'.id \in DOMAIN commands'
          /\ saved'.status # "none"
        BY <1>1, <2>1, <2>2 DEF SubmitAnswered, Intent, Statuses
    <2> QED
        BY <1>1, <2>3
           DEF SubmitAnswered, EndSign, Goto, Idle, Shape, Prepared, Matures, Asked,
                          WithRequest
<1>4. LockHeld'
    BY DEF SubmitAnswered, EndSign, Goto, Idle, Shape, LockHeld, Signing
<1>5. AskedOnes'
    BY DEF SubmitAnswered, EndSign, Goto, Idle, AskedOnes, Signing, Asked, Shape
<1>6. AnswersAreTheServers'
    BY DEF SubmitAnswered, EndSign, Goto, Idle, AnswersAreTheServers, Shape
<1>7. OutcomeIsTheServers'
    BY DEF SubmitAnswered, Intent, OutcomeIsTheServers
<1> QED
    BY <1>1, <1>2, <1>3, <1>4, <1>5, <1>6, <1>7

(* A failure saves nothing and frees the lock.                             *)
LEMMA SignFailsInductive ==
    ASSUME NEW t \in Tabs, Inductive, SignFails(t)
    PROVE  Inductive' /\ Matures
<1> USE SlotsLemma, TabsAssumption DEF Inductive
<1>1. Matures
    BY UnchangedMatures DEF Shape, SignFails
<1>2. Inductive'
    BY DEF SignFails, EndSign, Goto, Idle, Signing, Shape, Prepared, LockHeld, AskedOnes,
           AnswersAreTheServers, OutcomeIsTheServers, WithRequest, Asked
<1> QED
    BY <1>1, <1>2

(* A tab that is closed has no handlers, and not the lock.                 *)
LEMMA CloseInductive ==
    ASSUME NEW t \in Tabs, Inductive, Close(t)
    PROVE  Inductive' /\ Matures
<1> USE SlotsLemma, TabsAssumption DEF Inductive
<1>1. Matures
    BY UnchangedMatures DEF Shape, Close
<1>2. Inductive'
    BY DEF Close, Idle, Shape, Prepared, LockHeld, AskedOnes, AnswersAreTheServers,
           OutcomeIsTheServers, WithRequest, Asked, Signing
<1> QED
    BY <1>1, <1>2

(* A query asks for the saved intent, which was prepared.                  *)
LEMMA QueryStartsInductive ==
    ASSUME NEW h \in Slots, Inductive, QueryStarts(h)
    PROVE  Inductive' /\ Matures
<1> USE SlotsLemma, TabsAssumption DEF Inductive
<1>1. Matures
    BY UnchangedMatures DEF Shape, QueryStarts
<1>2. Shape'
    BY DEF QueryStarts, Goto, Shape
<1>3. Prepared'
    BY DEF QueryStarts, Goto, Prepared, Asked, Shape
<1>4. LockHeld'
    <2>1. \A u \in Tabs : handlers'[Panel(u)].step \in Signing
                             <=> handlers[Panel(u)].step \in Signing
        BY DEF QueryStarts, Goto, Idle, Shape, Signing
    <2>2. UNCHANGED lock
        BY DEF QueryStarts
    <2> QED
        BY <2>1, <2>2 DEF LockHeld
<1>5. AskedOnes'
    BY DEF QueryStarts, Goto, AskedOnes, Signing, Asked, Shape
<1>6. AnswersAreTheServers'
    BY DEF QueryStarts, Goto, AnswersAreTheServers, Shape
<1>7. OutcomeIsTheServers'
    BY DEF QueryStarts, OutcomeIsTheServers
<1> QED
    BY <1>1, <1>2, <1>3, <1>4, <1>5, <1>6, <1>7

(* An answer carries what the server has decided, by now.                  *)
LEMMA QueryAtServerInductive ==
    ASSUME NEW h \in Slots, Inductive, QueryAtServer(h)
    PROVE  Inductive' /\ Matures
<1> USE SlotsLemma, TabsAssumption DEF Inductive
<1> DEFINE id == handlers[h].id
<1>1. Matures
    <2> DEFINE c == [commands[id] EXCEPT !.status =
                        IF @ = "pending" /\ commands[id].late THEN "expired" ELSE @]
    <2>1. id \in DOMAIN commands
        BY DEF QueryAtServer, Prepared, WithRequest
    <2>2. c \in Command
        <3>1. commands[id] \in Command
            BY <2>1, CommandType
        <3> QED
            BY <3>1 DEF Command, Statuses
    <2>3. Asked(id) => c.asked = TRUE
        BY <2>1 DEF Shape, Command, Asked
    <2>4. commands[id].status # "pending" => c.status = commands[id].status
        BY <2>1 DEF Shape, Command
    <2>5. commands' = [commands EXCEPT ![id] = c]
        BY DEF QueryAtServer
    <2> QED
        BY <2>1, <2>2, <2>3, <2>4, <2>5, UpdateMatures DEF Shape
<1>2. Shape'
    BY <1>1 DEF QueryAtServer, Goto, Shape, Matures
<1>3. Prepared'
    BY DEF QueryAtServer, Goto, Prepared, WithRequest, Asked, Shape
<1>4. LockHeld'
    BY DEF QueryAtServer, Goto, LockHeld, Signing, Shape
<1>5. AskedOnes'
    BY <1>1
       DEF QueryAtServer, Goto, AskedOnes, Signing, Asked, Shape, Prepared, WithRequest,
           Matures
<1>6. AnswersAreTheServers'
    BY <1>1
       DEF QueryAtServer, Goto, Shape, AnswersAreTheServers, Matures, Prepared,
           WithRequest, Command, Statuses
<1>7. OutcomeIsTheServers'
    BY DEF QueryAtServer, OutcomeIsTheServers, Shape, Prepared, NoIntent
<1> QED
    BY <1>1, <1>2, <1>3, <1>4, <1>5, <1>6, <1>7

(* A decision that is saved is still the one of the server.                *)
LEMMA QueryEndsInductive ==
    ASSUME NEW h \in Slots, Inductive, QueryEnds(h)
    PROVE  Inductive' /\ Matures
<1> USE SlotsLemma, TabsAssumption DEF Inductive
<1>1. Matures
    BY UnchangedMatures DEF Shape, QueryEnds
<1>2. Shape'
    <2>1. handlers[h].id \in Nat /\ handlers[h].status \in Statuses
        BY DEF QueryEnds, Shape, Prepared, AnswersAreTheServers
    <2>2. saved' \in [id : Nat, status : Statuses \cup {"none"}]
        BY <2>1 DEF QueryEnds, Intent
    <2> QED
        BY <1>1, <2>2 DEF QueryEnds, Goto, Shape
<1>3. Prepared'
    BY DEF QueryEnds, Goto, Idle, Intent, Prepared, WithRequest, Asked,
           AnswersAreTheServers, Statuses, Shape
<1>4. LockHeld'
    BY DEF QueryEnds, Goto, Idle, LockHeld, Signing, Shape
<1>5. AskedOnes'
    BY DEF QueryEnds, Goto, Idle, AskedOnes, Signing, Asked, Shape
<1>6. AnswersAreTheServers'
    BY DEF QueryEnds, Goto, Idle, AnswersAreTheServers, Shape
<1>7. OutcomeIsTheServers'
    BY DEF QueryEnds, Intent, OutcomeIsTheServers, AnswersAreTheServers
<1> QED
    BY <1>1, <1>2, <1>3, <1>4, <1>5, <1>6, <1>7

(* A query that fails leaves only its handler.                             *)
LEMMA QueryFailsInductive ==
    ASSUME NEW h \in Slots, Inductive, QueryFails(h)
    PROVE  Inductive' /\ Matures
<1> USE SlotsLemma, TabsAssumption DEF Inductive
<1>1. Matures
    BY UnchangedMatures DEF Shape, QueryFails
<1>2. Inductive'
    BY DEF QueryFails, Goto, Idle, Querying, Shape, Prepared, LockHeld, AskedOnes,
           AnswersAreTheServers, OutcomeIsTheServers, WithRequest, Asked, Signing
<1> QED
    BY <1>1, <1>2

(* The server decides a command that is pending, and only that.            *)
LEMMA SubmitAtServerInductive ==
    ASSUME NEW id \in DOMAIN commands, Inductive, SubmitAtServer(id)
    PROVE  Inductive' /\ Matures
<1> USE SlotsLemma, TabsAssumption DEF Inductive
<1>1. Matures
    <2>1. PICK status \in Statuses :
             /\ commands' = [commands EXCEPT ![id].status = status]
             /\ commands[id].status # "pending" => status = commands[id].status
        <3>1. commands[id].status \in Statuses
            BY CommandType
        <3> QED
            BY <3>1 DEF SubmitAtServer, Statuses
    <2> DEFINE c == [commands[id] EXCEPT !.status = status]
    <2>2. c \in Command /\ c.asked = commands[id].asked /\ c.status = status
        <3>1. commands[id] \in Command
            BY CommandType
        <3> QED
            BY <3>1 DEF Command
    <2>3. commands' = [commands EXCEPT ![id] = c]
        BY <2>1
    <2> QED
        BY <2>1, <2>2, <2>3, UpdateMatures DEF Shape, Asked
<1>2. Shape'
    BY <1>1 DEF SubmitAtServer, Shape, Matures
<1>3. Prepared'
    BY DEF SubmitAtServer, Prepared, Asked, Shape
<1>4. LockHeld'
    BY DEF SubmitAtServer, LockHeld, Shape
<1>5. AskedOnes'
    BY <1>1
       DEF SubmitAtServer, AskedOnes, Asked, Shape, Prepared, WithRequest, Matures,
           Signing
<1>6. AnswersAreTheServers'
    BY DEF SubmitAtServer, AnswersAreTheServers, Shape, Prepared, WithRequest
<1>7. OutcomeIsTheServers'
    BY DEF SubmitAtServer, OutcomeIsTheServers, Shape, Prepared, NoIntent
<1> QED
    BY <1>1, <1>2, <1>3, <1>4, <1>5, <1>6, <1>7

(* A deadline decides nothing.                                             *)
LEMMA DeadlinePassesInductive ==
    ASSUME NEW id \in DOMAIN commands, Inductive, DeadlinePasses(id)
    PROVE  Inductive' /\ Matures
<1> USE SlotsLemma, TabsAssumption DEF Inductive
<1>1. Matures
    <2> DEFINE c == [commands[id] EXCEPT !.late = TRUE]
    <2>1. id \in DOMAIN commands
        BY DEF DeadlinePasses, Prepared, WithRequest
    <2>2. c \in Command
        <3>1. commands[id] \in Command
            BY <2>1, CommandType
        <3> QED
            BY <3>1 DEF Command, Statuses
    <2>3. Asked(id) => c.asked = TRUE
        BY <2>1 DEF Shape, Command, Asked
    <2>4. commands[id].status # "pending" => c.status = commands[id].status
        BY <2>1 DEF Shape, Command
    <2>5. commands' = [commands EXCEPT ![id] = c]
        BY DEF DeadlinePasses
    <2> QED
        BY <2>1, <2>2, <2>3, <2>4, <2>5, UpdateMatures DEF Shape
<1>2. Shape'
    BY <1>1 DEF DeadlinePasses, Shape, Matures
<1>3. Prepared'
    BY DEF DeadlinePasses, Prepared, Asked, Shape
<1>4. LockHeld'
    BY DEF DeadlinePasses, LockHeld, Shape
<1>5. AskedOnes'
    BY <1>1
       DEF DeadlinePasses, AskedOnes, Asked, Shape, Prepared, WithRequest, Matures,
           Signing
<1>6. AnswersAreTheServers'
    BY DEF DeadlinePasses, AnswersAreTheServers, Shape, Prepared, WithRequest
<1>7. OutcomeIsTheServers'
    BY DEF DeadlinePasses, OutcomeIsTheServers, Shape, Prepared, NoIntent
<1> QED
    BY <1>1, <1>2, <1>3, <1>4, <1>5, <1>6, <1>7

-----------------------------------------------------------------------------
(* Nothing becomes open, and who signs did so before.                      *)
Settles == \A id \in DOMAIN commands' : Open(id)' => id \in DOMAIN commands /\ Open(id)

NobodyStarts ==
    \A t \in Tabs :
       /\ handlers'[Panel(t)].step = "signing" => handlers[Panel(t)].step = "signing"
       /\ handlers'[Panel(t)].step \in Signing \ {"signing"} =>
             /\ handlers[Panel(t)].step \in Signing \ {"signing"}
             /\ handlers'[Panel(t)].id = handlers[Panel(t)].id

(* A step that starts nothing and saves nothing keeps it.                  *)
LEMMA QuietKeeps ==
    ASSUME Keeping, Settles, NobodyStarts, UNCHANGED saved
    PROVE  Keeping'
<1> USE DEF Keeping, Settles, NobodyStarts
<1>1. NothingOpen'
    BY DEF NothingOpen
<1>2. OnlyThisOpen'
    BY DEF OnlyThisOpen
<1>3. KeptUnlessOverwritten'
    <2>1. \A id \in DOMAIN commands : Open(id) => saved = Intent(id, "pending")
        BY DEF KeptUnlessOverwritten, Open, Undecided, Asked
    <2>2. \A id \in DOMAIN commands' : Open(id)' => saved' = Intent(id, "pending")
        BY <2>1
    <2> QED
        BY <2>2 DEF KeptUnlessOverwritten, Open, Undecided, Asked
<1> QED
    BY <1>1, <1>2, <1>3

(* Preparing asks the wallet nothing.                                      *)
LEMMA PrepareStartsKeeps ==
    ASSUME NEW t \in Tabs, Inductive, Keeping, PrepareStarts(t)
    PROVE  Keeping'
<1>1. Settles
    BY DEF Inductive, Shape, PrepareStarts, Settles, Open, Undecided, Asked
<1>2. NobodyStarts
    BY SlotsLemma DEF Inductive, Shape, PrepareStarts, Goto, NobodyStarts, Signing
<1>3. UNCHANGED saved
    BY DEF PrepareStarts
<1> QED
    BY <1>1, <1>2, <1>3, QuietKeeps

(* A new command is not asked for.                                         *)
LEMMA PrepareAtServerKeeps ==
    ASSUME NEW t \in Tabs, Inductive, Keeping, PrepareAtServer(t)
    PROVE  Keeping'
<1>1. Settles
    BY CommandType DEF Inductive, Shape, PrepareAtServer, Settles, Open, Undecided, Asked, Command
<1>2. NobodyStarts
    BY SlotsLemma
       DEF Inductive, Shape, PrepareAtServer, Goto, NobodyStarts, Signing
<1>3. UNCHANGED saved
    BY DEF PrepareAtServer
<1> QED
    BY <1>1, <1>2, <1>3, QuietKeeps

(* A review asks the wallet nothing.                                       *)
LEMMA PrepareReviewedKeeps ==
    ASSUME NEW t \in Tabs, Inductive, Keeping, PrepareReviewed(t)
    PROVE  Keeping'
<1>1. Settles
    BY DEF Inductive, Shape, PrepareReviewed, Settles, Open, Undecided, Asked
<1>2. NobodyStarts
    BY SlotsLemma
       DEF Inductive, Shape, PrepareReviewed, Goto, Idle, NobodyStarts, Signing
<1>3. UNCHANGED saved
    BY DEF PrepareReviewed
<1> QED
    BY <1>1, <1>2, <1>3, QuietKeeps

(* Nor does a preparation that fails.                                      *)
LEMMA PrepareFailsKeeps ==
    ASSUME NEW t \in Tabs, Inductive, Keeping, PrepareFails(t)
    PROVE  Keeping'
<1>1. Settles
    BY DEF Inductive, Shape, PrepareFails, Settles, Open, Undecided, Asked
<1>2. NobodyStarts
    BY SlotsLemma
       DEF Inductive, Shape, PrepareFails, Goto, Idle, NobodyStarts, Signing
<1>3. UNCHANGED saved
    BY DEF PrepareFails
<1> QED
    BY <1>1, <1>2, <1>3, QuietKeeps

(* Nor a review that is dropped.                                           *)
LEMMA DropReviewKeeps ==
    ASSUME NEW t \in Tabs, Inductive, Keeping, DropReview(t)
    PROVE  Keeping'
<1>1. Settles
    BY DEF Inductive, Shape, DropReview, Settles, Open, Undecided, Asked
<1>2. NobodyStarts
    BY SlotsLemma DEF Inductive, Shape, DropReview, NobodyStarts
<1>3. UNCHANGED saved
    BY DEF DropReview
<1> QED
    BY <1>1, <1>2, <1>3, QuietKeeps

(* The signer keeps its request.                                           *)
LEMMA WalletSignsKeeps ==
    ASSUME NEW t \in Tabs, Inductive, Keeping, WalletSigns(t)
    PROVE  Keeping'
<1>1. Settles
    BY DEF Inductive, Shape, WalletSigns, Settles, Open, Undecided, Asked
<1>2. NobodyStarts
    BY SlotsLemma DEF Inductive, Shape, WalletSigns, Goto, NobodyStarts, Signing
<1>3. UNCHANGED saved
    BY DEF WalletSigns
<1> QED
    BY <1>1, <1>2, <1>3, QuietKeeps

(* The signer keeps its request.                                           *)
LEMMA PostKeeps ==
    ASSUME NEW t \in Tabs, Inductive, Keeping, Post(t)
    PROVE  Keeping'
<1>1. Settles
    BY DEF Inductive, Shape, Post, Settles, Open, Undecided, Asked
<1>2. NobodyStarts
    BY SlotsLemma DEF Inductive, Shape, Post, Goto, NobodyStarts, Signing
<1>3. UNCHANGED saved
    BY DEF Post
<1> QED
    BY <1>1, <1>2, <1>3, QuietKeeps

(* A failure leaves the intent as it was saved.                            *)
LEMMA SignFailsKeeps ==
    ASSUME NEW t \in Tabs, Inductive, Keeping, SignFails(t)
    PROVE  Keeping'
<1>1. Settles
    BY DEF Inductive, Shape, SignFails, Settles, Open, Undecided, Asked
<1>2. NobodyStarts
    BY SlotsLemma
       DEF Inductive, Shape, SignFails, EndSign, Goto, Idle, NobodyStarts, Signing
<1>3. UNCHANGED saved
    BY DEF SignFails
<1> QED
    BY <1>1, <1>2, <1>3, QuietKeeps

(* The tab leaves the intent as it was saved.                              *)
LEMMA CloseKeeps ==
    ASSUME NEW t \in Tabs, Inductive, Keeping, Close(t)
    PROVE  Keeping'
<1>1. Settles
    BY DEF Inductive, Shape, Close, Settles, Open, Undecided, Asked
<1>2. NobodyStarts
    BY SlotsLemma DEF Inductive, Shape, Close, Idle, NobodyStarts, Signing
<1>3. UNCHANGED saved
    BY DEF Close
<1> QED
    BY <1>1, <1>2, <1>3, QuietKeeps

(* The query keeps its request; a late one is decided.                     *)
LEMMA QueryAtServerKeeps ==
    ASSUME NEW h \in Slots, Inductive, Keeping, QueryAtServer(h)
    PROVE  Keeping'
<1>1. Settles
    BY CommandType DEF Inductive, Shape, QueryAtServer, Settles, Open, Undecided, Asked, Command
<1>2. NobodyStarts
    BY SlotsLemma DEF Inductive, Shape, QueryAtServer, Goto, NobodyStarts, Signing
<1>3. UNCHANGED saved
    BY DEF QueryAtServer
<1> QED
    BY <1>1, <1>2, <1>3, QuietKeeps

(* The intent is as it was saved.                                          *)
LEMMA QueryFailsKeeps ==
    ASSUME NEW h \in Slots, Inductive, Keeping, QueryFails(h)
    PROVE  Keeping'
<1>1. Settles
    BY DEF Inductive, Shape, QueryFails, Settles, Open, Undecided, Asked
<1>2. NobodyStarts
    BY SlotsLemma
       DEF Inductive, Shape, QueryFails, Goto, Idle, NobodyStarts, Signing
<1>3. UNCHANGED saved
    BY DEF QueryFails
<1> QED
    BY <1>1, <1>2, <1>3, QuietKeeps

(* The server only decides.                                                *)
LEMMA SubmitAtServerKeeps ==
    ASSUME NEW id \in DOMAIN commands, Inductive, Keeping, SubmitAtServer(id)
    PROVE  Keeping'
<1>1. Settles
    BY CommandType DEF Inductive, Shape, SubmitAtServer, Settles, Open, Undecided, Asked, Command
<1>2. NobodyStarts
    BY SlotsLemma DEF Inductive, Shape, SubmitAtServer, NobodyStarts
<1>3. UNCHANGED saved
    BY DEF SubmitAtServer
<1> QED
    BY <1>1, <1>2, <1>3, QuietKeeps

(* Nothing is decided.                                                     *)
LEMMA DeadlinePassesKeeps ==
    ASSUME NEW id \in DOMAIN commands, Inductive, Keeping, DeadlinePasses(id)
    PROVE  Keeping'
<1>1. Settles
    BY CommandType DEF Inductive, Shape, DeadlinePasses, Settles, Open, Undecided, Asked, Command
<1>2. NobodyStarts
    BY SlotsLemma DEF Inductive, Shape, DeadlinePasses, NobodyStarts
<1>3. UNCHANGED saved
    BY DEF DeadlinePasses
<1> QED
    BY <1>1, <1>2, <1>3, QuietKeeps

(* What the invariant says of the saved intent, by request.                *)
LEMMA KeptIntent ==
    ASSUME KeptUnlessOverwritten, NEW id \in DOMAIN commands, Open(id)
    PROVE  saved = Intent(id, "pending")
BY DEF KeptUnlessOverwritten, Open, Undecided, Asked

(* The lock is taken only when nothing is open.                            *)
LEMMA SignStartsKeeps ==
    ASSUME Inductive, Keeping, NEW t \in Tabs, SignStarts(t)
    PROVE  Keeping'
<1> USE SlotsLemma DEF Keeping, Inductive
<1>1. \A id \in DOMAIN commands : ~Open(id)
    BY KeptIntent DEF SignStarts, Pending, Intent
<1>2. UNCHANGED <<commands, overwritten>>
    BY DEF SignStarts
<1>3. \A id \in DOMAIN commands' : ~Open(id)'
    BY <1>1, <1>2 DEF Open, Undecided, Asked
<1>4. KeptUnlessOverwritten'
    BY <1>3 DEF KeptUnlessOverwritten, Open, Undecided, Asked
<1> QED
    BY <1>3, <1>4 DEF NothingOpen, OnlyThisOpen

(* The request under the lock becomes the only open one, and is saved.     *)
LEMMA AskKeeps ==
    ASSUME Inductive, Keeping, NEW t \in Tabs, Ask(t)
    PROVE  Keeping'
<1> USE SlotsLemma DEF Keeping, Inductive
<1> DEFINE id == handlers[Panel(t)].id
<1>1. id \in DOMAIN commands
    BY DEF Ask, Prepared, WithRequest
<1>2. \A i \in DOMAIN commands' : Open(i)' => i = id
    BY <1>1 DEF Ask, NothingOpen, Open, Undecided, Asked
<1>3. handlers'[Panel(t)] = [step |-> "asked", id |-> id]
    BY DEF Ask, Goto, Shape
<1>4. \A u \in Tabs : handlers'[Panel(u)].step \in Signing => u = t
    BY DEF Ask, Goto, Shape, LockHeld, Signing
<1>5. KeptUnlessOverwritten'
    <2>1. saved' = Intent(id, "pending")
        BY DEF Ask
    <2>2. \A i \in DOMAIN commands' : Open(i)' => saved' = Intent(i, "pending")
        BY <1>2, <2>1
    <2> QED
        BY <2>2 DEF KeptUnlessOverwritten, Open, Undecided, Asked
<1>6. NothingOpen'
    BY <1>3, <1>4 DEF NothingOpen, Signing
<1>7. OnlyThisOpen'
    BY <1>2, <1>3, <1>4 DEF OnlyThisOpen
<1> QED
    BY <1>5, <1>6, <1>7

(* If the command is still undecided, its intent is saved as pending again. *)
LEMMA SubmitAnsweredKeeps ==
    ASSUME Inductive, Keeping, NEW t \in Tabs, SubmitAnswered(t)
    PROVE  Keeping'
<1> USE SlotsLemma DEF Keeping, Inductive
<1> DEFINE id == handlers[Panel(t)].id
<1>1. UNCHANGED <<commands, overwritten>>
    BY DEF SubmitAnswered
<1>2. NobodyStarts
    BY DEF SubmitAnswered, EndSign, Goto, Idle, NobodyStarts, Shape, Signing
<1>3. \A i \in DOMAIN commands : Open(i) => i = id
    BY DEF SubmitAnswered, OnlyThisOpen, Signing
<1>4. \A i \in DOMAIN commands : Open(i) => saved' = Intent(i, "pending")
    BY <1>3 DEF SubmitAnswered, Open, Undecided
<1>5. KeptUnlessOverwritten'
    BY <1>1, <1>4 DEF KeptUnlessOverwritten, Open, Undecided, Asked
<1> QED
    BY <1>1, <1>2, <1>5 DEF NobodyStarts, NothingOpen, OnlyThisOpen, Open, Undecided, Asked

(* A query that starts saves nothing.                                      *)
LEMMA QueryStartsKeeps ==
    ASSUME Inductive, Keeping, NEW h \in Slots, QueryStarts(h)
    PROVE  Keeping'
<1>1. Settles
    BY DEF Inductive, Shape, QueryStarts, Settles, Open, Undecided, Asked
<1>2. NobodyStarts
    BY SlotsLemma DEF Inductive, Shape, QueryStarts, Goto, NobodyStarts, Signing
<1>3. UNCHANGED saved
    BY DEF QueryStarts
<1> QED
    BY <1>1, <1>2, <1>3, QuietKeeps

(* An answer about the open request leaves it pending; any other overwrites it. *)
LEMMA QueryEndsKeeps ==
    ASSUME Inductive, Keeping, NEW h \in Slots, QueryEnds(h)
    PROVE  Keeping'
<1> USE SlotsLemma DEF Keeping, Inductive
<1>1. UNCHANGED commands /\ overwritten \subseteq overwritten'
    BY DEF QueryEnds
<1>2. NobodyStarts
    BY DEF QueryEnds, Goto, Idle, NobodyStarts, Shape, Signing
<1>3. ASSUME NEW i \in DOMAIN commands, Open(i), i \notin overwritten'
      PROVE  saved' = Intent(i, "pending")
    <2>1. saved = Intent(i, "pending")
        BY <1>3, KeptIntent
    <2>2. i = handlers[h].id
        BY <1>3, <2>1 DEF QueryEnds, Intent, Pending
    <2>3. handlers[h].status = "pending"
        BY <1>3, <2>2 DEF QueryEnds, AnswersAreTheServers, Open, Undecided
    <2> QED
        BY <2>2, <2>3 DEF QueryEnds
<1>4. KeptUnlessOverwritten'
    BY <1>1, <1>3 DEF KeptUnlessOverwritten, Open, Undecided, Asked
<1> QED
    BY <1>1, <1>2, <1>4 DEF NobodyStarts, NothingOpen, OnlyThisOpen, Open, Undecided, Asked

(* Nothing happens.                                                        *)
LEMMA InductiveStutters ==
    ASSUME Inductive, UNCHANGED vars
    PROVE  Inductive'
BY DEF Inductive, Shape, Prepared, LockHeld, AskedOnes, AnswersAreTheServers,
       OutcomeIsTheServers, vars, Asked

(* Nothing happens.                                                        *)
LEMMA KeepingStutters ==
    ASSUME Keeping, UNCHANGED vars
    PROVE  Keeping'
BY DEF Keeping, NothingOpen, OnlyThisOpen, KeptUnlessOverwritten, Open, Undecided, Asked,
       Intent, vars

(* Every step of Next keeps the invariant.                                 *)
THEOREM NextInductive ==
    ASSUME Inductive, [Next]_vars
    PROVE  Inductive'
<1>1. CASE UNCHANGED vars
    BY <1>1, InductiveStutters
<1>2. ASSUME NEW t \in Tabs, PanelStep(t) PROVE Inductive'
    BY <1>2, PrepareStartsInductive, PrepareAtServerInductive, PrepareReviewedInductive,
       PrepareFailsInductive, DropReviewInductive, SignStartsInductive, AskInductive,
       WalletSignsInductive, PostInductive, SubmitAnsweredInductive, SignFailsInductive,
       CloseInductive
       DEF PanelStep
<1>3. ASSUME NEW h \in Slots, QueryStep(h) PROVE Inductive'
    BY <1>3, QueryStartsInductive, QueryAtServerInductive, QueryEndsInductive,
       QueryFailsInductive
       DEF QueryStep
<1>4. ASSUME NEW id \in DOMAIN commands, SubmitAtServer(id) \/ DeadlinePasses(id) PROVE Inductive'
    BY <1>4, SubmitAtServerInductive, DeadlinePassesInductive
<1> QED
    BY <1>1, <1>2, <1>3, <1>4 DEF Next, ServerStep

(* Every step of Next keeps the open intent.                               *)
THEOREM NextKeeps ==
    ASSUME Inductive, Keeping, [Next]_vars
    PROVE  Keeping'
<1>1. CASE UNCHANGED vars
    BY <1>1, KeepingStutters
<1>2. ASSUME NEW t \in Tabs, PanelStep(t) PROVE Keeping'
    BY <1>2, PrepareStartsKeeps, PrepareAtServerKeeps, PrepareReviewedKeeps,
       PrepareFailsKeeps, DropReviewKeeps, SignStartsKeeps, AskKeeps, WalletSignsKeeps,
       PostKeeps, SubmitAnsweredKeeps, SignFailsKeeps, CloseKeeps
       DEF PanelStep
<1>3. ASSUME NEW h \in Slots, QueryStep(h) PROVE Keeping'
    BY <1>3, QueryStartsKeeps, QueryAtServerKeeps, QueryEndsKeeps, QueryFailsKeeps
       DEF QueryStep
<1>4. ASSUME NEW id \in DOMAIN commands, SubmitAtServer(id) \/ DeadlinePasses(id)
      PROVE  Keeping'
    BY <1>4, SubmitAtServerKeeps, DeadlinePassesKeeps
<1> QED
    BY <1>1, <1>2, <1>3, <1>4 DEF Next, ServerStep

(* The invariant holds in every reachable state.                           *)
LEMMA SpecInductive == Spec => []Inductive
<1>1. Init => Inductive
    BY InitInductive
<1>2. Inductive /\ [Next]_vars => Inductive'
    BY NextInductive
<1> QED
    BY <1>1, <1>2, PTL DEF Spec

(***************************************************************************)
(* What the browser shows as decided is what the server decided (market.ts saves *)
(* only what the server answered), with any tabs and queries however late. *)
(***************************************************************************)
THEOREM ShownOutcomes == Spec => []OutcomeIsTheServers
<1>1. Inductive => OutcomeIsTheServers
    BY DEF Inductive
<1> QED
    BY <1>1, SpecInductive, PTL

(***************************************************************************)
(* The types: a saved intent names a prepared command, exactly one signer holds *)
(* the lock, and what is posted was asked for (market.ts, guards.ts).      *)
(***************************************************************************)
THEOREM TypeCorrect == Spec => []TypeOK
<1>1. ASSUME Inductive PROVE TypeOK
    <2>1. saved \in {NoIntent} \cup
              [id : DOMAIN commands, status : {"pending", "accepted", "rejected", "expired"}]
        BY <1>1 DEF Inductive, Shape, Prepared, Statuses
    <2>2. \A t \in Tabs : reviews[t] \in 0..Len(commands)
        BY <1>1 DEF Inductive, Shape, Prepared
    <2>3. posted \subseteq {id \in DOMAIN commands : commands[id].asked}
        BY <1>1 DEF Inductive, Prepared, Asked
    <2> QED
        BY <1>1, <2>1, <2>2, <2>3 DEF Inductive, LockHeld, TypeOK
<1> QED
    BY <1>1, SpecInductive, PTL

(***************************************************************************)
(* A command that the wallet was asked to sign and the server has not      *)
(* decided is the saved intent, which blocks every other, however late     *)
(* queries are answered (market.ts persists it before it asks the wallet), *)
(* unless the answer to one about another request was saved over it.       *)
(***************************************************************************)
THEOREM IntentIsKept == Spec => []KeptUnlessOverwritten
<1>1. Init => Keeping
    BY SlotsLemma DEF Init, Keeping, NothingOpen, OnlyThisOpen, KeptUnlessOverwritten, Idle,
                      Signing
<1>2. Inductive /\ Keeping /\ [Next]_vars => Keeping'
    BY NextKeeps
<1>3. Keeping => KeptUnlessOverwritten
    BY DEF Keeping
<1> QED
    BY <1>1, <1>2, <1>3, SpecInductive, PTL DEF Spec
=============================================================================
