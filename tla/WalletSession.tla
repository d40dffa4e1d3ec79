---------------------------- MODULE WalletSession ----------------------------
(***************************************************************************)
(* The wallet and the three roles, as the pages of the browser see them    *)
(* (App.tsx, SettingsPage.tsx, guards.ts, wallet.ts), and what relies on   *)
(* the session number: reviews (nova.ts 80-97, and alike in the other      *)
(* libraries), credentials (credentials.ts) and the check of the SDK       *)
(* configuration (ats.ts, deployment.ts).                                  *)
(*                                                                         *)
(* The wallet tells every connected page which account is selected, but    *)
(* later; the pages share the roles in localStorage, but hear of another   *)
(* page's change later.  A page advances its session with everything it    *)
(* hears, and a handler that awaited compares the session it began with.   *)
(*                                                                         *)
(* React renders before the next event (its updates here are synchronous), *)
(* so that what a page shows is its state.  The lookup of an account ends  *)
(* in the session it began in or is thrown away, so it is one step.        *)
(***************************************************************************)
EXTENDS Integers, Sequences, FiniteSets

CONSTANTS
    Tabs,           \* pages of this origin, in one browser
    NoTab,
    Accounts,       \* accounts of the wallet
    NoAccount,      \* no account; a page that is not connected
    Elsewhere,      \* an account on another network
    IdOf,           \* the Hedera ID that Mirror has for an account
    SavedBefore,    \* roles that were saved on an earlier visit
    Working,        \* the pages with a wallet, for TLC; any page changes roles
    MaxSession,     \* bound on the session number of each page, for TLC
    MaxNews         \* bound on undelivered news of the wallet, for TLC

Roles == {"Admin", "Seller", "Buyer"}
NoRoles == [r \in Roles |-> NoAccount]
Bound(m) == {r \in Roles : m[r] # NoAccount}
Distinct(m) == \A r, o \in Bound(m) : m[r] = m[o] => r = o

ASSUME AccountsAssumption ==
    /\ NoTab \notin Tabs
    /\ NoAccount \notin Accounts /\ Elsewhere \notin Accounts /\ NoAccount # Elsewhere
ASSUME SavedAssumption ==
    /\ SavedBefore \subseteq {m \in [Roles -> Accounts \cup {NoAccount}] : Distinct(m)}
    /\ Working \subseteq Tabs
    /\ MaxSession \in [Tabs -> Nat] /\ MaxNews \in Nat

VARIABLES
    wallet,     \* the account that is selected
    news,       \* what each connected page has not heard of the wallet yet
    connected,  \* the account each page is connected to
    saved,      \* the roles in localStorage
    events,     \* the pages that another page's change of them has not reached
    roles,      \* the roles of each page
    unsaved,    \* whether saving them failed on this page
    session,    \* the session number of each page
    lock,       \* the page that holds the Web Lock
    task,       \* the handler that holds the lease of its page
    review,     \* the latest review of each page
    credential, \* the latest credential that was signed and verified on it
    loaded,     \* whether the SDK is prepared
    attempted,  \* whether the latest check of the deployment was the SDK's
    checked     \* the session in which the SDK check that is shown began

vars == <<wallet, news, connected, saved, events, roles, unsaved, session,
          lock, task, review, credential, loaded, attempted, checked>>
links == <<wallet, news, connected>>
storage == <<saved, events, roles, unsaved>>
results == <<review, credential>>
sdk == <<loaded, attempted, checked>>

None == [session |-> -1]
NoCheck == -1
Idle == [step |-> "idle"]

Init ==
    /\ wallet \in Accounts
    /\ news = [t \in Tabs |-> <<>>]
    /\ connected = [t \in Tabs |-> NoAccount]
    /\ saved \in SavedBefore
    /\ events = {}
    /\ roles = [t \in Tabs |-> saved]
    /\ unsaved = {}
    /\ session = [t \in Tabs |-> 0]
    /\ lock = NoTab
    /\ task = [t \in Tabs |-> Idle]
    /\ review = [t \in Tabs |-> None]
    /\ credential = [t \in Tabs |-> None]
    /\ loaded = {}
    /\ attempted = {}
    /\ checked = [t \in Tabs |-> NoCheck]

Goto(t, c) == task' = [task EXCEPT ![t] = c]
Finish(t) ==
    /\ Goto(t, Idle)
    /\ lock' = IF lock = t THEN NoTab ELSE lock

-----------------------------------------------------------------------------
(***************************************************************************)
(* The session.                                                            *)
(***************************************************************************)
(* invalidateSdk: what is under way is not wanted any more.                *)
Unwanted(c) == IF c.step = "reading" THEN [c EXCEPT !.wanted = FALSE] ELSE c

(* Mutant: only what the page shows is taken back.                         *)
InvalidateShown(t, c) ==
    /\ session[t] < MaxSession[t]
    /\ session' = [session EXCEPT ![t] = @ + 1]
    /\ checked' = [checked EXCEPT ![t] = IF t \in attempted THEN NoCheck ELSE @]
    /\ Goto(t, c)

(* invalidateWalletSession, and the SettingsPage that listens; c is what   *)
(* the handler of the page goes on with.                                   *)
Invalidate(t, c) ==
    /\ session[t] < MaxSession[t]
    /\ session' = [session EXCEPT ![t] = @ + 1]
    /\ checked' = [checked EXCEPT ![t] = IF t \in attempted THEN NoCheck ELSE @]
    /\ Goto(t, IF t \in attempted THEN Unwanted(c) ELSE c)

(* The user selects another account or network, and every connected page   *)
(* will hear of it.                                                        *)
WalletSelects(a) ==
    /\ a # wallet
    /\ wallet' = a
    /\ \A t \in Tabs : Len(news[t]) < MaxNews
    /\ news' = [t \in Tabs |-> IF connected[t] = NoAccount THEN news[t] ELSE Append(news[t], a)]
    /\ UNCHANGED <<connected, storage, session, lock, task, results, sdk>>

HearsNews(t) ==
    /\ news[t] # <<>>
    /\ connected' = [connected EXCEPT ![t] = Head(news[t])]
    /\ news' = [news EXCEPT ![t] = Tail(@)]
    /\ Invalidate(t, task[t])
    /\ UNCHANGED <<wallet, storage, lock, results, loaded, attempted>>

(* handleWallet.                                                           *)
Connects(t) ==
    /\ task[t] = Idle
    /\ connected[t] = NoAccount
    /\ Goto(t, [step |-> "connecting"])
    /\ UNCHANGED <<links, storage, session, lock, results, sdk>>

Connected(t) ==
    /\ task[t].step = "connecting"
    /\ connected' = [connected EXCEPT ![t] = wallet]
    /\ Invalidate(t, Idle)
    /\ UNCHANGED <<wallet, news, storage, lock, results, loaded, attempted>>

Disconnects(t) ==
    /\ task[t] = Idle
    /\ connected[t] # NoAccount
    /\ connected' = [connected EXCEPT ![t] = NoAccount]
    /\ news' = [news EXCEPT ![t] = <<>>]
    /\ Invalidate(t, Idle)
    /\ UNCHANGED <<wallet, storage, lock, results, loaded, attempted>>

(* loadRoles: what is saved, or nothing and a warning, with which the page *)
(* saves no more.                                                          *)
LoadsRoles(t) ==
    \/ /\ roles' = [roles EXCEPT ![t] = saved]
       /\ unsaved' = unsaved \ {t}
    \/ /\ roles' = [roles EXCEPT ![t] = NoRoles]
       /\ unsaved' = unsaved \cup {t}

(* The page is closed or reloaded, and opened again.  It begins at 0 but   *)
(* keeps nothing of an earlier session; here its number goes on, so that   *)
(* MaxSession bounds the loads too.                                        *)
Reloads(t) ==
    /\ session[t] < MaxSession[t]
    /\ session' = [session EXCEPT ![t] = @ + 1]
    /\ connected' = [connected EXCEPT ![t] = NoAccount]
    /\ news' = [news EXCEPT ![t] = <<>>]
    /\ LoadsRoles(t)
    /\ events' = events \ {t}
    /\ Finish(t)
    /\ review' = [review EXCEPT ![t] = None]
    /\ credential' = [credential EXCEPT ![t] = None]
    /\ loaded' = loaded \ {t}
    /\ attempted' = attempted \ {t}
    /\ checked' = [checked EXCEPT ![t] = NoCheck]
    /\ UNCHANGED <<wallet, saved>>

-----------------------------------------------------------------------------
(***************************************************************************)
(* The roles, on the SettingsPage.  Changing them needs no lease.          *)
(***************************************************************************)
Ready(t) == connected[t] \in Accounts

(* Mutant: an account may have two roles.                                  *)
MayBindTwice(t, role) ==
    roles[t][role] = NoAccount

(* What Mirror has for an account, when it has one that is not deleted.    *)
lookupAccount(a) == IdOf[a]

(* The accounts whose lookups the page waits for.                          *)
Verified(t) == {connected[t]} \cup {roles[t][r] : r \in Bound(roles[t])}

(* bindingProblem.                                                         *)
MayBind(t, role) ==
    /\ roles[t][role] = NoAccount
    /\ \A r \in Bound(roles[t]) : roles[t][r] # connected[t]
    /\ \A v, o \in Verified(t) : lookupAccount(v) = lookupAccount(o) => v = o

(* saveRoles.  The other pages get a storage event.                        *)
SavesRoles(t, new) ==
    \/ /\ saved' = new
       /\ events' = IF new = saved THEN events ELSE events \cup (Tabs \ {t})
       /\ UNCHANGED unsaved
    \/ /\ unsaved' = unsaved \cup {t}
       /\ UNCHANGED <<saved, events>>

(* changeRoles: a page on which saving once failed saves no more.          *)
ChangesRoles(t, new) ==
    /\ roles' = [roles EXCEPT ![t] = new]
    /\ \/ t \notin unsaved /\ SavesRoles(t, new)
       \/ t \in unsaved /\ UNCHANGED <<saved, events, unsaved>>
    /\ Invalidate(t, task[t])
    /\ UNCHANGED <<links, lock, results, loaded, attempted>>

Binds(t, role) ==
    /\ Ready(t)
    /\ MayBind(t, role)
    /\ ChangesRoles(t, [roles[t] EXCEPT ![role] = connected[t]])

Clears(t, role) ==
    /\ role \in Bound(roles[t])
    /\ ChangesRoles(t, [roles[t] EXCEPT ![role] = NoAccount])

(* The storage event.                                                      *)
HearsStorage(t) ==
    /\ t \in events
    /\ events' = events \ {t}
    /\ LoadsRoles(t)
    /\ Invalidate(t, task[t])
    /\ UNCHANGED <<links, saved, lock, results, loaded, attempted>>

-----------------------------------------------------------------------------
(***************************************************************************)
(* Reviews.  checkWalletReview compares the session, asks the wallet for   *)
(* its account, and compares the session again; next is what follows.      *)
(***************************************************************************)
Checking(c, next) ==
    [step |-> "checking", session |-> c.session, roles |-> c.roles, role |-> c.role, next |-> next]

Check(t, c, next) ==
    /\ c.session = session[t]
    /\ connected[t] = c.roles[c.role]
    /\ Goto(t, Checking(c, next))

(* The check has passed.                                                   *)
Answered(t) == task[t].step = "answered" /\ task[t].session = session[t]

WalletAnswers(t) ==
    /\ task[t].step = "checking"
    /\ wallet = task[t].roles[task[t].role]
    /\ Goto(t, [task[t] EXCEPT !.step = "answered"])
    /\ UNCHANGED <<links, storage, session, lock, results, sdk>>

(* reviewWallet: first the accounts of the roles are looked up.            *)
ReviewStarts(t, role) ==
    /\ task[t] = Idle
    /\ connected[t] # NoAccount
    /\ Bound(roles[t]) = Roles
    /\ Goto(t, [step |-> "looking", session |-> session[t], roles |-> roles[t], role |-> role])
    /\ UNCHANGED <<links, storage, session, lock, results, sdk>>

ReviewChecks(t) ==
    LET c == task[t]
    IN  /\ c.step = "looking"
        /\ \A r, o \in Roles : lookupAccount(c.roles[r]) = lookupAccount(c.roles[o]) => r = o
        /\ Check(t, c, "configure")
        /\ UNCHANGED <<links, storage, session, lock, results, sdk>>

(* Then the SDK is prepared and its configuration checked, under the same  *)
(* lease, and the wallet is checked once more.                             *)
ReviewConfigures(t) ==
    /\ Answered(t)
    /\ task[t].next = "configure"
    /\ Goto(t, [task[t] EXCEPT !.step = "configuring"])
    /\ UNCHANGED <<links, storage, session, lock, results, sdk>>

ReviewRechecks(t) ==
    /\ task[t].step = "configuring"
    /\ Check(t, task[t], "review")
    /\ UNCHANGED <<links, storage, session, lock, results, sdk>>

Reviewed(c) == [session |-> c.session, roles |-> c.roles, role |-> c.role]

ReviewEnds(t) ==
    /\ Answered(t)
    /\ task[t].next = "review"
    /\ review' = [review EXCEPT ![t] = Reviewed(task[t])]
    /\ Finish(t)
    /\ UNCHANGED <<links, storage, session, credential, sdk>>

-----------------------------------------------------------------------------
(***************************************************************************)
(* signCredential, under the lock: the Admin of a review signs, and the    *)
(* wallet is checked before the prompt, after it, after the verification   *)
(* and after the negative verifications.                                   *)
(***************************************************************************)
SignStarts(t) ==
    LET c == review[t]
    IN  /\ task[t] = Idle
        /\ c # None /\ c.role = "Admin"
        /\ lock = NoTab
        /\ lock' = t
        /\ Check(t, c, "prompt")
        /\ UNCHANGED <<links, storage, session, results, sdk>>

After(next) ==
    CASE next = "verify" -> "negatives"
      [] next = "negatives" -> "credential"

(* The wallet is asked, or one of the verifications begins.                *)
SignGoesOn(t) ==
    /\ Answered(t)
    /\ task[t].next \in {"prompt", "verify", "negatives"}
    /\ Goto(t, [task[t] EXCEPT !.step = IF task[t].next = "prompt" THEN "asked" ELSE "verifying"])
    /\ UNCHANGED <<links, storage, session, lock, results, sdk>>

WalletSigns(t) ==
    /\ task[t].step = "asked"
    /\ Check(t, task[t], "verify")
    /\ UNCHANGED <<links, storage, session, lock, results, sdk>>

SignVerified(t) ==
    /\ task[t].step = "verifying"
    /\ Check(t, task[t], After(task[t].next))
    /\ UNCHANGED <<links, storage, session, lock, results, sdk>>

SignEnds(t) ==
    /\ Answered(t)
    /\ task[t].next = "credential"
    /\ credential' = [credential EXCEPT ![t] = Reviewed(task[t])]
    /\ Finish(t)
    /\ UNCHANGED <<links, storage, session, review, sdk>>

-----------------------------------------------------------------------------
(***************************************************************************)
(* The SDK: prepareAts, checkSdkConfig and checkDeployment, as the         *)
(* SettingsPage runs them, each with the lease of the page.                *)
(***************************************************************************)
PreparesSdk(t) ==
    /\ task[t] = Idle
    /\ t \notin loaded
    /\ Goto(t, [step |-> "loading"])
    /\ UNCHANGED <<links, storage, session, lock, results, sdk>>

SdkPrepared(t) ==
    /\ task[t].step = "loading"
    /\ loaded' = loaded \cup {t}
    /\ Finish(t)
    /\ UNCHANGED <<links, storage, session, results, attempted, checked>>

ChecksSdk(t) ==
    /\ task[t] = Idle
    /\ t \in loaded
    /\ Goto(t, [step |-> "reading", at |-> "network", session |-> session[t], wanted |-> TRUE])
    /\ attempted' = attempted \cup {t}
    /\ checked' = [checked EXCEPT ![t] = NoCheck]
    /\ UNCHANGED <<links, storage, session, lock, results, loaded>>

Cancels(t) ==
    /\ task[t].step = "reading"
    /\ Goto(t, Unwanted(task[t]))
    /\ checked' = [checked EXCEPT ![t] = NoCheck]
    /\ UNCHANGED <<links, storage, session, lock, results, loaded, attempted>>

(* checkDeployment: each part needs the one before it, and is not asked    *)
(* for once the check is not wanted any more (throwIfAborted).             *)
GoesOn(t, from, to) ==
    /\ task[t].step \in {"reading", "deployment"}
    /\ task[t].at = from
    /\ task[t].step = "reading" => task[t].wanted
    /\ Goto(t, [task[t] EXCEPT !.at = to])
    /\ UNCHANGED <<links, storage, session, lock, results, sdk>>

(* The chain is the Testnet.                                               *)
NetworkPasses(t) == GoesOn(t, "network", "contracts")

(* Mirror has at least one of the two contracts.                           *)
ContractsPass(t) == GoesOn(t, "contracts", "bytecode")

(* The Resolver has bytecode.                                              *)
BytecodePasses(t) == GoesOn(t, "bytecode", "config")

(* The deployment has passed, and the SDK is asked for the same version.   *)
ConfigPasses(t) ==
    /\ task[t].step = "reading"
    /\ GoesOn(t, "config", "sdk")

(* Passed, or failed at any part, a result is shown only if it is still    *)
(* wanted.                                                                 *)
SdkChecked(t) ==
    /\ task[t].step = "reading"
    /\ checked' = [checked EXCEPT ![t] = IF task[t].wanted THEN task[t].session ELSE @]
    /\ Finish(t)
    /\ UNCHANGED <<links, storage, session, results, loaded, attempted>>

(* A check of the deployment alone, which has nothing to do with a wallet;  *)
(* it ends as any failing handler does, with nothing that is kept here.    *)
ChecksDeployment(t) ==
    /\ task[t] = Idle
    /\ Goto(t, [step |-> "deployment", at |-> "network"])
    /\ attempted' = attempted \ {t}
    /\ checked' = [checked EXCEPT ![t] = NoCheck]
    /\ UNCHANGED <<links, storage, session, lock, results, loaded>>

(* The user refuses, a request fails or a check does not pass.             *)
Fails(t) ==
    /\ task[t] # Idle
    /\ Finish(t)
    /\ UNCHANGED <<links, storage, session, results, sdk>>

-----------------------------------------------------------------------------
(* What any page does, and what it does with a wallet.                     *)
Page(t) ==
    \/ Reloads(t) \/ HearsStorage(t)
    \/ \E role \in Roles : Clears(t, role)

Works(t) ==
    \/ HearsNews(t) \/ Connects(t) \/ Connected(t) \/ Disconnects(t)
    \/ \E role \in Roles : Binds(t, role) \/ ReviewStarts(t, role)
    \/ ReviewChecks(t) \/ ReviewConfigures(t) \/ ReviewRechecks(t) \/ ReviewEnds(t)
    \/ WalletAnswers(t)
    \/ SignStarts(t) \/ SignGoesOn(t) \/ WalletSigns(t) \/ SignVerified(t) \/ SignEnds(t)
    \/ PreparesSdk(t) \/ SdkPrepared(t) \/ ChecksSdk(t) \/ Cancels(t) \/ SdkChecked(t)
    \/ ChecksDeployment(t)
    \/ NetworkPasses(t) \/ ContractsPass(t) \/ BytecodePasses(t) \/ ConfigPasses(t)
    \/ Fails(t)

Next ==
    \/ \E a \in Accounts \cup {Elsewhere} : WalletSelects(a)
    \/ \E t \in Tabs : Page(t)
    \/ \E t \in Working : Works(t)

Spec == Init /\ [][Next]_vars

-----------------------------------------------------------------------------
RoleMap == [Roles -> Accounts \cup {NoAccount}]
Looking == [step : {"looking"}, session : Nat, roles : RoleMap, role : Roles]
Steps == {"checking", "answered", "configuring", "asked", "verifying"}
ReviewPoints == {"configure", "review"}
SignPoints == {"prompt", "verify", "negatives", "credential"}
NextOf(step) ==
    CASE step = "configuring" -> {"configure"}
      [] step = "asked" -> {"prompt"}
      [] step = "verifying" -> {"verify", "negatives"}
      [] step \in {"checking", "answered"} -> ReviewPoints \cup SignPoints
Checked ==
    UNION {[step : {s}, session : Nat, roles : RoleMap, role : Roles, next : NextOf(s)] : s \in Steps}
Points == {"network", "contracts", "bytecode", "config", "sdk"}
Reading == [step : {"reading"}, at : Points, session : Nat, wanted : BOOLEAN]
Deploying == [step : {"deployment"}, at : Points]
Task == [step : {"idle", "connecting", "loading"}] \cup Looking \cup Checked \cup Reading \cup Deploying
Results == {None} \cup [session : Nat, roles : RoleMap, role : Roles]

(* Types, and the lock is with a page that is signing.                     *)
TypeOK ==
    /\ wallet \in Accounts \cup {Elsewhere}
    /\ news \in [Tabs -> Seq(Accounts \cup {Elsewhere})]
    /\ connected \in [Tabs -> Accounts \cup {NoAccount, Elsewhere}]
    /\ saved \in RoleMap
    /\ roles \in [Tabs -> RoleMap]
    /\ events \subseteq Tabs /\ unsaved \subseteq Tabs
    /\ session \in [Tabs -> Nat]
    /\ task \in [Tabs -> Task]
    /\ lock \in Tabs \cup {NoTab}
    /\ lock # NoTab => task[lock] \in Checked /\ task[lock].next \in SignPoints
    /\ review \in [Tabs -> Results] /\ credential \in [Tabs -> Results]
    /\ loaded \subseteq Tabs /\ attempted \subseteq Tabs
    /\ checked \in [Tabs -> Nat \cup {NoCheck}]

(* The session stands for all that a handler relied on: a review or a      *)
(* credential of the present session is for the roles that the page has    *)
(* and was made with the account that it is connected to, and the SDK      *)
(* check that is shown began in it ("Advance on every wallet transition,   *)
(* including A -> B -> A", wallet.ts 28; assertSession, guards.ts 82).     *)
IsOfSession(t, c) ==
    c.session = session[t] => c.roles = roles[t] /\ c.roles[c.role] = connected[t]

SessionIsTrue ==
    \A t \in Tabs :
        /\ IsOfSession(t, review[t])
        /\ IsOfSession(t, credential[t])
        /\ checked[t] \in {NoCheck, session[t]}

(* However pages overwrite each other's roles, no two roles are one        *)
(* account, and a page that saves and has heard everything shows what is   *)
(* saved (App.tsx 40-46 and 77-85, bindingProblem).                        *)
RolesAgree ==
    /\ Distinct(saved)
    /\ \A t \in Tabs : Distinct(roles[t])
    /\ \A t \in Tabs \ (events \cup unsaved) : roles[t] = saved
=============================================================================
