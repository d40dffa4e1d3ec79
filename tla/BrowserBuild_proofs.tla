------------------------- MODULE BrowserBuild_proofs --------------------------
(***************************************************************************)
(* The session number stands for everything a page relied on, and the      *)
(* pages agree on the roles: for any wallet, any pages and any saved       *)
(* roles.  The properties of a page are inductive together with what is    *)
(* true of the handler that is under way on it, PageTrue, and are proved   *)
(* page by page: an action is of one page and leaves the others alone.     *)
(***************************************************************************)
EXTENDS BrowserBuild, TLAPS

(* A record of an earlier session says nothing; one of the present session *)
(* is of the page's roles, and after its first check of its account.       *)
OfRoles(s, m, c) == c.session <= s /\ (c.session = s => c.roles = m)
OfPage(s, m, a, c) == OfRoles(s, m, c) /\ (c.session = s => c.roles[c.role] = a)
ResultTrue(s, m, a, c) == c # None => OfPage(s, m, a, c)

(* A page of session s, roles m and account a, with a handler h and the    *)
(* SDK check k, where att says whether that check was the SDK's.           *)
PageTrue(s, m, a, h, rv, cr, att, k) ==
    /\ h \in Looking => OfRoles(s, m, h)
    /\ h \in Checked => OfPage(s, m, a, h)
    /\ h \in Reading => att /\ (h.wanted = TRUE => h.session = s)
    /\ ResultTrue(s, m, a, rv)
    /\ ResultTrue(s, m, a, cr)
    /\ k # NoCheck => k = s /\ att

True(t) ==
    PageTrue(session[t], roles[t], connected[t], task[t], review[t], credential[t],
             t \in attempted, checked[t])

Inv == TypeOK /\ (\A t \in Tabs : True(t)) /\ RolesAgree

-----------------------------------------------------------------------------
(* The handler records are told apart by their steps.                      *)
LEMMA CheckedRecords ==
    \A c : c \in Checked <=>
        /\ c \in [step : Steps, session : Nat, roles : RoleMap, role : Roles,
                   next : ReviewPoints \cup SignPoints]
        /\ c.next \in NextOf(c.step)
BY DEF Checked, Steps, NextOf, ReviewPoints, SignPoints

LEMMA Kinds ==
    /\ \A c \in Looking : c \in Task /\ c \notin Checked /\ c \notin Reading /\ c # Idle
    /\ \A c \in Checked : c \in Task /\ c \notin Looking /\ c \notin Reading /\ c # Idle
    /\ \A c \in Reading : c \in Task /\ c \notin Looking /\ c \notin Checked /\ c # Idle
    /\ \A c \in Deploying : c \in Task /\ c \notin Looking /\ c \notin Checked /\ c \notin Reading
    /\ \A x \in {"idle", "connecting", "loading"} :
          /\ [step |-> x] \in Task
          /\ [step |-> x] \notin Looking \cup Checked \cup Reading
BY CheckedRecords DEF Task, Looking, Reading, Deploying, Idle, Steps

LEMMA KindOf ==
    ASSUME NEW c \in Task
    PROVE  /\ c.step = "looking" => c \in Looking
           /\ c.step \in Steps => c \in Checked
           /\ c.step = "reading" => c \in Reading
           /\ c.step = "deployment" => c \in Deploying
BY CheckedRecords DEF Task, Looking, Reading, Deploying, Steps

(* A page that hears of something, or forgets it, keeps the truth: what it *)
(* made is now of an earlier session.                                      *)
LEMMA NewSession ==
    ASSUME NEW s \in Nat, NEW s2 \in Nat, s < s2, NEW m, NEW m2, NEW a, NEW a2,
           NEW h \in Task, NEW rv \in Results, NEW cr \in Results, NEW t, NEW att, NEW k,
           PageTrue(s, m, a, h, rv, cr, t \in att, k)
    PROVE  PageTrue(s2, m2, a2, IF t \in att THEN Unwanted(h) ELSE h, rv, cr, t \in att,
                    IF t \in att THEN NoCheck ELSE k)
<1> DEFINE h2 == IF t \in att THEN Unwanted(h) ELSE h
<1>1. h2 \in Looking => h2 = h
  BY Kinds, KindOf DEF Unwanted, Looking, Reading, Task, Checked
<1>2. h2 \in Checked => h2 = h
  BY Kinds, KindOf DEF Unwanted, Looking, Reading, Task, Checked, Steps
<1>3. h2 \in Reading => t \in att /\ h2.wanted = FALSE
  <2>1. CASE h \in Reading
    BY <2>1 DEF PageTrue, Unwanted, Reading
  <2>2. CASE h \notin Reading
    BY <2>2, Kinds, KindOf DEF Unwanted, Reading
  <2> QED BY <2>1, <2>2
<1>4. \A c : ResultTrue(s, m, a, c) /\ c \in Results => ResultTrue(s2, m2, a2, c)
  BY DEF ResultTrue, OfPage, OfRoles, Results
<1>5. h \in Looking /\ OfRoles(s, m, h) => OfRoles(s2, m2, h)
  BY DEF OfRoles, Looking
<1>6. h \in Checked /\ OfPage(s, m, a, h) => OfPage(s2, m2, a2, h)
  BY DEF OfPage, OfRoles, Checked
<1> HIDE DEF h2
<1>7. PageTrue(s2, m2, a2, h2, rv, cr, t \in att, IF t \in att THEN NoCheck ELSE k)
  BY <1>1, <1>2, <1>3, <1>4, <1>5, <1>6 DEF PageTrue
<1> QED BY <1>7 DEF h2

-----------------------------------------------------------------------------
(* The lease and the lock.                                                 *)
Held ==
    /\ lock \in Tabs \cup {NoTab}
    /\ lock # NoTab => task[lock] \in Checked /\ task[lock].next \in SignPoints
    /\ task \in [Tabs -> Task]

LEMMA FinishKeeps ==
    ASSUME Held, NEW t \in Tabs, Finish(t)
    PROVE  Held' /\ task' = [task EXCEPT ![t] = Idle]
<1>1. Idle \in Task
  BY Kinds DEF Idle
<1>2. task' = [task EXCEPT ![t] = Idle] /\ task' \in [Tabs -> Task]
  BY <1>1 DEF Finish, Goto, Held
<1>3. CASE lock = t
  BY <1>2, <1>3 DEF Finish, Held
<1>4. CASE lock # t
  BY <1>2, <1>4 DEF Finish, Held
<1> QED BY <1>2, <1>3, <1>4

LEMMA GotoKeeps ==
    ASSUME Held, NEW t \in Tabs, NEW c \in Task, Goto(t, c), lock' = lock,
           lock = t => c \in Checked /\ c.next \in SignPoints
    PROVE  Held'
BY DEF Held, Goto

(* A check of the wallet leads on from a handler of the session.           *)
LEMMA CheckLeads ==
    ASSUME TypeOK, NEW t \in Tabs, NEW c, c.session \in Nat, c.roles \in RoleMap, c.role \in Roles,
           NEW next \in ReviewPoints \cup SignPoints, Check(t, c, next)
    PROVE  LET d == Checking(c, next)
           IN  /\ Goto(t, d) /\ d \in Checked /\ d \in Task /\ d.next = next
               /\ d.session = session[t] /\ d.session = c.session /\ d.roles = c.roles
               /\ d.roles[d.role] = connected[t]
<1> DEFINE d == Checking(c, next)
<1>1. d = [step |-> "checking", session |-> c.session, roles |-> c.roles, role |-> c.role, next |-> next]
  BY DEF Checking
<1>2. d \in Checked
  BY <1>1, CheckedRecords DEF Steps, NextOf
<1>3. d \in Task /\ d.next = next /\ d.session = c.session /\ d.roles = c.roles /\ d.role = c.role
  BY <1>1, <1>2, Kinds
<1>4. Goto(t, d) /\ c.session = session[t] /\ c.roles[c.role] = connected[t]
  BY DEF Check
<1> HIDE DEF d
<1>5. d.session = session[t] /\ d.roles[d.role] = connected[t]
  BY <1>3, <1>4
<1>6. Goto(t, d) /\ d \in Checked /\ d \in Task /\ d.next = next
          /\ d.session = session[t] /\ d.session = c.session /\ d.roles = c.roles
          /\ d.roles[d.role] = connected[t]
  BY <1>2, <1>3, <1>4, <1>5
<1> QED BY <1>6 DEF d

LEMMA StepOf ==
    ASSUME NEW c \in Checked, NEW x \in Steps, c.next \in NextOf(x)
    PROVE  LET d == [c EXCEPT !.step = x]
           IN  /\ d \in Checked /\ d \in Task /\ d.next = c.next
               /\ d.session = c.session /\ d.roles = c.roles /\ d.role = c.role
BY CheckedRecords, Kinds

LEMMA UnwantedType ==
    ASSUME NEW c \in Task
    PROVE  /\ Unwanted(c) \in Task
           /\ c \in Checked => Unwanted(c) = c
           /\ c = Idle => Unwanted(c) = c
           /\ c.step \in {"idle", "connecting", "loading"} => Unwanted(c) = c
<1>1. CASE c \in Reading
  <2>1. Unwanted(c) = [c EXCEPT !.wanted = FALSE]
    BY <1>1 DEF Unwanted, Reading
  <2>2. Unwanted(c) \in Reading
    BY <1>1, <2>1 DEF Reading
  <2> QED BY <1>1, <2>2, Kinds DEF Reading, Idle
<1>2. CASE c \notin Reading
  <2>1. c.step # "reading"
    BY <1>2, KindOf
  <2> QED BY <2>1 DEF Unwanted
<1> QED BY <1>1, <1>2

-----------------------------------------------------------------------------
(* Hearing of something.                                                   *)
Heard(t, c) ==
    /\ c = task[t] \/ (c = Idle /\ task[t].step \in {"idle", "connecting"})
    /\ Invalidate(t, c)
    /\ UNCHANGED <<lock, review, credential, loaded, attempted>>
    /\ \A u \in Tabs \ {t} : roles'[u] = roles[u] /\ connected'[u] = connected[u]

LEMMA HeardKeeps ==
    ASSUME Inv, NEW t \in Tabs, NEW c, Heard(t, c)
    PROVE  /\ Held' /\ session' \in [Tabs -> Nat] /\ checked' \in [Tabs -> Nat \cup {NoCheck}]
           /\ \A u \in Tabs : True(u)'
<1> DEFINE h == IF t \in attempted THEN Unwanted(c) ELSE c
<1>0. TypeOK /\ Held /\ \A u \in Tabs : True(u)
  BY DEF Inv, TypeOK, Held
<1>1. c \in Task /\ (lock = t => c = task[t])
  <2>1. CASE c = task[t]
    BY <1>0, <2>1 DEF Held
  <2>2. CASE c = Idle /\ task[t].step \in {"idle", "connecting"}
    <3>1. Idle \in Task
      BY Kinds DEF Idle
    <3>2. task[t] \notin Checked
      BY <2>2 DEF Checked, Steps
    <3> QED BY <1>0, <2>2, <3>1, <3>2, AccountsAssumption DEF Held
  <2> QED BY <2>1, <2>2 DEF Heard
<1>2. h \in Task /\ (c \in Checked => h = c)
  BY <1>1, UnwantedType
<1>3. Goto(t, h) /\ lock' = lock
  BY DEF Heard, Invalidate
<1>4. lock = t => h \in Checked /\ h.next \in SignPoints
  <2> SUFFICES ASSUME lock = t PROVE h \in Checked /\ h.next \in SignPoints
    OBVIOUS
  <2>1. t # NoTab
    BY AccountsAssumption
  <2>2. c \in Checked /\ c.next \in SignPoints
    BY <1>0, <1>1, <2>1 DEF Held
  <2> HIDE DEF h
  <2> QED BY <1>2, <2>2
<1> HIDE DEF h
<1>5. Held'
  BY <1>0, <1>2, <1>3, <1>4, GotoKeeps
<1>6. session' = [session EXCEPT ![t] = @ + 1] /\ session' \in [Tabs -> Nat]
  BY <1>0 DEF Heard, Invalidate, TypeOK
<1>7. checked' = [checked EXCEPT ![t] = IF t \in attempted THEN NoCheck ELSE @]
  BY DEF Heard, Invalidate
<1>8. checked' \in [Tabs -> Nat \cup {NoCheck}]
  BY <1>0, <1>7 DEF TypeOK
<1>9. ASSUME NEW u \in Tabs PROVE True(u)'
  <2>1. CASE u # t
    <3>1. task'[u] = task[u] /\ session'[u] = session[u] /\ checked'[u] = checked[u]
      BY <1>0, <1>3, <1>6, <1>7, <2>1 DEF TypeOK, Goto
    <3>2. True(u)
      BY <1>0
    <3> QED BY <3>1, <3>2, <2>1 DEF True, Heard
  <2>2. CASE u = t
    <3>1. PageTrue(session[t], roles[t], connected[t], c, review[t], credential[t],
                   t \in attempted, checked[t])
      <4>1. True(t)
        BY <1>0
      <4>2. CASE c = task[t]
        BY <4>1, <4>2 DEF True
      <4>3. CASE c = Idle
        BY <4>1, <4>3, Kinds DEF True, PageTrue, Idle
      <4> QED BY <4>2, <4>3 DEF Heard
    <3>2. PageTrue(session[t] + 1, roles'[t], connected'[t], h, review[t], credential[t],
                   t \in attempted, IF t \in attempted THEN NoCheck ELSE checked[t])
      <4>1. session[t] \in Nat /\ session[t] + 1 \in Nat /\ session[t] < session[t] + 1
        BY <1>0 DEF TypeOK
      <4>2. review[t] \in Results /\ credential[t] \in Results
        BY <1>0 DEF TypeOK
      <4> QED BY <1>1, <3>1, <4>1, <4>2, NewSession DEF h
    <3>3. /\ session'[t] = session[t] + 1 /\ task'[t] = h
          /\ checked'[t] = IF t \in attempted THEN NoCheck ELSE checked[t]
      BY <1>0, <1>3, <1>6, <1>7 DEF TypeOK, Goto
    <3>4. review' = review /\ credential' = credential /\ attempted' = attempted
      BY DEF Heard
    <3> QED BY <2>2, <3>2, <3>3, <3>4 DEF True
  <2> QED BY <2>1, <2>2
<1> QED BY <1>5, <1>6, <1>8, <1>9

(* A handler that goes on: it changes what is its page's, in its session.  *)
Going(t) ==
    /\ UNCHANGED <<session, roles, connected>>
    /\ \A u \in Tabs \ {t} :
          /\ task'[u] = task[u] /\ review'[u] = review[u] /\ credential'[u] = credential[u]
          /\ (u \in attempted') = (u \in attempted) /\ checked'[u] = checked[u]

LEMMA GoingKeeps ==
    ASSUME Inv, NEW t \in Tabs, Going(t),
           PageTrue(session[t], roles[t], connected[t], task'[t], review'[t], credential'[t],
                    t \in attempted', checked'[t])
    PROVE  \A u \in Tabs : True(u)'
<1> SUFFICES ASSUME NEW u \in Tabs PROVE True(u)'
  OBVIOUS
<1>1. CASE u = t
  BY <1>1 DEF Going, True
<1>2. CASE u # t
  BY <1>2 DEF Going, True, Inv
<1> QED BY <1>1, <1>2

-----------------------------------------------------------------------------
(* A handler that only goes on to c, and changes nothing else.             *)
Passes(t, c) ==
    /\ Goto(t, c)
    /\ UNCHANGED <<links, storage, session, lock, results, sdk>>

LEMMA PassesInv ==
    ASSUME Inv, NEW t \in Tabs, NEW c \in Task, Passes(t, c),
           lock = t => c \in Checked /\ c.next \in SignPoints,
           c \in Looking => OfRoles(session[t], roles[t], c),
           c \in Checked => OfPage(session[t], roles[t], connected[t], c),
           c \in Reading => t \in attempted /\ (c.wanted = TRUE => c.session = session[t])
    PROVE  Inv'
<1>0. TypeOK /\ Held /\ True(t)
  BY DEF Inv, TypeOK, Held
<1>1. Held'
  BY <1>0, GotoKeeps DEF Passes
<1>2. TypeOK'
  BY <1>0, <1>1 DEF TypeOK, Held, Passes, links, storage, results, sdk
<1>3. task' = [task EXCEPT ![t] = c] /\ task'[t] = c
  BY <1>0 DEF Passes, Goto, Held
<1>4. Going(t)
  BY <1>0, <1>3 DEF Going, Passes, links, storage, results, sdk, Held
<1>5. PageTrue(session[t], roles[t], connected[t], c, review[t], credential[t],
               t \in attempted, checked[t])
  BY <1>0 DEF True, PageTrue
<1>6. review' = review /\ credential' = credential /\ attempted' = attempted /\ checked' = checked
  BY DEF Passes, results, sdk
<1>7. \A u \in Tabs : True(u)'
  BY <1>3, <1>4, <1>5, <1>6, GoingKeeps
<1>8. RolesAgree'
  BY DEF Inv, RolesAgree, Passes, storage
<1> QED BY <1>2, <1>7, <1>8 DEF Inv

(* A handler that ends, with what it leaves on its page.                   *)
LEMMA EndsInv ==
    ASSUME Inv, NEW t \in Tabs, Finish(t), UNCHANGED <<links, storage, session>>,
           NEW rv \in Results, review' = [review EXCEPT ![t] = rv],
           NEW cr \in Results, credential' = [credential EXCEPT ![t] = cr],
           NEW k \in Nat \cup {NoCheck}, checked' = [checked EXCEPT ![t] = k],
           attempted' = attempted, loaded' \subseteq Tabs,
           ResultTrue(session[t], roles[t], connected[t], rv),
           ResultTrue(session[t], roles[t], connected[t], cr),
           k # NoCheck => k = session[t] /\ t \in attempted
    PROVE  Inv'
<1>0. TypeOK /\ Held /\ True(t)
  BY DEF Inv, TypeOK, Held
<1>1. Held' /\ task' = [task EXCEPT ![t] = Idle]
  BY <1>0, FinishKeeps
<1>2. TypeOK'
  BY <1>0, <1>1 DEF TypeOK, Held, links, storage
<1>3. task'[t] = Idle /\ review'[t] = rv /\ credential'[t] = cr /\ checked'[t] = k
  BY <1>0, <1>1 DEF TypeOK
<1>4. Going(t)
  BY <1>0, <1>1 DEF Going, links, storage, TypeOK
<1>5. PageTrue(session[t], roles[t], connected[t], Idle, rv, cr, t \in attempted, k)
  BY Kinds DEF PageTrue, Idle
<1>6. \A u \in Tabs : True(u)'
  BY <1>3, <1>4, <1>5, GoingKeeps
<1>7. RolesAgree'
  BY DEF Inv, RolesAgree, storage
<1> QED BY <1>2, <1>6, <1>7 DEF Inv

-----------------------------------------------------------------------------
(* The wallet.                                                             *)
LEMMA LinksInv ==
    ASSUME Inv, NEW t \in Tabs, NEW c, Heard(t, c), UNCHANGED storage,
           wallet' = wallet, NEW n \in Seq(Accounts \cup {Elsewhere}), news' = [news EXCEPT ![t] = n],
           NEW a \in Accounts \cup {NoAccount, Elsewhere}, connected' = [connected EXCEPT ![t] = a]
    PROVE  Inv'
<1>1. Held' /\ session' \in [Tabs -> Nat] /\ checked' \in [Tabs -> Nat \cup {NoCheck}]
      /\ \A u \in Tabs : True(u)'
  BY HeardKeeps
<1>2. TypeOK'
  BY <1>1 DEF Inv, TypeOK, Held, Heard, storage
<1>3. RolesAgree'
  BY DEF Inv, RolesAgree, storage
<1> QED BY <1>1, <1>2, <1>3 DEF Inv

LEMMA WalletActions ==
    ASSUME Inv, NEW t \in Tabs
    PROVE  /\ HearsNews(t) => Inv'
           /\ Connected(t) => Inv'
           /\ Disconnects(t) => Inv'
           /\ \A a \in Accounts \cup {Elsewhere} : WalletSelects(a) => Inv'
<1>0. TypeOK /\ roles \in [Tabs -> RoleMap] /\ news[t] \in Seq(Accounts \cup {Elsewhere})
  BY DEF Inv, TypeOK
<1>1. ASSUME HearsNews(t) PROVE Inv'
  <2>1. Head(news[t]) \in Accounts \cup {Elsewhere} /\ Tail(news[t]) \in Seq(Accounts \cup {Elsewhere})
    BY <1>0, <1>1 DEF HearsNews
  <2>2. connected' = [connected EXCEPT ![t] = Head(news[t])] /\ news' = [news EXCEPT ![t] = Tail(news[t])]
    BY <1>1 DEF HearsNews
  <2>3. Heard(t, task[t])
    BY <1>0, <1>1, <2>2 DEF Heard, HearsNews, storage, results, TypeOK
  <2>4. UNCHANGED storage /\ wallet' = wallet
    BY <1>1 DEF HearsNews
  <2> HIDE DEF Heard
  <2> QED BY <2>1, <2>2, <2>3, <2>4, LinksInv
<1>2. ASSUME Connected(t) PROVE Inv'
  <2>1. wallet \in Accounts \cup {NoAccount, Elsewhere} /\ news' = [news EXCEPT ![t] = news[t]]
    BY <1>0, <1>2 DEF Connected, TypeOK
  <2>2. connected' = [connected EXCEPT ![t] = wallet]
    BY <1>2 DEF Connected
  <2>3. Heard(t, Idle)
    BY <1>0, <1>2, <2>2 DEF Heard, Connected, storage, results, TypeOK
  <2>4. UNCHANGED storage /\ wallet' = wallet
    BY <1>2 DEF Connected
  <2> QED BY <1>0, <2>1, <2>2, <2>3, <2>4, LinksInv
<1>3. ASSUME Disconnects(t) PROVE Inv'
  <2>1. connected' = [connected EXCEPT ![t] = NoAccount] /\ news' = [news EXCEPT ![t] = <<>>]
    BY <1>3 DEF Disconnects
  <2>2. Heard(t, Idle)
    BY <1>0, <1>3, <2>1 DEF Heard, Disconnects, storage, results, TypeOK, Idle
  <2>3. UNCHANGED storage /\ wallet' = wallet /\ <<>> \in Seq(Accounts \cup {Elsewhere})
    BY <1>3 DEF Disconnects
  <2> QED BY <2>1, <2>2, <2>3, LinksInv
<1>4. ASSUME NEW a \in Accounts \cup {Elsewhere}, WalletSelects(a) PROVE Inv'
  <2>1. news' \in [Tabs -> Seq(Accounts \cup {Elsewhere})]
    BY <1>0, <1>4 DEF WalletSelects, TypeOK
  <2>2. TypeOK'
    BY <1>0, <1>4, <2>1 DEF WalletSelects, TypeOK, storage, results, sdk
  <2>3. (\A u \in Tabs : True(u)') /\ RolesAgree'
    BY <1>4 DEF WalletSelects, Inv, True, RolesAgree, storage, results, sdk
  <2> QED BY <2>2, <2>3 DEF Inv
<1> QED BY <1>1, <1>2, <1>3, <1>4

(* Reloading: the page keeps nothing.                                      *)
LEMMA Loads ==
    ASSUME TypeOK, RolesAgree, NEW t \in Tabs, LoadsRoles(t), events' = events \ {t}, saved' = saved
    PROVE  /\ roles' \in [Tabs -> RoleMap] /\ unsaved' \subseteq Tabs /\ events' \subseteq Tabs
           /\ \A u \in Tabs \ {t} : roles'[u] = roles[u]
           /\ RolesAgree'
<1>1. NoRoles \in RoleMap /\ Distinct(NoRoles)
  BY DEF NoRoles, RoleMap, Distinct, Bound
<1>2. \E m \in {saved, NoRoles} :
        /\ roles' = [roles EXCEPT ![t] = m]
        /\ m # saved => t \in unsaved'
        /\ unsaved' \subseteq Tabs /\ unsaved \subseteq unsaved' \cup {t}
  BY DEF LoadsRoles, TypeOK
<1>3. PICK m \in {saved, NoRoles} :
        /\ roles' = [roles EXCEPT ![t] = m]
        /\ m # saved => t \in unsaved'
        /\ unsaved' \subseteq Tabs /\ unsaved \subseteq unsaved' \cup {t}
  BY <1>2
<1>4. m \in RoleMap /\ Distinct(m)
  BY <1>1 DEF TypeOK, RolesAgree
<1>5. \A u \in Tabs : roles'[u] = IF u = t THEN m ELSE roles[u]
  BY <1>3 DEF TypeOK
<1>6. \A u \in Tabs : Distinct(roles'[u])
  BY <1>4, <1>5 DEF RolesAgree
<1>7. \A u \in Tabs \ (events' \cup unsaved') : roles'[u] = saved'
  BY <1>3, <1>5 DEF RolesAgree
<1>8. Distinct(saved')
  BY DEF RolesAgree
<1>9. Distinct(saved)' /\ \A u \in Tabs : Distinct(roles[u])'
  BY <1>6, <1>8 DEF Distinct, Bound
<1>10. RolesAgree'
  BY <1>7, <1>9 DEF RolesAgree
<1> QED BY <1>3, <1>4, <1>5, <1>10 DEF TypeOK

LEMMA ReloadsInv ==
    ASSUME Inv, NEW t \in Tabs, Reloads(t)
    PROVE  Inv'
<1>0. TypeOK /\ Held
  BY DEF Inv, TypeOK, Held
<1>1. Held' /\ task' = [task EXCEPT ![t] = Idle]
  BY <1>0, FinishKeeps DEF Reloads
<1>2. None \in Results /\ <<>> \in Seq(Accounts \cup {Elsewhere})
  BY DEF Results
<1>3. TypeOK'
  BY <1>0, <1>1, <1>2, Loads DEF TypeOK, Held, Reloads, Inv
<1>4. ASSUME NEW u \in Tabs PROVE True(u)'
  <2>1. CASE u = t
    <3>1. PageTrue(session'[t], roles'[t], connected'[t], Idle, None, None, t \in attempted', NoCheck)
      BY Kinds DEF PageTrue, ResultTrue, Idle
    <3>2. task'[t] = Idle /\ review'[t] = None /\ credential'[t] = None /\ checked'[t] = NoCheck
      BY <1>0, <1>1 DEF Reloads, TypeOK
    <3> QED BY <2>1, <3>1, <3>2 DEF True
  <2>2. CASE u # t
    <3>1. True(u)
      BY DEF Inv
    <3>2. /\ session'[u] = session[u] /\ roles'[u] = roles[u] /\ connected'[u] = connected[u]
          /\ task'[u] = task[u] /\ review'[u] = review[u] /\ credential'[u] = credential[u]
          /\ (u \in attempted') = (u \in attempted) /\ checked'[u] = checked[u]
      BY <1>0, <1>1, <2>2, Loads DEF Reloads, TypeOK, Inv
    <3> QED BY <3>1, <3>2 DEF True
  <2> QED BY <2>1, <2>2
<1>5. RolesAgree'
  BY Loads DEF Inv, Reloads
<1> QED BY <1>3, <1>4, <1>5 DEF Inv

-----------------------------------------------------------------------------
(* The roles.                                                              *)
LEMMA ChangesInv ==
    ASSUME Inv, NEW t \in Tabs, NEW new \in RoleMap, Distinct(new), ChangesRoles(t, new)
    PROVE  Inv'
<1>0. TypeOK /\ RolesAgree
  BY DEF Inv
<1>1. roles' = [roles EXCEPT ![t] = new]
  BY DEF ChangesRoles
<1>2. Heard(t, task[t])
  BY <1>0, <1>1 DEF ChangesRoles, Heard, links, results, TypeOK
<1>3. Held' /\ session' \in [Tabs -> Nat] /\ checked' \in [Tabs -> Nat \cup {NoCheck}]
      /\ \A u \in Tabs : True(u)'
  BY <1>2, HeardKeeps
<1> USE DEF SavesRoles
<1>4. saved' \in RoleMap /\ events' \subseteq Tabs /\ unsaved' \subseteq Tabs
  BY <1>0 DEF ChangesRoles, TypeOK
<1>5. TypeOK'
  BY <1>0, <1>1, <1>3, <1>4 DEF TypeOK, Held, ChangesRoles, links, results
<1>6. RolesAgree'
  <2>1. Distinct(saved) /\ \A u \in Tabs : Distinct(roles[u])
    BY <1>0 DEF RolesAgree
  <2>2. \A u \in Tabs : roles'[u] = IF u = t THEN new ELSE roles[u]
    BY <1>0, <1>1 DEF TypeOK
  <2>3. saved' = saved \/ saved' = new
    BY DEF ChangesRoles
  <2>4. Distinct(saved')
    BY <2>1, <2>3
  <2>5. \A u \in Tabs : Distinct(roles'[u])
    BY <2>1, <2>2
  <2>6. ASSUME NEW u \in Tabs \ (events' \cup unsaved') PROVE roles'[u] = saved'
    <3>1. u \notin events /\ u \notin unsaved => roles[u] = saved
      BY <1>0 DEF RolesAgree
    <3> QED BY <2>2, <2>6, <3>1 DEF ChangesRoles
  <2>7. Distinct(saved)' /\ \A u \in Tabs : Distinct(roles[u])'
    BY <2>4, <2>5 DEF Distinct, Bound
  <2> QED BY <2>6, <2>7 DEF RolesAgree
<1> QED BY <1>3, <1>5, <1>6 DEF Inv

LEMMA RolesActions ==
    ASSUME Inv, NEW t \in Tabs
    PROVE  /\ \A role \in Roles : Binds(t, role) => Inv'
           /\ \A role \in Roles : Clears(t, role) => Inv'
           /\ HearsStorage(t) => Inv'
<1>0. TypeOK /\ RolesAgree /\ roles[t] \in RoleMap /\ Distinct(roles[t])
  BY DEF Inv, TypeOK, RolesAgree
<1>1. ASSUME NEW role \in Roles, Binds(t, role) PROVE Inv'
  <2> DEFINE new == [roles[t] EXCEPT ![role] = connected[t]]
  <2>1. new \in RoleMap
    BY <1>0, <1>1 DEF Binds, Ready, RoleMap
  <2>2. \A r \in Roles : new[r] = IF r = role THEN connected[t] ELSE roles[t][r]
    BY <1>0 DEF RoleMap
  <2>3. \A r \in Roles : roles[t][r] # NoAccount => roles[t][r] # connected[t]
    BY <1>1 DEF Binds, MayBind, Bound
  <2>4. Distinct(new)
    BY <1>0, <2>2, <2>3 DEF Distinct, Bound
  <2>5. ChangesRoles(t, new)
    BY <1>1 DEF Binds
  <2> QED BY <2>1, <2>4, <2>5, ChangesInv
<1>2. ASSUME NEW role \in Roles, Clears(t, role) PROVE Inv'
  <2> DEFINE new == [roles[t] EXCEPT ![role] = NoAccount]
  <2>1. new \in RoleMap
    BY <1>0 DEF RoleMap
  <2>2. \A r \in Roles : new[r] = IF r = role THEN NoAccount ELSE roles[t][r]
    BY <1>0 DEF RoleMap
  <2>3. Distinct(new)
    BY <1>0, <2>2 DEF Distinct, Bound
  <2>4. ChangesRoles(t, new)
    BY <1>2 DEF Clears
  <2> QED BY <2>1, <2>3, <2>4, ChangesInv
<1>3. ASSUME HearsStorage(t) PROVE Inv'
  <2>1. /\ saved' = saved
        /\ roles' \in [Tabs -> RoleMap] /\ unsaved' \subseteq Tabs /\ events' \subseteq Tabs
        /\ \A u \in Tabs \ {t} : roles'[u] = roles[u]
        /\ RolesAgree'
    BY <1>0, <1>3, Loads DEF HearsStorage
  <2>2. Heard(t, task[t])
    BY <1>0, <1>3, <2>1 DEF HearsStorage, Heard, links, results
  <2>3. Held' /\ session' \in [Tabs -> Nat] /\ checked' \in [Tabs -> Nat \cup {NoCheck}]
        /\ \A u \in Tabs : True(u)'
    BY <2>2, HeardKeeps
  <2>4. TypeOK'
    BY <1>0, <1>3, <2>1, <2>3 DEF TypeOK, Held, HearsStorage, links, results
  <2> QED BY <2>1, <2>3, <2>4 DEF Inv
<1> QED BY <1>1, <1>2, <1>3

-----------------------------------------------------------------------------
(* The handlers.                                                           *)
LEMMA NotLocked ==
    ASSUME TypeOK, NEW t \in Tabs, task[t] \notin Checked \/ task[t].next \notin SignPoints
    PROVE  lock # t
BY AccountsAssumption DEF TypeOK

LEMMA CheckedFacts ==
    ASSUME Inv, NEW t \in Tabs, task[t].step \in Steps
    PROVE  LET c == task[t]
           IN  /\ c \in Checked /\ c.next \in NextOf(c.step)
               /\ c.session \in Nat /\ c.roles \in RoleMap /\ c.role \in Roles
               /\ OfPage(session[t], roles[t], connected[t], c)
<1>1. task[t] \in Checked
  BY KindOf DEF Inv, TypeOK
<1> QED BY <1>1, CheckedRecords DEF Inv, True, PageTrue

(* After a check the handler is of its page.                               *)
LEMMA ChecksInv ==
    ASSUME Inv, NEW t \in Tabs, NEW next \in ReviewPoints \cup SignPoints, Check(t, task[t], next),
           UNCHANGED <<links, storage, session, lock, results, sdk>>,
           task[t].step \in Steps \cup {"looking"},
           lock = t => next \in SignPoints
    PROVE  Inv'
<1> DEFINE c == task[t]
           d == Checking(c, next)
<1>0. TypeOK /\ session[t] \in Nat
  BY DEF Inv, TypeOK
<1>1. c.session \in Nat /\ c.roles \in RoleMap /\ c.role \in Roles
          /\ OfRoles(session[t], roles[t], c)
  <2>1. CASE c.step = "looking"
    <3>1. c \in Looking
      BY <1>0, <2>1, KindOf DEF TypeOK
    <3> QED BY <3>1 DEF Looking, Inv, True, PageTrue
  <2>2. CASE c.step \in Steps
    BY <2>2, CheckedFacts DEF OfPage
  <2> QED BY <2>1, <2>2
<1>2. /\ Goto(t, d) /\ d \in Checked /\ d \in Task /\ d.next = next
      /\ d.session = session[t] /\ d.session = c.session /\ d.roles = c.roles
      /\ d.roles[d.role] = connected[t]
  BY <1>0, <1>1, CheckLeads
<1> HIDE DEF c, d
<1>3. OfPage(session[t], roles[t], connected[t], d)
  BY <1>0, <1>1, <1>2 DEF OfPage, OfRoles
<1>4. Passes(t, d)
  BY <1>2 DEF Passes
<1>5. d \notin Looking /\ d \notin Reading
  BY <1>2, Kinds
<1> QED BY <1>2, <1>3, <1>4, <1>5, PassesInv

(* An answered handler, or one that is answered, goes on to step x.        *)
LEMMA StepsInv ==
    ASSUME Inv, NEW t \in Tabs, task[t].step \in Steps, NEW x \in Steps, task[t].next \in NextOf(x),
           Goto(t, [task[t] EXCEPT !.step = x]),
           UNCHANGED <<links, storage, session, lock, results, sdk>>
    PROVE  Inv'
<1> DEFINE c == task[t]
           d == [c EXCEPT !.step = x]
<1>1. c \in Checked /\ OfPage(session[t], roles[t], connected[t], c)
  BY CheckedFacts
<1>2. /\ d \in Checked /\ d \in Task /\ d.next = c.next
      /\ d.session = c.session /\ d.roles = c.roles /\ d.role = c.role
  BY <1>1, StepOf
<1>3. Passes(t, d)
  BY DEF Passes
<1>4. lock = t => c.next \in SignPoints
  BY NotLocked DEF Inv
<1> HIDE DEF c, d
<1>5. OfPage(session[t], roles[t], connected[t], d)
  BY <1>1, <1>2 DEF OfPage, OfRoles
<1>6. d \notin Looking /\ d \notin Reading
  BY <1>2, Kinds
<1> QED BY <1>2, <1>3, <1>4, <1>5, <1>6, PassesInv

LEMMA ReviewActions ==
    ASSUME Inv, NEW t \in Tabs
    PROVE  /\ \A role \in Roles : ReviewStarts(t, role) => Inv'
           /\ ReviewChecks(t) => Inv'
           /\ ReviewConfigures(t) => Inv'
           /\ ReviewRechecks(t) => Inv'
           /\ ReviewEnds(t) => Inv'
           /\ WalletAnswers(t) => Inv'
<1>0. TypeOK /\ session[t] \in Nat /\ roles[t] \in RoleMap /\ task[t] \in Task
  BY DEF Inv, TypeOK
<1>1. ASSUME NEW role \in Roles, ReviewStarts(t, role) PROVE Inv'
  <2> DEFINE d == [step |-> "looking", session |-> session[t], roles |-> roles[t], role |-> role]
  <2>1. d \in Looking /\ OfRoles(session[t], roles[t], d)
    BY <1>0 DEF Looking, OfRoles
  <2>2. Passes(t, d)
    BY <1>1 DEF ReviewStarts, Passes
  <2>3. lock # t
    BY <1>0, <1>1, NotLocked, Kinds DEF ReviewStarts
  <2> HIDE DEF d
  <2> QED BY <2>1, <2>2, <2>3, Kinds, PassesInv
<1>2. ASSUME ReviewChecks(t) PROVE Inv'
  <2>1. task[t] \in Looking
    BY <1>0, <1>2, KindOf DEF ReviewChecks
  <2>2. lock # t
    BY <1>0, <2>1, NotLocked, Kinds
  <2> QED BY <1>2, <2>2, ChecksInv DEF ReviewChecks, ReviewPoints
<1>3. ASSUME ReviewConfigures(t) PROVE Inv'
  BY <1>3, StepsInv DEF ReviewConfigures, Answered, Steps, NextOf
<1>4. ASSUME ReviewRechecks(t) PROVE Inv'
  <2>1. task[t].step \in Steps /\ task[t].next \in NextOf("configuring")
    BY <1>4, CheckedFacts DEF ReviewRechecks, Steps
  <2>2. lock # t
    BY <1>0, <2>1, NotLocked DEF NextOf, SignPoints
  <2> QED BY <1>4, <2>1, <2>2, ChecksInv DEF ReviewRechecks, ReviewPoints
<1>5. ASSUME ReviewEnds(t) PROVE Inv'
  <2> DEFINE rv == Reviewed(task[t])
  <2>1. task[t].step \in Steps
    BY <1>5 DEF ReviewEnds, Answered, Steps
  <2>2. /\ task[t].session \in Nat /\ task[t].roles \in RoleMap /\ task[t].role \in Roles
        /\ OfPage(session[t], roles[t], connected[t], task[t])
    BY <2>1, CheckedFacts
  <2>3. rv \in Results /\ ResultTrue(session[t], roles[t], connected[t], rv)
    BY <2>2 DEF Reviewed, Results, ResultTrue, OfPage, OfRoles
  <2>4. /\ Finish(t) /\ UNCHANGED <<links, storage, session>>
        /\ review' = [review EXCEPT ![t] = rv]
        /\ credential' = [credential EXCEPT ![t] = credential[t]]
        /\ checked' = [checked EXCEPT ![t] = checked[t]]
        /\ attempted' = attempted /\ loaded' \subseteq Tabs
    BY <1>0, <1>5 DEF ReviewEnds, sdk, TypeOK
  <2>5. /\ credential[t] \in Results /\ checked[t] \in Nat \cup {NoCheck}
        /\ ResultTrue(session[t], roles[t], connected[t], credential[t])
        /\ checked[t] # NoCheck => checked[t] = session[t] /\ t \in attempted
    BY DEF Inv, TypeOK, True, PageTrue
  <2> HIDE DEF rv
  <2> QED BY <2>3, <2>4, <2>5, EndsInv
<1>6. ASSUME WalletAnswers(t) PROVE Inv'
  <2>1. task[t].step \in Steps /\ task[t].next \in NextOf("checking")
    BY <1>6, CheckedFacts DEF WalletAnswers, Steps
  <2>2. task[t].next \in NextOf("answered")
    BY <2>1 DEF NextOf
  <2> QED BY <1>6, <2>1, <2>2, StepsInv DEF WalletAnswers, Steps
<1> QED BY <1>1, <1>2, <1>3, <1>4, <1>5, <1>6

LEMMA SignActions ==
    ASSUME Inv, NEW t \in Tabs
    PROVE  /\ SignStarts(t) => Inv'
           /\ SignGoesOn(t) => Inv'
           /\ WalletSigns(t) => Inv'
           /\ SignVerified(t) => Inv'
           /\ SignEnds(t) => Inv'
<1>0. TypeOK /\ Held /\ session[t] \in Nat /\ task[t] \in Task /\ review[t] \in Results
  BY DEF Inv, TypeOK, Held
<1>1. ASSUME SignStarts(t) PROVE Inv'
  <2> DEFINE c == review[t]
             d == Checking(c, "prompt")
  <2>1. c.session \in Nat /\ c.roles \in RoleMap /\ c.role \in Roles
    BY <1>0, <1>1 DEF SignStarts, Results
  <2>2. /\ Goto(t, d) /\ d \in Checked /\ d \in Task /\ d.next = "prompt"
        /\ d.session = session[t] /\ d.session = c.session /\ d.roles = c.roles
        /\ d.roles[d.role] = connected[t]
    BY <1>0, <1>1, <2>1, CheckLeads DEF SignStarts, SignPoints
  <2>3. OfPage(session[t], roles[t], connected[t], c)
    BY <1>1 DEF SignStarts, Inv, True, PageTrue, ResultTrue
  <2> HIDE DEF c, d
  <2>4. OfPage(session[t], roles[t], connected[t], d)
    BY <1>0, <2>2, <2>3 DEF OfPage, OfRoles
  <2>5. task' = [task EXCEPT ![t] = d] /\ task'[t] = d /\ lock' = t
    BY <1>0, <1>1, <2>2 DEF Goto, SignStarts, Held
  <2>6. Held'
    BY <1>0, <2>2, <2>5 DEF Held, SignPoints
  <2>7. TypeOK'
    BY <1>0, <1>1, <2>6 DEF TypeOK, Held, SignStarts, links, storage, results, sdk
  <2>8. Going(t)
    BY <1>0, <1>1, <2>5 DEF Going, SignStarts, links, storage, results, sdk, Held
  <2>9. PageTrue(session[t], roles[t], connected[t], d, review[t], credential[t],
                 t \in attempted, checked[t])
    BY <2>2, <2>4, Kinds DEF Inv, True, PageTrue
  <2>10. review' = review /\ credential' = credential /\ attempted' = attempted /\ checked' = checked
    BY <1>1 DEF SignStarts, results, sdk
  <2>11. \A u \in Tabs : True(u)'
    BY <2>5, <2>8, <2>9, <2>10, GoingKeeps
  <2>12. RolesAgree'
    BY <1>1 DEF Inv, RolesAgree, SignStarts, storage
  <2> QED BY <2>7, <2>11, <2>12 DEF Inv
<1>2. ASSUME SignGoesOn(t) PROVE Inv'
  <2> DEFINE x == IF task[t].next = "prompt" THEN "asked" ELSE "verifying"
  <2>1. task[t].step \in Steps /\ x \in Steps /\ task[t].next \in NextOf(x)
    BY <1>2 DEF SignGoesOn, Answered, Steps, NextOf
  <2>2. Goto(t, [task[t] EXCEPT !.step = x])
    BY <1>2 DEF SignGoesOn
  <2> HIDE DEF x
  <2> QED BY <1>2, <2>1, <2>2, StepsInv DEF SignGoesOn
<1>3. ASSUME WalletSigns(t) PROVE Inv'
  BY <1>3, ChecksInv DEF WalletSigns, Steps, SignPoints
<1>4. ASSUME SignVerified(t) PROVE Inv'
  <2>1. task[t].step \in Steps /\ task[t].next \in NextOf("verifying")
    BY <1>4, CheckedFacts DEF SignVerified, Steps
  <2>2. task[t].next \in {"verify", "negatives"}
    BY <2>1 DEF NextOf
  <2>3. After(task[t].next) \in SignPoints
    BY <2>2 DEF After, SignPoints
  <2> QED BY <1>4, <2>1, <2>3, ChecksInv DEF SignVerified
<1>5. ASSUME SignEnds(t) PROVE Inv'
  <2> DEFINE cr == Reviewed(task[t])
  <2>1. task[t].step \in Steps
    BY <1>5 DEF SignEnds, Answered, Steps
  <2>2. /\ task[t].session \in Nat /\ task[t].roles \in RoleMap /\ task[t].role \in Roles
        /\ OfPage(session[t], roles[t], connected[t], task[t])
    BY <2>1, CheckedFacts
  <2>3. cr \in Results /\ ResultTrue(session[t], roles[t], connected[t], cr)
    BY <2>2 DEF Reviewed, Results, ResultTrue, OfPage, OfRoles
  <2>4. /\ Finish(t) /\ UNCHANGED <<links, storage, session>>
        /\ review' = [review EXCEPT ![t] = review[t]]
        /\ credential' = [credential EXCEPT ![t] = cr]
        /\ checked' = [checked EXCEPT ![t] = checked[t]]
        /\ attempted' = attempted /\ loaded' \subseteq Tabs
    BY <1>0, <1>5 DEF SignEnds, sdk, TypeOK
  <2>5. /\ review[t] \in Results /\ checked[t] \in Nat \cup {NoCheck}
        /\ ResultTrue(session[t], roles[t], connected[t], review[t])
        /\ checked[t] # NoCheck => checked[t] = session[t] /\ t \in attempted
    BY DEF Inv, TypeOK, True, PageTrue
  <2> HIDE DEF cr
  <2> QED BY <2>3, <2>4, <2>5, EndsInv
<1> QED BY <1>1, <1>2, <1>3, <1>4, <1>5

(* The page begins or cancels a check: it has no SDK check to show.        *)
LEMMA ShowsNothing ==
    ASSUME Inv, NEW t \in Tabs, NEW c \in Task, Goto(t, c), c \notin Looking, c \notin Checked,
           lock # t, NEW att \in SUBSET Tabs, attempted' = att,
           \A u \in Tabs \ {t} : u \in att <=> u \in attempted,
           c \in Reading => t \in att /\ (c.wanted = TRUE => c.session = session[t]),
           checked' = [checked EXCEPT ![t] = NoCheck],
           UNCHANGED <<links, storage, session, lock, results, loaded>>
    PROVE  Inv'
<1>0. TypeOK /\ Held
  BY DEF Inv, TypeOK, Held
<1>1. Held' /\ task' = [task EXCEPT ![t] = c]
  BY <1>0, GotoKeeps DEF Goto
<1>2. TypeOK'
  BY <1>0, <1>1 DEF TypeOK, Held, links, storage, results
<1>3. task'[t] = c /\ checked'[t] = NoCheck
  BY <1>0, <1>1 DEF TypeOK
<1>4. Going(t)
  BY <1>0, <1>1 DEF Going, links, storage, results, TypeOK
<1>5. PageTrue(session[t], roles[t], connected[t], c, review[t], credential[t], t \in att, NoCheck)
  BY DEF PageTrue, Inv, True
<1>6. review' = review /\ credential' = credential
  BY DEF results
<1>7. \A u \in Tabs : True(u)'
  BY <1>3, <1>4, <1>5, <1>6, GoingKeeps
<1>8. RolesAgree'
  BY DEF Inv, RolesAgree, storage
<1> QED BY <1>2, <1>7, <1>8 DEF Inv

LEMMA SdkActions ==
    ASSUME Inv, NEW t \in Tabs
    PROVE  /\ Connects(t) => Inv'
           /\ PreparesSdk(t) => Inv'
           /\ SdkPrepared(t) => Inv'
           /\ ChecksSdk(t) => Inv'
           /\ Cancels(t) => Inv'
           /\ SdkChecked(t) => Inv'
           /\ ChecksDeployment(t) => Inv'
           /\ (NetworkPasses(t) \/ ContractsPass(t) \/ BytecodePasses(t) \/ ConfigPasses(t)) => Inv'
           /\ Fails(t) => Inv'
<1>0. /\ TypeOK /\ session[t] \in Nat /\ task[t] \in Task
      /\ review[t] \in Results /\ credential[t] \in Results /\ checked[t] \in Nat \cup {NoCheck}
      /\ ResultTrue(session[t], roles[t], connected[t], review[t])
      /\ ResultTrue(session[t], roles[t], connected[t], credential[t])
      /\ checked[t] # NoCheck => checked[t] = session[t] /\ t \in attempted
  BY DEF Inv, TypeOK, True, PageTrue
<1>1. task[t] = Idle => lock # t
  BY <1>0, NotLocked, Kinds
<1>2. task[t].step = "reading" => task[t] \in Reading /\ lock # t
  BY <1>0, NotLocked, Kinds, KindOf
<1>3. review' = review => review' = [review EXCEPT ![t] = review[t]]
  BY <1>0 DEF TypeOK
<1>4. credential' = credential => credential' = [credential EXCEPT ![t] = credential[t]]
  BY <1>0 DEF TypeOK
<1>5. checked' = checked => checked' = [checked EXCEPT ![t] = checked[t]]
  BY <1>0 DEF TypeOK
<1>6. ASSUME Connects(t) PROVE Inv'
  <2>1. Passes(t, [step |-> "connecting"])
    BY <1>6 DEF Connects, Passes
  <2> QED BY <1>1, <1>6, <2>1, Kinds, PassesInv DEF Connects
<1>7. ASSUME PreparesSdk(t) PROVE Inv'
  <2>1. Passes(t, [step |-> "loading"])
    BY <1>7 DEF PreparesSdk, Passes
  <2> QED BY <1>1, <1>7, <2>1, Kinds, PassesInv DEF PreparesSdk
<1>8. ASSUME SdkPrepared(t) PROVE Inv'
  <2>1. /\ Finish(t) /\ UNCHANGED <<links, storage, session>>
        /\ review' = review /\ credential' = credential /\ checked' = checked
        /\ attempted' = attempted /\ loaded' \subseteq Tabs
    BY <1>0, <1>8 DEF SdkPrepared, results, TypeOK
  <2> QED BY <1>0, <1>3, <1>4, <1>5, <2>1, EndsInv
<1>9. ASSUME ChecksSdk(t) PROVE Inv'
  <2> DEFINE c == [step |-> "reading", at |-> "network", session |-> session[t], wanted |-> TRUE]
             att == attempted \cup {t}
  <2>1. c \in Reading /\ c.session = session[t]
    BY <1>0 DEF Reading, Points
  <2>2. /\ Goto(t, c) /\ attempted' = att /\ checked' = [checked EXCEPT ![t] = NoCheck]
        /\ UNCHANGED <<links, storage, session, lock, results, loaded>>
    BY <1>9 DEF ChecksSdk
  <2>3. att \in SUBSET Tabs /\ t \in att /\ \A u \in Tabs \ {t} : u \in att <=> u \in attempted
    BY <1>0 DEF TypeOK
  <2>4. lock # t
    BY <1>1, <1>9 DEF ChecksSdk
  <2> HIDE DEF c, att
  <2> QED BY <2>1, <2>2, <2>3, <2>4, Kinds, ShowsNothing
<1>10. ASSUME Cancels(t) PROVE Inv'
  <2> DEFINE c == Unwanted(task[t])
  <2>1. task[t] \in Reading /\ lock # t
    BY <1>2, <1>10 DEF Cancels
  <2>2. c \in Reading /\ c.wanted = FALSE
    BY <2>1 DEF Unwanted, Reading
  <2>3. t \in attempted /\ attempted \in SUBSET Tabs
    BY <2>1 DEF Inv, TypeOK, True, PageTrue
  <2>4. /\ Goto(t, c) /\ attempted' = attempted /\ checked' = [checked EXCEPT ![t] = NoCheck]
        /\ UNCHANGED <<links, storage, session, lock, results, loaded>>
    BY <1>10 DEF Cancels
  <2> HIDE DEF c
  <2> QED BY <2>1, <2>2, <2>3, <2>4, Kinds, ShowsNothing
<1>11. ASSUME SdkChecked(t) PROVE Inv'
  <2> DEFINE k == IF task[t].wanted THEN task[t].session ELSE checked[t]
  <2>1. task[t] \in Reading
    BY <1>2, <1>11 DEF SdkChecked
  <2>2. t \in attempted /\ (task[t].wanted = TRUE => task[t].session = session[t])
    BY <2>1 DEF Inv, True, PageTrue
  <2>3. k \in Nat \cup {NoCheck} /\ (k # NoCheck => k = session[t] /\ t \in attempted)
    BY <1>0, <2>1, <2>2 DEF Reading
  <2>4. checked' = [checked EXCEPT ![t] = k]
    BY <1>0, <1>11 DEF SdkChecked, TypeOK
  <2>5. /\ Finish(t) /\ UNCHANGED <<links, storage, session>>
        /\ review' = review /\ credential' = credential
        /\ attempted' = attempted /\ loaded' \subseteq Tabs
    BY <1>0, <1>11 DEF SdkChecked, results, TypeOK
  <2> HIDE DEF k
  <2> QED BY <1>0, <1>3, <1>4, <2>3, <2>4, <2>5, EndsInv
<1>12. ASSUME ChecksDeployment(t) PROVE Inv'
  <2> DEFINE c == [step |-> "deployment", at |-> "network"]
             att == attempted \ {t}
  <2>1. /\ Goto(t, c) /\ attempted' = att /\ checked' = [checked EXCEPT ![t] = NoCheck]
        /\ UNCHANGED <<links, storage, session, lock, results, loaded>>
    BY <1>12 DEF ChecksDeployment
  <2>2. c \in Task /\ c \notin Looking /\ c \notin Checked /\ c \notin Reading
    <3>1. c \in Deploying
      BY DEF Deploying, Points
    <3> QED BY <3>1, Kinds
  <2>3. att \in SUBSET Tabs /\ \A u \in Tabs \ {t} : u \in att <=> u \in attempted
    BY <1>0 DEF TypeOK
  <2>4. lock # t
    BY <1>1, <1>12 DEF ChecksDeployment
  <2> HIDE DEF c, att
  <2> QED BY <2>1, <2>2, <2>3, <2>4, ShowsNothing
<1>13. ASSUME Fails(t) PROVE Inv'
  <2>1. /\ Finish(t) /\ UNCHANGED <<links, storage, session>>
        /\ review' = review /\ credential' = credential /\ checked' = checked
        /\ attempted' = attempted /\ loaded' \subseteq Tabs
    BY <1>0, <1>13 DEF Fails, results, sdk, TypeOK
  <2> QED BY <1>0, <1>3, <1>4, <1>5, <2>1, EndsInv
<1>14. ASSUME NEW from, NEW to \in Points, GoesOn(t, from, to) PROVE Inv'
  <2> DEFINE c == [task[t] EXCEPT !.at = to]
  <2>1. Passes(t, c)
    BY <1>14 DEF GoesOn, Passes
  <2>2. CASE task[t].step = "reading"
    <3>1. task[t] \in Reading /\ lock # t
      BY <1>2, <2>2
    <3>2. t \in attempted /\ (task[t].wanted = TRUE => task[t].session = session[t])
      BY <3>1 DEF Inv, True, PageTrue
    <3>3. c \in Reading /\ c.wanted = task[t].wanted /\ c.session = task[t].session
      BY <3>1 DEF Reading
    <3> HIDE DEF c
    <3> QED BY <2>1, <3>1, <3>2, <3>3, Kinds, PassesInv
  <2>3. CASE task[t].step = "deployment"
    <3>1. task[t] \in Deploying /\ lock # t
      BY <1>0, <2>3, NotLocked, Kinds, KindOf
    <3>2. c \in Deploying
      BY <3>1 DEF Deploying
    <3> HIDE DEF c
    <3> QED BY <2>1, <3>1, <3>2, Kinds, PassesInv
  <2> QED BY <1>14, <2>2, <2>3 DEF GoesOn
<1>15. ASSUME NetworkPasses(t) \/ ContractsPass(t) \/ BytecodePasses(t) \/ ConfigPasses(t) PROVE Inv'
  BY <1>14, <1>15 DEF NetworkPasses, ContractsPass, BytecodePasses, ConfigPasses, Points
<1> QED BY <1>6, <1>7, <1>8, <1>9, <1>10, <1>11, <1>12, <1>13, <1>15

-----------------------------------------------------------------------------
LEMMA Initially == Init => Inv
<1> SUFFICES ASSUME Init PROVE Inv
  OBVIOUS
<1>1. None \in Results /\ Idle \in Task /\ saved \in RoleMap /\ Distinct(saved)
  BY Kinds, SavedAssumption DEF Init, Results, Idle, RoleMap
<1>2. /\ TypeOK
  BY <1>1 DEF Init, TypeOK
<1>3. ASSUME NEW t \in Tabs PROVE True(t)
  BY <1>1, Kinds DEF Init, True, PageTrue, ResultTrue, Idle
<1>4. RolesAgree
  BY <1>1 DEF Init, RolesAgree
<1> QED BY <1>2, <1>3, <1>4 DEF Inv

LEMMA Inductive == Inv /\ [Next]_vars => Inv'
<1> SUFFICES ASSUME Inv, [Next]_vars PROVE Inv'
  OBVIOUS
<1>1. CASE UNCHANGED vars
  BY <1>1 DEF vars, Inv, TypeOK, True, RolesAgree
<1>2. ASSUME NEW a \in Accounts \cup {Elsewhere}, WalletSelects(a), Tabs # {} PROVE Inv'
  BY <1>2, WalletActions
<1>3. ASSUME NEW t \in Tabs, Page(t) PROVE Inv'
  BY <1>3, RolesActions, ReloadsInv DEF Page
<1>4. ASSUME NEW t \in Working, Works(t) PROVE Inv'
  <2>1. t \in Tabs
    BY SavedAssumption
  <2>2. (HearsNews(t) \/ Connected(t) \/ Disconnects(t)) => Inv'
    BY <2>1, WalletActions
  <2>3. (\E role \in Roles : Binds(t, role)) => Inv'
    BY <2>1, RolesActions
  <2>4. (\/ \E role \in Roles : ReviewStarts(t, role)
         \/ ReviewChecks(t) \/ ReviewConfigures(t) \/ ReviewRechecks(t) \/ ReviewEnds(t)
         \/ WalletAnswers(t)) => Inv'
    BY <2>1, ReviewActions
  <2>5. (SignStarts(t) \/ SignGoesOn(t) \/ WalletSigns(t) \/ SignVerified(t) \/ SignEnds(t)) => Inv'
    BY <2>1, SignActions
  <2>6. (\/ Connects(t) \/ PreparesSdk(t) \/ SdkPrepared(t) \/ ChecksSdk(t) \/ Cancels(t)
         \/ SdkChecked(t) \/ ChecksDeployment(t)
         \/ NetworkPasses(t) \/ ContractsPass(t) \/ BytecodePasses(t) \/ ConfigPasses(t)
         \/ Fails(t)) => Inv'
    BY <2>1, SdkActions
  <2> QED BY <1>4, <2>2, <2>3, <2>4, <2>5, <2>6 DEF Works
<1>5. ASSUME NEW a \in Accounts \cup {Elsewhere}, WalletSelects(a), Tabs = {} PROVE Inv'
  <2>1. TypeOK'
    BY <1>5 DEF WalletSelects, Inv, TypeOK, storage, results, sdk
  <2> QED BY <1>5, <2>1 DEF Inv, RolesAgree, WalletSelects, storage
<1> QED BY <1>1, <1>2, <1>3, <1>4, <1>5 DEF Next

LEMMA Always == Spec => []Inv
BY Initially, Inductive, PTL DEF Spec

(* Types: a page that holds the Web Lock is signing, with a review that    *)
(* was checked.                                                            *)
THEOREM TypeCorrect == Spec => []TypeOK
<1>1. Inv => TypeOK
  BY DEF Inv
<1> QED BY <1>1, Always, PTL

(* Whatever the wallet and the other pages do meanwhile, what a page made  *)
(* in its present session is of the account and the roles that it has now. *)
THEOREM SessionStandsForAll == Spec => []SessionIsTrue
<1>1. Inv => SessionIsTrue
  <2> SUFFICES ASSUME Inv, NEW t \in Tabs
               PROVE  /\ IsOfSession(t, review[t])
                      /\ IsOfSession(t, credential[t])
                      /\ checked[t] \in {NoCheck, session[t]}
    BY DEF SessionIsTrue
  <2>1. True(t) /\ session[t] \in Nat /\ None.session \notin Nat
    BY DEF Inv, TypeOK, None
  <2>2. \A c : ResultTrue(session[t], roles[t], connected[t], c) => IsOfSession(t, c)
    BY <2>1 DEF ResultTrue, OfPage, OfRoles, IsOfSession
  <2> QED BY <2>1, <2>2 DEF True, PageTrue
<1> QED BY <1>1, Always, PTL

(* However the pages overwrite each other's roles, no account has two of   *)
(* them, and a page that saves and has heard everything shows what is      *)
(* saved.                                                                  *)
THEOREM RolesComeToAgree == Spec => []RolesAgree
<1>1. Inv => RolesAgree
  BY DEF Inv
<1> QED BY <1>1, Always, PTL

-----------------------------------------------------------------------------
(***************************************************************************)
(* What the postinstall scripts promise, and that it reaches the pages.    *)
(* The invariant says how far an installation has come: every script       *)
(* before the one under way has patched all its files, and this one all    *)
(* but those that it still has to write.  A stopped one promises nothing.  *)
(***************************************************************************)

S == SdkInstall!Scripts
Contents == {"original", "patched", "other"}

PatchedBefore(s) == \A o \in 1..3 : o < s => \A i \in DOMAIN S[o] : content[o][i] = "patched"

(* Script s still has to write the files p, and f is half written.         *)
Left(s, p, f) ==
    /\ PatchedBefore(s)
    /\ \A i \in DOMAIN S[s] : i \notin p /\ i \notin f => content[s][i] = "patched"
    /\ s \in SdkInstall!Patchers => \A i \in p : content[s][i] = "original"

Halfway(s, p, i) == [step |-> "halfway", script |-> s, file |-> i, pending |-> p]

InstallTrue ==
    \/ install = SdkInstall!Stopped
    \/ install = SdkInstall!Installed /\ PatchedBefore(4)
    \/ \E s \in 1..3 : install = SdkInstall!Checking(s) /\ PatchedBefore(s)
    \/ \E s \in 1..3 : \E p \in SUBSET DOMAIN S[s] :
          install = SdkInstall!Writing(s, p) /\ Left(s, p, {})
    \/ \E s \in 1..3 : \E p \in SUBSET DOMAIN S[s] : \E i \in DOMAIN S[s] :
          install = Halfway(s, p, i) /\ i \notin p /\ Left(s, p, {i})

ContentType ==
    /\ DOMAIN content = 1..3
    /\ content = [s \in 1..3 |-> content[s]]
    /\ \A s \in 1..3 : content[s] \in [DOMAIN S[s] -> Contents]

InstallInv == ContentType /\ InstallTrue

BuildInv ==
    /\ InstallInv
    /\ served \in BOOLEAN
    /\ served = TRUE => install = SdkInstall!Installed
    /\ served = FALSE => loaded = {}

-----------------------------------------------------------------------------
LEMMA ThreeScripts == DOMAIN S = 1..3 /\ Len(S) = 3
BY DEF S, SdkInstall!Scripts

LEMMA OutputsFirst == S[1] = SdkInstall!outputs
BY DEF S, SdkInstall!Scripts

LEMMA OriginalType ==
    LET o == SdkInstall!Original
    IN  /\ DOMAIN o = 1..3 /\ o = [s \in 1..3 |-> o[s]]
        /\ \A s \in 1..3 : o[s] \in [DOMAIN S[s] -> Contents]
BY ThreeScripts DEF SdkInstall!Original, S, Contents

(* One file changes.                                                       *)
LEMMA OneWritten ==
    ASSUME ContentType, NEW s \in 1..3, NEW i \in DOMAIN S[s], NEW x \in Contents,
           content' = [content EXCEPT ![s][i] = x]
    PROVE  /\ ContentType'
           /\ \A o \in 1..3 : \A j \in DOMAIN S[o] :
                 content'[o][j] = IF o = s /\ j = i THEN x ELSE content[o][j]
BY DEF ContentType

LEMMA Steps4 ==
    ASSUME InstallTrue
    PROVE  /\ install.step = "writing" =>
                \E s \in 1..3 : \E p \in SUBSET DOMAIN S[s] :
                   install = SdkInstall!Writing(s, p) /\ Left(s, p, {})
           /\ install.step = "halfway" =>
                \E s \in 1..3 : \E p \in SUBSET DOMAIN S[s] : \E i \in DOMAIN S[s] :
                   install = Halfway(s, p, i) /\ i \notin p /\ Left(s, p, {i})
           /\ install.step = "checking" =>
                \E s \in 1..3 : install = SdkInstall!Checking(s) /\ PatchedBefore(s)
           /\ install.step = "installed" => install = SdkInstall!Installed /\ PatchedBefore(4)
<1> USE DEF Halfway, SdkInstall!Stopped, SdkInstall!Installed, SdkInstall!Checking, SdkInstall!Writing
<1>1. CASE install = SdkInstall!Stopped
  BY <1>1
<1>2. CASE install = SdkInstall!Installed /\ PatchedBefore(4)
  BY <1>2
<1>3. CASE \E s \in 1..3 : install = SdkInstall!Checking(s) /\ PatchedBefore(s)
  BY <1>3
<1>4. CASE \E s \in 1..3 : \E p \in SUBSET DOMAIN S[s] :
              install = SdkInstall!Writing(s, p) /\ Left(s, p, {})
  BY <1>4
<1>5. CASE \E s \in 1..3 : \E p \in SUBSET DOMAIN S[s] : \E i \in DOMAIN S[s] :
              install = Halfway(s, p, i) /\ i \notin p /\ Left(s, p, {i})
  <2>1. install.step = "halfway"
    BY <1>5
  <2> QED BY <1>5, <2>1
<1> QED BY <1>1, <1>2, <1>3, <1>4, <1>5 DEF InstallTrue

LEMMA InstallStarts == SdkInstall!Init => InstallInv
BY OriginalType DEF SdkInstall!Init, InstallInv, ContentType, InstallTrue

LEMMA InstallGoesOn == InstallInv /\ SdkInstall!Next => InstallInv'
<1> SUFFICES ASSUME InstallInv, SdkInstall!Next PROVE InstallInv'
  OBVIOUS
<1> USE DEF InstallInv
<1>1. CASE SdkInstall!Extracts
  <2> DEFINE o == SdkInstall!Original
  <2>1. \/ content' = o
        \/ \E s \in 1..3 : \E i \in DOMAIN content[s] : content' = [o EXCEPT ![s][i] = "other"]
    BY <1>1 DEF SdkInstall!Extracts, ContentType
  <2>2. \A s \in 1..3 : DOMAIN content[s] = DOMAIN S[s]
    BY DEF ContentType
  <2>3. ContentType'
    BY <2>1, <2>2, OriginalType DEF ContentType, Contents
  <2>4. InstallTrue'
    BY <1>1 DEF SdkInstall!Extracts, InstallTrue
  <2> QED BY <2>3, <2>4
<1>2. CASE SdkInstall!Starts
  <2>1. PatchedBefore(1)'
    BY DEF PatchedBefore
  <2>2. install' = SdkInstall!Checking(1) /\ content' = content
    BY <1>2 DEF SdkInstall!Starts
  <2> QED BY <2>1, <2>2 DEF InstallTrue, ContentType
<1>3. CASE SdkInstall!Stages
  <2>1. Left(1, DOMAIN S[1], {})'
    BY DEF Left, PatchedBefore, SdkInstall!Patchers
  <2>2. install' = SdkInstall!Writing(1, DOMAIN S[1]) /\ content' = content
    BY <1>3, OutputsFirst DEF SdkInstall!Stages
  <2> QED BY <2>1, <2>2 DEF InstallTrue, ContentType
<1>4. CASE SdkInstall!Validates
  <2>1. PICK s \in SdkInstall!Patchers :
           SdkInstall!Valid(s) /\ install' = SdkInstall!Writing(s, SdkInstall!Unpatched(s))
    BY <1>4 DEF SdkInstall!Validates
  <2>2. content' = content /\ s \in 1..3
    BY <1>4 DEF SdkInstall!Validates, SdkInstall!Patchers
  <2>3. install = SdkInstall!Checking(s) /\ PatchedBefore(s)
    BY <1>4, <2>1, Steps4 DEF SdkInstall!Validates, SdkInstall!Valid, SdkInstall!Checking
  <2>4. DOMAIN content[s] = DOMAIN S[s] /\ \A i \in DOMAIN S[s] : content[s][i] \in Contents
    BY <2>2 DEF ContentType
  <2>5. Left(s, SdkInstall!Unpatched(s), {})
    BY <2>1, <2>3, <2>4
    DEF Left, SdkInstall!Unpatched, SdkInstall!Valid, SdkInstall!Expected, Contents
  <2>6. SdkInstall!Unpatched(s) \in SUBSET DOMAIN S[s]
    BY <2>4 DEF SdkInstall!Unpatched
  <2>7. PICK p \in SUBSET DOMAIN S[s] : p = SdkInstall!Unpatched(s)
    BY <2>6
  <2>8. install' = SdkInstall!Writing(s, p) /\ Left(s, p, {})
    BY <2>1, <2>5, <2>7
  <2>9. Left(s, p, {})'
    BY <2>2, <2>8 DEF Left, PatchedBefore
  <2>10. InstallTrue'
    BY <2>2, <2>8, <2>9 DEF InstallTrue
  <2> QED BY <2>2, <2>10 DEF ContentType
<1>5. CASE SdkInstall!WriteStarts
  <2>1. PICK s \in 1..3 : \E p \in SUBSET DOMAIN S[s] :
           install = SdkInstall!Writing(s, p) /\ Left(s, p, {})
    BY <1>5, Steps4 DEF SdkInstall!WriteStarts
  <2>2. PICK p \in SUBSET DOMAIN S[s] : install = SdkInstall!Writing(s, p) /\ Left(s, p, {})
    BY <2>1
  <2>3. install.script = s /\ install.pending = p
    BY <2>2 DEF SdkInstall!Writing
  <2>4. PICK i \in p : content' = [content EXCEPT ![s][i] = "other"] /\ install' = Halfway(s, p \ {i}, i)
    BY <1>5, <2>3 DEF SdkInstall!WriteStarts, Halfway
  <2>5. /\ ContentType'
        /\ \A o \in 1..3 : \A j \in DOMAIN S[o] :
              content'[o][j] = IF o = s /\ j = i THEN "other" ELSE content[o][j]
    BY <2>4, OneWritten DEF Contents
  <2>6. Left(s, p \ {i}, {i})'
    BY <2>2, <2>5 DEF Left, PatchedBefore
  <2>7. p \ {i} \in SUBSET DOMAIN S[s] /\ i \in DOMAIN S[s] /\ i \notin p \ {i}
    OBVIOUS
  <2> QED BY <2>4, <2>5, <2>6, <2>7 DEF InstallTrue
<1>6. CASE SdkInstall!WriteEnds
  <2>1. PICK s \in 1..3 : \E p \in SUBSET DOMAIN S[s] : \E i \in DOMAIN S[s] :
           install = Halfway(s, p, i) /\ i \notin p /\ Left(s, p, {i})
    BY <1>6, Steps4 DEF SdkInstall!WriteEnds
  <2>2. PICK p \in SUBSET DOMAIN S[s], i \in DOMAIN S[s] :
           install = Halfway(s, p, i) /\ i \notin p /\ Left(s, p, {i})
    BY <2>1
  <2>3. install.script = s /\ install.pending = p /\ install.file = i
    BY <2>2 DEF Halfway
  <2>4. content' = [content EXCEPT ![s][i] = "patched"] /\ install' = SdkInstall!Writing(s, p)
    BY <1>6, <2>3 DEF SdkInstall!WriteEnds
  <2>5. /\ ContentType'
        /\ \A o \in 1..3 : \A j \in DOMAIN S[o] :
              content'[o][j] = IF o = s /\ j = i THEN "patched" ELSE content[o][j]
    BY <2>4, OneWritten DEF Contents
  <2>6. Left(s, p, {})'
    BY <2>2, <2>5 DEF Left, PatchedBefore
  <2> QED BY <2>4, <2>5, <2>6 DEF InstallTrue
<1>7. CASE SdkInstall!ScriptEnds
  <2>1. PICK s \in 1..3 : \E p \in SUBSET DOMAIN S[s] :
           install = SdkInstall!Writing(s, p) /\ Left(s, p, {})
    BY <1>7, Steps4 DEF SdkInstall!ScriptEnds
  <2>2. install.script = s /\ Left(s, {}, {}) /\ content' = content
    <3>1. PICK p \in SUBSET DOMAIN S[s] : install = SdkInstall!Writing(s, p) /\ Left(s, p, {})
      BY <2>1
    <3>2. install.script = s /\ install.pending = p
      BY <3>1 DEF SdkInstall!Writing
    <3>3. p = {}
      BY <1>7, <3>2 DEF SdkInstall!ScriptEnds
    <3> QED BY <1>7, <3>1, <3>2, <3>3 DEF SdkInstall!ScriptEnds
  <2>3. PatchedBefore(s + 1)'
    BY <2>2 DEF Left, PatchedBefore
  <2>4. install' = IF s = 3 THEN SdkInstall!Installed ELSE SdkInstall!Checking(s + 1)
    BY <1>7, <2>2, ThreeScripts DEF SdkInstall!ScriptEnds, S
  <2>5. InstallTrue'
    BY <2>3, <2>4 DEF InstallTrue
  <2> QED BY <2>2, <2>5 DEF ContentType
<1>8. CASE SdkInstall!Stops
  BY <1>8 DEF SdkInstall!Stops, InstallTrue, ContentType
<1> QED BY <1>1, <1>2, <1>3, <1>4, <1>5, <1>6, <1>7, <1>8 DEF SdkInstall!Next

(* A patch that changes a file writes one of those left, all its files     *)
(* being published ones or patched.                                        *)
LEMMA PatchesAllOrNothing ==
    ASSUME InstallInv, SdkInstall!Next, install.step = "writing",
           NEW s \in SdkInstall!Patchers, NEW i \in DOMAIN content[s], content'[s][i] # content[s][i]
    PROVE  content[s][i] = "original" /\ SdkInstall!Expected(s)
<1>1. SdkInstall!WriteStarts
  BY DEF SdkInstall!Next, SdkInstall!Extracts, SdkInstall!Starts, SdkInstall!Stages, SdkInstall!Validates,
         SdkInstall!WriteEnds, SdkInstall!ScriptEnds, SdkInstall!Stops, SdkInstall!Checking
<1>2. PICK o \in 1..3 : \E p \in SUBSET DOMAIN S[o] :
         install = SdkInstall!Writing(o, p) /\ Left(o, p, {})
  BY Steps4 DEF InstallInv
<1>3. PICK p \in SUBSET DOMAIN S[o] : install = SdkInstall!Writing(o, p) /\ Left(o, p, {})
  BY <1>2
<1>4. install.script = o /\ install.pending = p
  BY <1>3 DEF SdkInstall!Writing
<1>5. PICK j \in p : content' = [content EXCEPT ![o][j] = "other"]
  BY <1>1, <1>4 DEF SdkInstall!WriteStarts
<1>6. s \in 1..3 /\ DOMAIN content[s] = DOMAIN S[s] /\ j \in DOMAIN S[o]
  BY DEF InstallInv, ContentType, SdkInstall!Patchers
<1>7. content'[s][i] = IF s = o /\ i = j THEN "other" ELSE content[s][i]
  BY <1>5, <1>6, OneWritten DEF InstallInv, Contents
<1>8. s = o /\ i = j
  BY <1>7
<1>9. \A k \in DOMAIN S[s] : content[s][k] \in {"original", "patched"}
  BY <1>3, <1>8 DEF Left
<1> QED BY <1>3, <1>6, <1>8, <1>9 DEF Left, SdkInstall!Expected

-----------------------------------------------------------------------------
LEMMA BuildStarts == BuildInit => BuildInv
BY InstallStarts DEF BuildInit, BuildInv, Init

LEMMA BuildGoesOn == BuildInv /\ [BuildNext]_<<vars, build>> => BuildInv'
<1> SUFFICES ASSUME BuildInv, [BuildNext]_<<vars, build>> PROVE BuildInv'
  OBVIOUS
<1>1. CASE UNCHANGED <<vars, build>>
  BY <1>1 DEF BuildInv, InstallInv, ContentType, InstallTrue, Left, PatchedBefore, vars, build
<1>2. CASE ~served /\ Installs
  BY <1>2, InstallGoesOn DEF Installs, BuildInv, vars
<1>3. CASE ~served /\ Serves
  BY <1>3 DEF Serves, BuildInv, InstallInv, ContentType, InstallTrue, Left, PatchedBefore
<1>4. CASE served /\ Next /\ UNCHANGED build
  BY <1>4 DEF BuildInv, InstallInv, ContentType, InstallTrue, Left, PatchedBefore, build
<1> QED BY <1>1, <1>2, <1>3, <1>4 DEF BuildNext

(* However often the installation is stopped and begun again, a page has   *)
(* only an SDK loaded all of whose files are patched.                      *)
THEOREM PagesHaveThePatches == BuildSpec => []LoadedIsPatched
<1>1. BuildInv => LoadedIsPatched
  <2> SUFFICES ASSUME BuildInv, loaded # {}, NEW s \in DOMAIN content, NEW i \in DOMAIN content[s]
               PROVE  content[s][i] = "patched"
    BY DEF LoadedIsPatched
  <2>1. install = SdkInstall!Installed
    BY DEF BuildInv
  <2>2. PatchedBefore(4)
    BY <2>1, Steps4 DEF BuildInv, InstallInv, SdkInstall!Installed
  <2>3. s \in 1..3 /\ i \in DOMAIN S[s]
    BY DEF BuildInv, InstallInv, ContentType
  <2> QED BY <2>2, <2>3 DEF PatchedBefore
<1> QED BY <1>1, BuildStarts, BuildGoesOn, PTL DEF BuildSpec

(* A patch that finds a file it does not expect changes none of its files. *)
THEOREM NoPatchByHalves == BuildSpec => AllOrNothing
<1>1. BuildInv /\ [BuildNext]_<<vars, build>> =>
        [install.step = "writing" =>
            \A s \in SdkInstall!Patchers : \A i \in DOMAIN content[s] :
                content'[s][i] # content[s][i] =>
                    content[s][i] = "original" /\ SdkInstall!Expected(s)]_(SdkInstall!vars)
  <2> SUFFICES ASSUME BuildInv, BuildNext, install.step = "writing",
                      NEW s \in SdkInstall!Patchers, NEW i \in DOMAIN content[s],
                      content'[s][i] # content[s][i]
               PROVE  content[s][i] = "original" /\ SdkInstall!Expected(s)
    BY DEF vars, build, SdkInstall!vars
  <2>1. SdkInstall!Next
    BY DEF BuildNext, Serves, Installs, build
  <2> QED BY <2>1, PatchesAllOrNothing DEF BuildInv
<1> QED BY <1>1, BuildStarts, BuildGoesOn, PTL DEF BuildSpec, AllOrNothing, SdkInstall!AllOrNothing

(* The pages of a build behave as WalletSession says, so that what holds   *)
(* there holds of them.                                                    *)
THEOREM PagesAreSessions == BuildSpec => Spec
<1>1. BuildInit => Init
  BY DEF BuildInit
<1>2. [BuildNext]_<<vars, build>> => [Next]_vars
  BY DEF BuildNext, Installs, Serves, build
<1> QED BY <1>1, <1>2, PTL DEF BuildSpec, Spec
=============================================================================
