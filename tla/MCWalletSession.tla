--------------------------- MODULE MCWalletSession ---------------------------
(* Two pages, one of them with a wallet of three accounts, to which all    *)
(* the roles were bound on an earlier visit.  That page has up to three    *)
(* sessions after its first: it connects, and hears of another account and *)
(* of the first one again, or the roles change in between.                 *)
EXTENDS BrowserBuild, TLC
CONSTANTS a, b, x, y, z

MCTabs == {a, b}
MCAccounts == {x, y, z}
MCIdOf == x :> 1 @@ y :> 2 @@ z :> 3
MCAll == "Admin" :> x @@ "Seller" :> y @@ "Buyer" :> z
MCSavedBefore == {MCAll}
MCWorking == {a}
MCMaxSession == a :> 3 @@ b :> 2

(* What is of an earlier session, or not wanted, stays so, and nothing can *)
(* come of it.                                                             *)
Present(t, c) ==
    CASE c.step = "reading" -> IF c.wanted THEN c ELSE [step |-> "unwanted"]
      [] c.step # "reading" /\ "session" \in DOMAIN c /\ c.session # session[t] -> [step |-> "stale"]
      [] OTHER -> c
Shown(t, c) == IF c.session = session[t] THEN c ELSE None
View ==
    <<wallet, news, connected, storage, session, lock, sdk, build,
      [t \in MCTabs |-> Present(t, task[t])],
      [t \in MCTabs |-> Shown(t, review[t])], [t \in MCTabs |-> Shown(t, credential[t])]>>
=============================================================================
