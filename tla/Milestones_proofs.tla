-------------------------- MODULE Milestones_proofs --------------------------
(***************************************************************************)
(* Theorems about the journals of the earlier milestones (Milestones), for *)
(* any number of tabs, any bounds and any starts: what T02 to T05 record,  *)
(* lock and recover in the browser.                                        *)
(*                                                                         *)
(* One hypothesis is needed (CarefulStarts), about T04 alone: that users   *)
(* restore evidence while no handler runs, and that no transaction fails   *)
(* for lack of gas.  The code does not enforce either, and without the     *)
(* second one TLC finds a journal that is wrong.                           *)
(*                                                                         *)
(* The invariants: T03, T04 and T05 keep a journal of records, and the     *)
(* long one, JournalInv, is theirs.  It says of each record what it may    *)
(* claim (RecordTrue), of each tab what it has read and may still write,   *)
(* of the lock who may write, and of the operations which are exposed: at  *)
(* most one that may yet be sent.  T02, whose journal is one record and    *)
(* whose recovery takes no lock, has CreationInv.  That what is unsettled  *)
(* can be recovered needs what the preflights found as well (Preflights):  *)
(* each operation was ready in the state in front of its transaction.      *)
(***************************************************************************)
EXTENDS Milestones, FiniteSetTheorems, SequenceTheorems, WellFoundedInduction, TLAPS

(* A start in T04 comes with users who restore exported evidence only      *)
(* while no handler runs (restoreHoldEvidence takes no lock), and with     *)
(* transactions that fail only by the contract's rules (recoverHold takes  *)
(* the first record that has the hash or is unresolved with the action).   *)
CarefulStarts ==
    \A start \in Starts : start[1] = "t04" => RestoresAlone /\ "t04" \notin Reverting

-----------------------------------------------------------------------------
(***************************************************************************)
(* What the variables hold.                                                *)
(***************************************************************************)
Hashes == Nat \cup WrongHashes
RecordRows == [op : Nat, status : Statuses, hash : Hashes]
IntentRows == [action : AllActions, hold : Hashes, expiry : Nat, state : Int, digest : BOOLEAN]
TxRows == [op : Nat, status : {"sent", "ok", "failed"}, state : Nat, time : Nat]
ReviewRows ==
    [action : AllActions, hold : Hashes, expiry : Nat, state : Nat, journal : Seq(RecordRows)]

RunRows == [step : {"running", "probed", "simulating"}, records : Seq(RecordRows)]
AskRows == [step : {"intended", "connected", "asked"}, op : Nat, records : Seq(RecordRows)]
SentRows == [step : {"sent", "polling"}, op : Nat, hash : Nat, records : Seq(RecordRows)]
RecheckRows == [step : {"rechecking"}, left : Seq(RecordRows)]
ReadRows == [step : {"read"}, state : Nat, time : Nat]
RecoverRows ==
    [step : {"recovering", "confirmed"}, found : SUBSET Nat, hash : Hashes, action : AllActions,
     records : Seq(RecordRows), left : Seq(RecordRows), expects : Statuses \cup {NotForReview}]
RestoreRows ==
    [step : {"restoring"}, found : SUBSET Nat, records : Seq(RecordRows), record : RecordRows]
Handlers ==
    {Idle} \cup RunRows \cup AskRows \cup SentRows \cup RecheckRows \cup ReadRows
        \cup RecoverRows \cup RestoreRows

Ops == DOMAIN intents
Shapes ==
    /\ milestone \in {"t02", "t03", "t04", "t05"}
    /\ maxOps \in Nat /\ time \in Nat
    /\ exports \subseteq RecordRows
    /\ intents \in Seq(IntentRows)
    /\ journal \in Seq(RecordRows)
    /\ lock \in Tabs \cup {NoTab}
    /\ tabs \in [Tabs -> Handlers]
    /\ reviews \in [Tabs -> {NoReview} \cup ReviewRows]
    /\ orphans \subseteq Ops
    /\ txs \in Seq(TxRows)
    /\ chain \in Seq(Nat)

(***************************************************************************)
(* Operations that the wallet may still be asked for or send (Unsent), or  *)
(* whose transaction is not mined (Sending).                               *)
(***************************************************************************)
Asking == {"intended", "connected", "asked"}
Unsent == orphans \cup {tabs[t].op : t \in {u \in Tabs : tabs[u].step \in Asking}}
Sending == {txs[h].op : h \in InFlight}
Exposed == Unsent \cup Sending

(* Restoring, alone, is without the lock.                                  *)
Locks ==
    /\ LockHeld
    /\ \A t \in Tabs : tabs[t].step = "restoring" =>
          /\ InT04 /\ exports # {} /\ lock = NoTab
          /\ \A u \in Tabs : tabs[u].step = "restoring" => u = t

(* Every operation is sent once, and every action succeeds once.           *)
Ledger ==
    /\ \A h \in DOMAIN txs : txs[h].op \in Ops \ Unsent
    /\ \A h, k \in DOMAIN txs : txs[h].op = txs[k].op => h = k
    /\ \A t \in Tabs : tabs[t].step \in Asking => tabs[t].op \in Ops \ orphans
    /\ \A i \in DOMAIN chain : chain[i] \in DOMAIN txs /\ txs[chain[i]].status = "ok"
    /\ \A h \in DOMAIN txs : txs[h].status = "ok" => \E i \in DOMAIN chain : chain[i] = h
    /\ \A i, j \in DOMAIN chain : TxAction(chain[i]) = TxAction(chain[j]) => i = j

-----------------------------------------------------------------------------
(***************************************************************************)
(* The journal of T03, T04 and T05.                                        *)
(***************************************************************************)
(* If op is sent, it is with this hash.                                    *)
Own(op, hash) ==
    /\ op \notin Unsent
    /\ \A h \in DOMAIN txs : txs[h].op = op => h = hash

RecordTrue(r) ==
    /\ r.op \in Ops /\ r.status # "mismatch"
    /\ r.hash \in {NoHash} \cup WrongHashes \cup DOMAIN txs
    /\ Resolved(r) \/ r.hash \in DOMAIN txs => Own(r.op, r.hash)
    /\ r.hash \in DOMAIN txs => Call(r.op) = Call(txs[r.hash].op)
    /\ Resolved(r) /\ r.hash # NoHash =>
         Mined(r.hash) /\ (Outcome(r.hash) = "complete") = (r.status = "complete")

(* An unresolved record without a hash claims the turn of its operation;   *)
(* there is one turn, and nothing is exposed without.                      *)
Claims(r) == ~Resolved(r) /\ r.hash = NoHash
Claimed == Exposed \cup {r.op : r \in {q \in Members(journal) : Claims(q)}}

RecordsTrue == \A r \in Members(journal) : RecordTrue(r) /\ (InT03 => r.hash \notin WrongHashes)
OneClaim == \A x, y \in Claimed : x = y
ExposedKnown == \A op \in Exposed : \E r \in Members(journal) : r.op = op /\ ~Resolved(r)
ExposedNew == \A op \in Exposed : Action(op) \notin Did(Now)
Single(records) == \A i, j \in DOMAIN records : records[i].op = records[j].op => i = j
OneRecord == exports = {} \/ ~InT04 => Single(journal)
ExportsTrue ==
    \A e \in exports :
       /\ RecordTrue(e) /\ e.status = "complete"
       /\ e.hash # NoHash => e.hash \in DOMAIN txs /\ txs[e.hash].op = e.op
       /\ e.hash = NoHash => \/ InT04 /\ Action(e.op) \in HoldSimulations
                             \/ InT05 /\ Action(e.op) \in TradeSimulations

(* But for the time, the token lets it happen.                             *)
HoldReady(op) ==
    /\ Action(op) \in {"create-hold", "buyer-kyc", "execute", "release"}
    /\ Action(op) \in {"execute", "release"} =>
          intents[op].hold \in HashOf("create-hold", Now) /\ "buyer-kyc" \in Did(Now)
    /\ Action(op) = "release" => "execute" \in Did(Now)

(* T04 tells an operation from all others by its calldata, since one fails *)
(* only by its expiry.                                                     *)
HoldsTrue ==
    InT04 =>
    /\ \A op \in Claimed : \A h \in DOMAIN txs : txs[h].op # op => Call(txs[h].op) # Call(op)
    /\ \A h \in DOMAIN txs : txs[h].status = "failed" => time >= intents[txs[h].op].expiry
    /\ \A op \in Exposed : HoldReady(op)

JournalTrue ==
    RecordsTrue /\ OneClaim /\ ExposedKnown /\ ExposedNew /\ OneRecord /\ ExportsTrue /\ HoldsTrue

-----------------------------------------------------------------------------
(***************************************************************************)
(* The handlers of T03, T04 and T05 between two steps.                     *)
(***************************************************************************)
Known(op) == \E r \in Members(journal) : r.op = op
Hashed(op, hashes) == \A r \in Members(journal) : r.op = op => r.hash \in hashes
Awaits(op) == \A r \in Members(journal) : IF r.op = op THEN Claims(r) ELSE Resolved(r)
Unhashed(hash) == \A r \in Members(journal) : r.hash # hash
Opened(op) == \A r \in Members(journal) : r.op = op /\ r.hash = NoHash => ~Resolved(r)

LeftTrue(left) ==
    \A r \in Members(left) :
       /\ RecordTrue(r) /\ r.hash \in DOMAIN txs
       /\ InT03 => \E q \in Members(journal) : q.hash = r.hash

(* The hash is that of op, or T04 will find that it is not.                *)
Matched(op, hash) ==
    hash \in DOMAIN txs =>
       \/ Own(op, hash) /\ Call(op) = Call(txs[hash].op)
       \/ InT04 /\ Mined(hash) /\ Call(op) # Call(txs[hash].op)

RunTrue(t) ==
    /\ tabs[t].records = journal /\ reviews[t] # NoReview
    /\ tabs[t].step = "simulating" => InT04
    /\ InT04 /\ tabs[t].step = "probed" => reviews[t].action \notin HoldSimulations
AskTrue(t) ==
    tabs[t].records = journal /\ tabs[t].step # "connected" /\ Awaits(tabs[t].op)
SentTrue(t) ==
    LET c == tabs[t]
    IN  /\ c.records = journal /\ Known(c.op)
        /\ c.hash \in DOMAIN txs /\ txs[c.hash].op = c.op
        /\ IF c.step = "sent" THEN Awaits(c.op) /\ Unhashed(c.hash) ELSE InT03 /\ Hashed(c.op, {c.hash})
RecoverTrue(t) ==
    LET c == tabs[t]
    IN  /\ c.records = journal /\ LeftTrue(c.left)
        /\ c.hash \in WrongHashes \cup DOMAIN txs
        /\ \A op \in c.found : op \in Ops /\ Known(op) /\ Action(op) = c.action
        /\ \A o, p \in c.found : o = p
        /\ InT05 => c.found # {}
        /\ c.step = "recovering" =>
              \A op \in c.found : /\ Matched(op, c.hash) /\ Hashed(op, {NoHash, c.hash})
                                  /\ InT03 => Opened(op)
        /\ c.step = "confirmed" =>
              /\ c.found # {} /\ Mined(c.hash)
              /\ \A op \in c.found : /\ Own(op, c.hash) /\ Hashed(op, {c.hash})
                                     /\ Call(op) = Call(txs[c.hash].op)
RestoreTrue(t) ==
    LET c == tabs[t]
    IN  /\ c.records = journal
        /\ RecordTrue(c.record) /\ ~Claims(c.record)
        /\ c.found # {}
        /\ \A op \in c.found : op \in Ops /\ op \notin Exposed

HandlerTrue(t) ==
    /\ tabs[t] \in RunRows => RunTrue(t)
    /\ tabs[t] \in AskRows => AskTrue(t)
    /\ tabs[t] \in SentRows => SentTrue(t)
    /\ tabs[t] \in RecheckRows => LeftTrue(tabs[t].left)
    /\ tabs[t] \in RecoverRows => RecoverTrue(t)
    /\ tabs[t] \in RestoreRows => RestoreTrue(t)

(* A review of T04 or T05 offers what the journal it shows has.            *)
ReviewTrue(t) ==
    reviews[t] # NoReview =>
       /\ \A r \in Members(reviews[t].journal) : r.op \in Ops
       /\ InT04 /\ reviews[t].action # "create-hold" =>
             reviews[t].hold \in HoldHash(reviews[t].journal)

PagesTrue == \A t \in Tabs : HandlerTrue(t) /\ ReviewTrue(t)

-----------------------------------------------------------------------------
(* A position of Pick is that of an element kept, its rank among them.     *)
LEMMA PickPositions ==
    ASSUME NEW keep \in SUBSET Nat, IsFiniteSet(keep), NEW n \in 1..Cardinality(keep)
    PROVE  /\ \E i \in keep : Cardinality({j \in keep : j <= i}) = n
           /\ \A i, k \in keep :
                 Cardinality({j \in keep : j <= i}) = Cardinality({j \in keep : j <= k}) => i = k
<1> DEFINE Rank(i) == Cardinality({j \in keep : j <= i})
<1>1. \A i \in keep : IsFiniteSet({j \in keep : j <= i})
  <2> SUFFICES ASSUME NEW i \in keep PROVE IsFiniteSet({j \in keep : j <= i})
    OBVIOUS
  <2> QED
    BY FS_Subset, {j \in keep : j <= i} \in SUBSET keep
<1>2. \A i \in keep : Rank(i) \in 1..Cardinality(keep)
  <2> SUFFICES ASSUME NEW i \in keep PROVE Rank(i) \in 1..Cardinality(keep)
    OBVIOUS
  <2>1. Rank(i) \in Nat /\ Rank(i) <= Cardinality(keep) /\ Cardinality(keep) \in Nat
    BY <1>1, FS_Subset, FS_CardinalityType, {j \in keep : j <= i} \in SUBSET keep
  <2>2. Rank(i) # 0
    BY <1>1, FS_EmptySet, i \in {j \in keep : j <= i}
  <2> QED
    BY <2>1, <2>2
<1>3. \A i, k \in keep : i < k => Rank(i) < Rank(k)
  <2> SUFFICES ASSUME NEW i \in keep, NEW k \in keep, i < k PROVE Rank(i) < Rank(k)
    OBVIOUS
  <2> DEFINE S == {j \in keep : j <= i}
             T == {j \in keep : j <= k}
  <2>0. i \in Nat /\ k \in Nat /\ \A j \in keep : j \in Nat
    OBVIOUS
  <2>1. S \in SUBSET T /\ k \in T /\ k \notin S
    <3>1. \A j \in S : j \in T
      BY <2>0
    <3>2. k \in T /\ k \notin S
      BY <2>0
    <3> QED
      BY <3>1, <3>2
  <2>2. Cardinality(S) <= Cardinality(T) /\ (Cardinality(S) = Cardinality(T) => S = T)
    BY <1>1, <2>1, FS_Subset
  <2>3. Cardinality(S) \in Nat /\ Cardinality(T) \in Nat
    BY <1>1, FS_CardinalityType
  <2> QED
    BY <2>1, <2>2, <2>3
<1>4. \A i, k \in keep : Rank(i) = Rank(k) => i = k
  BY <1>2, <1>3
<1>5. \E i \in keep : Rank(i) = n
  <2> DEFINE f == [i \in keep |-> Rank(i)]
  <2>1. f \in Injection(keep, 1..Cardinality(keep))
    BY <1>2, <1>4 DEF Injection, IsInjective
  <2>2. Cardinality(keep) \in Nat
    BY FS_CardinalityType
  <2>3. IsFiniteSet(1..Cardinality(keep)) /\ Cardinality(1..Cardinality(keep)) = Cardinality(keep)
    BY <2>2, FS_Interval
  <2>4. f \in Surjection(keep, 1..Cardinality(keep))
    BY <2>1, <2>3, FS_Injection
  <2> QED
    BY <2>4 DEF Surjection
<1> QED
  BY <1>4, <1>5

(* Pick keeps what is at the positions kept, each once.                    *)
LEMMA PickKeeps ==
    ASSUME NEW S, NEW s \in Seq(S), NEW keep \in SUBSET (DOMAIN s)
    PROVE  /\ Pick(s, keep) \in Seq(S)
           /\ Members(Pick(s, keep)) = {s[i] : i \in keep}
           /\ \A x, y \in DOMAIN Pick(s, keep) : x # y =>
                 \E i, j \in keep : i # j /\ Pick(s, keep)[x] = s[i] /\ Pick(s, keep)[y] = s[j]
<1> DEFINE Rank(i) == Cardinality({j \in keep : j <= i})
           n == Cardinality(keep)
           at == [x \in 1..n |-> CHOOSE i \in keep : Rank(i) = x]
<1>1. keep \in SUBSET Nat /\ IsFiniteSet(keep) /\ n \in Nat
  <2>1. keep \in SUBSET (1..Len(s)) /\ Len(s) \in Nat
    OBVIOUS
  <2>2. IsFiniteSet(keep)
    BY <2>1, FS_Interval, FS_Subset
  <2> QED
    BY <2>1, <2>2, FS_CardinalityType
<1>2. \A x \in 1..n : at[x] \in keep /\ Rank(at[x]) = x
  <2> SUFFICES ASSUME NEW x \in 1..n PROVE at[x] \in keep /\ Rank(at[x]) = x
    OBVIOUS
  <2>1. \E i \in keep : Rank(i) = x
    BY <1>1, PickPositions
  <2> QED
    BY <2>1
<1>3. \A i \in keep : Rank(i) \in 1..n
  <2> SUFFICES ASSUME NEW i \in keep PROVE Rank(i) \in 1..n
    OBVIOUS
  <2> DEFINE T == {j \in keep : j <= i}
  <2>1. IsFiniteSet(T) /\ Cardinality(T) <= n
    BY <1>1, FS_Subset, T \in SUBSET keep
  <2>2. Cardinality(T) \in Nat /\ Cardinality(T) # 0
    BY <1>1, <2>1, FS_EmptySet, FS_CardinalityType, i \in T
  <2> QED
    BY <2>1, <2>2, <1>1
<1>4. \A i \in keep : at[Rank(i)] = i
  <2> SUFFICES ASSUME NEW i \in keep PROVE at[Rank(i)] = i
    OBVIOUS
  <2>1. at[Rank(i)] \in keep /\ Rank(at[Rank(i)]) = Rank(i)
    BY <1>2, <1>3
  <2> QED
    BY <2>1, <1>1, <1>3, PickPositions
<1>5. Pick(s, keep) = [x \in 1..n |-> s[at[x]]]
  BY DEF Pick
<1> HIDE DEF Rank, at, n
<1>6. Pick(s, keep) \in Seq(S)
  BY <1>1, <1>2, <1>5
<1>7. DOMAIN Pick(s, keep) = 1..n
  BY <1>5
<1>8. Members(Pick(s, keep)) = {s[i] : i \in keep}
  BY <1>2, <1>3, <1>4, <1>5, <1>7 DEF Members
<1>9. \A x, y \in DOMAIN Pick(s, keep) : x # y =>
         \E i, j \in keep : i # j /\ Pick(s, keep)[x] = s[i] /\ Pick(s, keep)[y] = s[j]
  BY <1>2, <1>5, <1>7
<1> QED
  BY <1>6, <1>8, <1>9

-----------------------------------------------------------------------------
(* The step of a handler says what else it has.                            *)
LEMMA HandlerRows ==
    ASSUME NEW c \in Handlers
    PROVE  /\ c = Idle <=> c.step = "idle"
           /\ c \in RunRows <=> c.step \in {"running", "probed", "simulating"}
           /\ c \in AskRows <=> c.step \in {"intended", "connected", "asked"}
           /\ c \in SentRows <=> c.step \in {"sent", "polling"}
           /\ c \in RecheckRows <=> c.step = "rechecking"
           /\ c \in ReadRows <=> c.step = "read"
           /\ c \in RecoverRows <=> c.step \in {"recovering", "confirmed"}
           /\ c \in RestoreRows <=> c.step = "restoring"
           /\ c.step \in Steps
<1>1. CASE c = Idle
  BY <1>1 DEF Idle, RunRows, AskRows, SentRows, RecheckRows, ReadRows, RecoverRows, RestoreRows, Steps
<1>2. CASE c \in RunRows
  BY <1>2 DEF Idle, RunRows, AskRows, SentRows, RecheckRows, ReadRows, RecoverRows, RestoreRows, Steps
<1>3. CASE c \in AskRows
  BY <1>3 DEF Idle, RunRows, AskRows, SentRows, RecheckRows, ReadRows, RecoverRows, RestoreRows, Steps
<1>4. CASE c \in SentRows
  BY <1>4 DEF Idle, RunRows, AskRows, SentRows, RecheckRows, ReadRows, RecoverRows, RestoreRows, Steps
<1>5. CASE c \in RecheckRows
  BY <1>5 DEF Idle, RunRows, AskRows, SentRows, RecheckRows, ReadRows, RecoverRows, RestoreRows, Steps
<1>6. CASE c \in ReadRows
  BY <1>6 DEF Idle, RunRows, AskRows, SentRows, RecheckRows, ReadRows, RecoverRows, RestoreRows, Steps
<1>7. CASE c \in RecoverRows
  BY <1>7 DEF Idle, RunRows, AskRows, SentRows, RecheckRows, ReadRows, RecoverRows, RestoreRows, Steps
<1>8. CASE c \in RestoreRows
  BY <1>8 DEF Idle, RunRows, AskRows, SentRows, RecheckRows, ReadRows, RecoverRows, RestoreRows, Steps
<1> QED
  BY <1>1, <1>2, <1>3, <1>4, <1>5, <1>6, <1>7, <1>8 DEF Handlers

LEMMA LeastPosition ==
    ASSUME NEW T \in SUBSET Nat, T # {}
    PROVE  \E n \in T : \A k \in T : n <= k
<1> DEFINE Less == {s \in Nat \X Nat : s[1] < s[2]}
<1>1. IsWellFoundedOn(Less, Nat)
  BY NatLessThanWellFounded DEF OpToRel
<1>2. PICK n \in T : \A k \in T : ~(<<k, n>> \in Less)
  <2> HIDE DEF Less
  <2> QED
    BY <1>1, WFMin
<1>3. ASSUME NEW k \in T PROVE n <= k
  <2>1. n \in Nat /\ k \in Nat /\ <<k, n>> \notin Less
    BY <1>2
  <2> QED
    BY <2>1
<1> QED
  BY <1>3

LEMMA FirstOfFinds ==
    ASSUME NEW S, NEW records \in Seq(S), NEW wanted
    PROVE  /\ \A op \in FirstOf(records, wanted) :
                 \E r \in Members(records) : r \in wanted /\ r.op = op
           /\ \A o, p \in FirstOf(records, wanted) : o = p
           /\ FirstOf(records, wanted) = {} => \A r \in Members(records) : r \notin wanted
<1> DEFINE found == {i \in DOMAIN records : records[i] \in wanted}
           first == {k \in found : \A j \in found : k <= j}
<1>1. FirstOf(records, wanted) = {records[i].op : i \in first}
  BY DEF FirstOf
<1>2. found \in SUBSET Nat
  OBVIOUS
<1>3. \A i, k \in first : i = k
  BY <1>2
<1>4. first = {} => found = {}
  BY <1>2, LeastPosition
<1>5. \A r \in Members(records) : r \in wanted => found # {}
  BY DEF Members
<1>6. \A i \in first : records[i] \in Members(records) /\ records[i] \in wanted
  BY DEF Members
<1> HIDE DEF found, first
<1> QED
  BY <1>1, <1>3, <1>4, <1>5, <1>6

-----------------------------------------------------------------------------
(***************************************************************************)
(* A write drops the records of some operations and adds one.              *)
(***************************************************************************)
Written(j, k, dropped, r) ==
    /\ k \in Seq(RecordRows)
    /\ Members(k) = {q \in Members(j) : q.op \notin dropped} \cup {r}

LEMMA AppendElements ==
    ASSUME NEW S, NEW s \in Seq(S), NEW e \in S, NEW k, k = Append(s, e)
    PROVE  /\ k \in Seq(S) /\ Len(k) = Len(s) + 1
           /\ DOMAIN k = DOMAIN s \cup {Len(s) + 1}
           /\ \A x \in DOMAIN s : k[x] = s[x]
           /\ k[Len(s) + 1] = e
<1>1. /\ k \in Seq(S) /\ Len(k) = Len(s) + 1
      /\ \A x \in 1..Len(s) : k[x] = s[x]
      /\ k[Len(s) + 1] = e
  BY AppendProperties
<1>2. DOMAIN k = 1..Len(k) /\ DOMAIN s = 1..Len(s) /\ Len(s) \in Nat
  BY <1>1
<1>3. DOMAIN k = DOMAIN s \cup {Len(s) + 1}
  BY <1>1, <1>2
<1> QED
  BY <1>1, <1>2, <1>3

LEMMA AppendKept ==
    ASSUME NEW j \in Seq(RecordRows), NEW r \in RecordRows, NEW dropped,
           NEW k, k = Append(Pick(j, {i \in DOMAIN j : j[i].op \notin dropped}), r)
    PROVE  /\ Written(j, k, dropped, r)
           /\ Single(j) /\ r.op \in dropped => Single(k)
<1> DEFINE keep == {i \in DOMAIN j : j[i].op \notin dropped}
           p == Pick(j, keep)
<1>1. keep \in SUBSET (DOMAIN j)
  OBVIOUS
<1>2. /\ p \in Seq(RecordRows)
      /\ Members(p) = {j[i] : i \in keep}
      /\ \A x, y \in DOMAIN p : x # y => \E i, l \in keep : i # l /\ p[x] = j[i] /\ p[y] = j[l]
  <2> HIDE DEF keep
  <2> QED
    BY <1>1, PickKeeps
<1>3. Members(p) = {q \in Members(j) : q.op \notin dropped}
  BY <1>2 DEF Members
<1>4. k = Append(p, r)
  OBVIOUS
<1>5. \A i \in keep : j[i].op \notin dropped /\ i \in DOMAIN j
  OBVIOUS
<1> HIDE DEF keep, p
<1>6. /\ k \in Seq(RecordRows)
      /\ DOMAIN k = DOMAIN p \cup {Len(p) + 1}
      /\ \A x \in DOMAIN p : k[x] = p[x]
      /\ k[Len(p) + 1] = r
  <2>1. p \in Seq(RecordRows)
    BY <1>2
  <2> QED
    BY ONLY <2>1, <1>4, r \in RecordRows, AppendElements
<1>7. Members(k) = Members(p) \cup {r}
  <2>1. Members(k) = {k[x] : x \in DOMAIN p \cup {Len(p) + 1}}
    BY ONLY <1>6 DEF Members
  <2>2. {k[x] : x \in DOMAIN p \cup {Len(p) + 1}} = {k[x] : x \in DOMAIN p} \cup {k[Len(p) + 1]}
    OBVIOUS
  <2>3. {k[x] : x \in DOMAIN p} = Members(p)
    BY ONLY <1>6 DEF Members
  <2> QED
    BY ONLY <1>6, <2>1, <2>2, <2>3
<1>8. ASSUME Single(j), r.op \in dropped PROVE Single(k)
  <2> SUFFICES ASSUME NEW x \in DOMAIN k, NEW y \in DOMAIN k, x # y PROVE k[x].op # k[y].op
    BY DEF Single
  <2>1. CASE x \in DOMAIN p /\ y \in DOMAIN p
    <3>1. PICK i \in keep, l \in keep : i # l /\ p[x] = j[i] /\ p[y] = j[l]
      BY <2>1, <1>2
    <3>2. j[i].op # j[l].op
      BY <3>1, <1>5, <1>8 DEF Single
    <3> QED
      BY <2>1, <3>1, <3>2, <1>6
  <2>2. \A z \in DOMAIN p : p[z].op \notin dropped
    BY <1>3 DEF Members
  <2> QED
    BY <2>1, <2>2, <1>6, <1>8
<1> QED
  BY <1>3, <1>6, <1>7, <1>8 DEF Written

LEMMA PutWrites ==
    ASSUME NEW j \in Seq(RecordRows), NEW r \in RecordRows
    PROVE  /\ Put(j, r) \in Seq(RecordRows)
           /\ Written(j, Put(j, r), {r.op}, r)
           /\ Single(j) => Single(Put(j, r))
<1>1. Put(j, r) = Append(Pick(j, {i \in DOMAIN j : j[i].op \notin {r.op}}), r)
  BY DEF Put, Without
<1>2. /\ Written(j, Put(j, r), {r.op}, r)
      /\ Single(j) /\ r.op \in {r.op} => Single(Put(j, r))
  <2> DEFINE k == Put(j, r)
             dropped == {r.op}
  <2>1. k = Append(Pick(j, {i \in DOMAIN j : j[i].op \notin dropped}), r)
    BY <1>1
  <2> HIDE DEF k, dropped
  <2>2. Written(j, k, dropped, r) /\ (Single(j) /\ r.op \in dropped => Single(k))
    BY <2>1, AppendKept
  <2> QED
    BY <2>2 DEF k, dropped
<1> QED
  BY <1>2 DEF Written

LEMMA ReplaceWrites ==
    ASSUME NEW j \in Seq(RecordRows), NEW r \in RecordRows, \E q \in Members(j) : q.op = r.op
    PROVE  /\ Replace(j, r) \in Seq(RecordRows)
           /\ Written(j, Replace(j, r), {r.op}, r)
           /\ Single(j) => Single(Replace(j, r))
<1> DEFINE k == Replace(j, r)
<1>1. /\ k \in Seq(RecordRows) /\ DOMAIN k = DOMAIN j
      /\ \A i \in DOMAIN j : k[i] = IF j[i].op = r.op THEN r ELSE j[i]
  BY DEF Replace
<1>2. PICK i \in DOMAIN j : j[i].op = r.op
  BY DEF Members
<1> HIDE DEF k
<1>3. Members(k) = {q \in Members(j) : q.op \notin {r.op}} \cup {r}
  BY <1>1, <1>2 DEF Members
<1>4. Single(j) => Single(k)
  BY <1>1 DEF Single
<1> QED
  BY <1>1, <1>3, <1>4 DEF Written, k

LEMMA PlaceWrites ==
    ASSUME NEW j \in Seq(RecordRows), NEW r \in RecordRows,
           InT05 => \E q \in Members(j) : q.op = r.op
    PROVE  /\ Place(j, r) \in Seq(RecordRows)
           /\ Written(j, Place(j, r), {r.op}, r)
           /\ Single(j) => Single(Place(j, r))
BY PutWrites, ReplaceWrites DEF Place, InT05

LEMMA MembersRows ==
    ASSUME NEW j \in Seq(RecordRows), NEW r \in Members(j)
    PROVE  r \in RecordRows /\ r.op \in Nat /\ r.hash \in Hashes /\ r.status \in Statuses
<1>1. PICK i \in DOMAIN j : r = j[i]
  BY DEF Members
<1>2. r \in RecordRows
  BY <1>1
<1> QED
  BY <1>2 DEF RecordRows

-----------------------------------------------------------------------------
(***************************************************************************)
(* What every step leaves: operations keep what they are, a mined          *)
(* transaction keeps its outcome, and nothing known is exposed anew.       *)
(***************************************************************************)
Grows ==
    /\ milestone' = milestone /\ exports' = exports
    /\ Ops \subseteq Ops' /\ \A op \in Ops : intents'[op] = intents[op]
    /\ DOMAIN txs \subseteq DOMAIN txs' /\ DOMAIN txs' \subseteq Nat \ {NoHash}
    /\ \A h \in DOMAIN txs :
          txs'[h].op = txs[h].op /\ (txs[h].status # "sent" => txs'[h] = txs[h])
    /\ \A h \in DOMAIN txs' \ DOMAIN txs : txs'[h].op \in Unsent
    /\ \A op \in Ops : /\ op \in Unsent' => op \in Unsent
                       /\ op \in Exposed' => op \in Exposed

HashesStay ==
    InT03 => \A q \in Members(journal) : q.hash \in DOMAIN txs =>
                 \E p \in Members(journal') : p.hash = q.hash

LEMMA OwnStays ==
    ASSUME Grows, NEW op \in Ops, NEW hash, Own(op, hash)
    PROVE  Own(op, hash)'
<1>1. op \notin Unsent'
  BY DEF Grows, Own
<1>2. ASSUME NEW h \in DOMAIN txs', txs'[h].op = op PROVE h = hash
  <2>1. h \in DOMAIN txs
    BY <1>2 DEF Grows, Own
  <2> QED
    BY <2>1, <1>2 DEF Grows, Own
<1> QED
  BY <1>1, <1>2 DEF Own

LEMMA MinedStays ==
    ASSUME Grows, NEW hash, Mined(hash)
    PROVE  Mined(hash)' /\ txs'[hash] = txs[hash] /\ Outcome(hash)' = Outcome(hash)
BY DEF Grows, Mined, Outcome

LEMMA CallStays ==
    ASSUME Grows, NEW op \in Ops
    PROVE  op \in Ops' /\ intents'[op] = intents[op] /\ Call(op)' = Call(op) /\ Action(op)' = Action(op)
BY DEF Grows, Call, Action

LEMMA TxStays ==
    ASSUME Grows, Ledger, NEW h \in DOMAIN txs
    PROVE  /\ h \in DOMAIN txs' /\ txs'[h].op = txs[h].op
           /\ txs[h].op \in Ops /\ Call(txs[h].op)' = Call(txs[h].op)
           /\ TxAction(h)' = TxAction(h)
<1>1. h \in DOMAIN txs' /\ txs'[h].op = txs[h].op /\ txs[h].op \in Ops
  BY DEF Grows, Ledger
<1>2. Call(txs[h].op)' = Call(txs[h].op) /\ TxAction(h)' = TxAction(h)
  BY <1>1 DEF TxAction, Call, Action, Grows
<1> QED
  BY <1>1, <1>2

LEMMA RecordTrueStays ==
    ASSUME Grows, Ledger, JournalAssumption, NEW r, RecordTrue(r)
    PROVE  RecordTrue(r)'
<1>1. r.op \in Ops' /\ r.hash \in {NoHash} \cup WrongHashes \cup DOMAIN txs'
  BY DEF RecordTrue, Grows
<1>2. r.hash \in DOMAIN txs' => r.hash \in DOMAIN txs
  <2>1. DOMAIN txs' \subseteq Nat \ {NoHash} /\ WrongHashes \cap Nat = {}
    BY DEF Grows, JournalAssumption
  <2> QED
    BY <2>1 DEF RecordTrue
<1>3. Resolved(r) \/ r.hash \in DOMAIN txs' => Own(r.op, r.hash)'
  BY <1>2, OwnStays DEF RecordTrue
<1>4. r.hash \in DOMAIN txs' => (Call(r.op) = Call(txs[r.hash].op))'
  BY <1>2, CallStays, TxStays DEF RecordTrue
<1>5. Resolved(r) /\ r.hash # NoHash =>
         Mined(r.hash)' /\ (Outcome(r.hash)' = "complete") = (r.status = "complete")
  BY MinedStays DEF RecordTrue
<1> QED
  BY <1>1, <1>3, <1>4, <1>5 DEF RecordTrue, Resolved

LEMMA LeftStays ==
    ASSUME Grows, Ledger, HashesStay, JournalAssumption, NEW left, LeftTrue(left)
    PROVE  LeftTrue(left)'
<1> SUFFICES ASSUME NEW r \in Members(left)
             PROVE  /\ RecordTrue(r)' /\ r.hash \in DOMAIN txs'
                    /\ InT03' => \E q \in Members(journal') : q.hash = r.hash
  BY DEF LeftTrue, Members
<1>1. RecordTrue(r) /\ r.hash \in DOMAIN txs
      /\ (InT03 => \E q \in Members(journal) : q.hash = r.hash)
  BY DEF LeftTrue
<1>2. RecordTrue(r)' /\ r.hash \in DOMAIN txs'
  BY <1>1, RecordTrueStays DEF Grows
<1>3. InT03' => \E q \in Members(journal') : q.hash = r.hash
  BY <1>1 DEF HashesStay, Grows, InT03
<1> QED
  BY <1>2, <1>3

LEMMA MatchedStays ==
    ASSUME Grows, Ledger, NEW op \in Ops, NEW hash, hash \in DOMAIN txs' => hash \in DOMAIN txs,
           Matched(op, hash)
    PROVE  Matched(op, hash)'
<1> SUFFICES ASSUME hash \in DOMAIN txs'
             PROVE  \/ Own(op, hash)' /\ (Call(op) = Call(txs[hash].op))'
                    \/ (InT04 /\ Mined(hash) /\ Call(op) # Call(txs[hash].op))'
  BY DEF Matched
<1>1. CASE Own(op, hash) /\ Call(op) = Call(txs[hash].op)
  BY <1>1, OwnStays, CallStays, TxStays
<1>2. CASE InT04 /\ Mined(hash) /\ Call(op) # Call(txs[hash].op)
  BY <1>2, MinedStays, CallStays, TxStays DEF Grows, InT04
<1> QED
  BY <1>1, <1>2 DEF Matched

LEMMA HashStays ==
    ASSUME Grows, JournalAssumption, NEW hash \in WrongHashes \cup DOMAIN txs
    PROVE  /\ hash \in WrongHashes \cup DOMAIN txs'
           /\ hash \in DOMAIN txs' => hash \in DOMAIN txs
BY DEF Grows, JournalAssumption

LEMMA ReviewStays ==
    ASSUME Grows, NEW t \in Tabs, reviews'[t] = reviews[t], ReviewTrue(t)
    PROVE  ReviewTrue(t)'
<1> SUFFICES ASSUME reviews[t] # NoReview
             PROVE  /\ \A r \in Members(reviews[t].journal) : r.op \in Ops'
                    /\ InT04 /\ reviews[t].action # "create-hold" =>
                          reviews[t].hold \in HoldHash(reviews[t].journal)'
  <2>1. NoReview' = NoReview /\ InT04' = InT04
    BY DEF NoReview, Grows, InT04
  <2> QED
    BY <2>1 DEF ReviewTrue, Members
<1>1. \A r \in Members(reviews[t].journal) : r.op \in Ops
  BY DEF ReviewTrue
<1>2. \A r \in Members(reviews[t].journal) : r.op \in Ops' /\ Action(r.op)' = Action(r.op)
  BY <1>1, CallStays
<1>3. HoldHash(reviews[t].journal)' = HoldHash(reviews'[t].journal)
      /\ HoldHash(reviews[t].journal)' = HoldHash(reviews[t].journal)
  BY <1>2 DEF HoldHash, Completed, Members
<1> QED
  BY <1>2, <1>3 DEF ReviewTrue

(* A page that does nothing stays true, if the journal does not change or  *)
(* the page has not read it.                                               *)
Unread(t) == tabs[t] = Idle \/ tabs[t] \in RecheckRows \/ tabs[t] \in ReadRows

LEMMA RecoverStays ==
    ASSUME Grows, Ledger, JournalAssumption, NEW t \in Tabs,
           tabs'[t] = tabs[t], journal' = journal,
           tabs[t] \in RecoverRows, RecoverTrue(t)
    PROVE  RecoverTrue(t)'
<1> DEFINE c == tabs[t]
<1>1. /\ c.records = journal /\ LeftTrue(c.left)
      /\ c.hash \in WrongHashes \cup DOMAIN txs
      /\ \A op \in c.found : op \in Ops /\ Known(op) /\ Action(op) = c.action
      /\ \A o, p \in c.found : o = p
      /\ InT05 => c.found # {}
  BY DEF RecoverTrue
<1>2. /\ c.hash \in WrongHashes \cup DOMAIN txs'
      /\ c.hash \in DOMAIN txs' => c.hash \in DOMAIN txs
  BY <1>1, HashStays
<1>3. LeftTrue(c.left)'
  BY <1>1, LeftStays DEF HashesStay, LeftTrue
<1>4. \A op \in c.found : op \in Ops' /\ Known(op)' /\ (Action(op) = c.action)'
  BY <1>1, CallStays DEF Known, Members
<1>5. c.step = "recovering" =>
        \A op \in c.found : /\ Matched(op, c.hash)' /\ Hashed(op, {NoHash, c.hash})'
                            /\ InT03' => Opened(op)'
  <2> SUFFICES ASSUME c.step = "recovering", NEW op \in c.found
               PROVE  Matched(op, c.hash)' /\ Hashed(op, {NoHash, c.hash})' /\ (InT03' => Opened(op)')
    OBVIOUS
  <2>1. op \in Ops /\ Matched(op, c.hash) /\ Hashed(op, {NoHash, c.hash}) /\ (InT03 => Opened(op))
    BY DEF RecoverTrue
  <2>2. Matched(op, c.hash)'
    <3> DEFINE hash == c.hash
    <3>1. hash \in DOMAIN txs' => hash \in DOMAIN txs
      BY <1>2
    <3>2. Matched(op, hash)
      BY <2>1
    <3>3. hash' = hash
      OBVIOUS
    <3> HIDE DEF hash
    <3>4. Matched(op, hash)'
      BY <2>1, <3>1, <3>2, <3>3, MatchedStays
    <3> QED
      BY <3>4 DEF hash
  <2>3. Hashed(op, {NoHash, c.hash})' /\ (InT03' => Opened(op)')
    BY <2>1 DEF Hashed, Opened, Resolved, Members, Grows, InT03
  <2> QED
    BY <2>2, <2>3
<1>6. c.step = "confirmed" =>
        /\ c.found # {} /\ Mined(c.hash)'
        /\ \A op \in c.found : /\ Own(op, c.hash)' /\ Hashed(op, {c.hash})'
                               /\ (Call(op) = Call(txs[c.hash].op))'
  <2> SUFFICES ASSUME c.step = "confirmed"
               PROVE  /\ c.found # {} /\ Mined(c.hash)'
                      /\ \A op \in c.found : /\ Own(op, c.hash)' /\ Hashed(op, {c.hash})'
                                             /\ (Call(op) = Call(txs[c.hash].op))'
    OBVIOUS
  <2>1. /\ c.found # {} /\ Mined(c.hash)
        /\ \A op \in c.found : /\ Own(op, c.hash) /\ Hashed(op, {c.hash})
                               /\ Call(op) = Call(txs[c.hash].op)
    BY DEF RecoverTrue
  <2>2. Mined(c.hash)'
    BY <2>1, MinedStays DEF Mined
  <2>3. c.hash \in DOMAIN txs
    BY <2>1 DEF Mined
  <2>4. ASSUME NEW op \in c.found
        PROVE  /\ Own(op, c.hash)' /\ Hashed(op, {c.hash})'
               /\ (Call(op) = Call(txs[c.hash].op))'
    <3>1. op \in Ops
      BY <1>1
    <3>2. Own(op, c.hash)'
      BY <2>1, <3>1, OwnStays DEF Own
    <3>3. Hashed(op, {c.hash})'
      BY <2>1 DEF Hashed, Members
    <3>4. (Call(op) = Call(txs[c.hash].op))'
      BY <2>1, <2>3, <3>1, CallStays, TxStays
    <3> QED
      BY <3>2, <3>3, <3>4
  <2> QED
    BY <2>1, <2>2, <2>4
<1>7. c' = c /\ InT05' = InT05
  BY DEF InT05, Grows
<1> HIDE DEF c
<1> QED
  BY <1>1, <1>2, <1>3, <1>4, <1>5, <1>6, <1>7 DEF RecoverTrue, c

LEMMA HandlerStays ==
    ASSUME Grows, Ledger, JournalAssumption, HashesStay, NEW t \in Tabs, tabs[t] \in Handlers,
           tabs'[t] = tabs[t], reviews'[t] = reviews[t],
           journal' = journal \/ Unread(t),
           HandlerTrue(t)
    PROVE  HandlerTrue(t)'
<1> USE HandlerRows
<1>1. CASE Unread(t)
  <2>1. CASE tabs[t] \in RecheckRows
    <3> DEFINE left == tabs[t].left
    <3>1. LeftTrue(left) /\ left' = left
      BY <2>1 DEF HandlerTrue
    <3> HIDE DEF left
    <3>2. LeftTrue(left)'
      BY <3>1, LeftStays DEF LeftTrue
    <3>3. /\ tabs[t] \notin RunRows /\ tabs[t] \notin AskRows /\ tabs[t] \notin SentRows
          /\ tabs[t] \notin RecoverRows /\ tabs[t] \notin RestoreRows
      BY <2>1
    <3> QED
      BY <3>2, <3>3 DEF HandlerTrue, left
  <2>2. CASE tabs[t] \notin RecheckRows
    <3>1. /\ tabs[t] \notin RunRows /\ tabs[t] \notin AskRows /\ tabs[t] \notin SentRows
          /\ tabs[t] \notin RecoverRows /\ tabs[t] \notin RestoreRows
      BY <1>1, <2>2 DEF Unread
    <3> QED
      BY <3>1, <2>2 DEF HandlerTrue
  <2> QED
    BY <2>1, <2>2
<1>2. CASE journal' = journal /\ tabs[t] \in RunRows
  <2>1. tabs[t] \notin AskRows /\ tabs[t] \notin SentRows /\ tabs[t] \notin RecheckRows
        /\ tabs[t] \notin RecoverRows /\ tabs[t] \notin RestoreRows
    BY <1>2
  <2>2. RunTrue(t) /\ RunTrue(t)'
    BY <1>2 DEF HandlerTrue, RunTrue, Grows, InT04
  <2> QED
    BY <2>1, <2>2 DEF HandlerTrue
<1>3. CASE journal' = journal /\ tabs[t] \in AskRows
  <2>1. tabs[t] \notin RunRows /\ tabs[t] \notin SentRows /\ tabs[t] \notin RecheckRows
        /\ tabs[t] \notin RecoverRows /\ tabs[t] \notin RestoreRows
    BY <1>3
  <2>2. AskTrue(t) /\ AskTrue(t)'
    BY <1>3 DEF HandlerTrue, AskTrue, Awaits, Claims, Resolved, Members
  <2> QED
    BY <2>1, <2>2 DEF HandlerTrue
<1>4. CASE journal' = journal /\ tabs[t] \in SentRows
  <2>1. tabs[t] \notin RunRows /\ tabs[t] \notin AskRows /\ tabs[t] \notin RecheckRows
        /\ tabs[t] \notin RecoverRows /\ tabs[t] \notin RestoreRows
    BY <1>4
  <2>2. SentTrue(t)
    BY <1>4 DEF HandlerTrue
  <2>3. SentTrue(t)'
    BY <1>4, <2>2 DEF SentTrue, Awaits, Unhashed, Claims, Resolved, Members, Known, Hashed, Grows, InT03
  <2> QED
    BY <2>1, <2>3 DEF HandlerTrue
<1>5. CASE journal' = journal /\ tabs[t] \in RecoverRows
  <2>1. tabs[t] \notin RunRows /\ tabs[t] \notin AskRows /\ tabs[t] \notin RecheckRows
        /\ tabs[t] \notin SentRows /\ tabs[t] \notin RestoreRows
    BY <1>5
  <2>2. RecoverTrue(t)'
    BY <1>5, RecoverStays DEF HandlerTrue
  <2> QED
    BY <2>1, <2>2 DEF HandlerTrue
<1>6. CASE journal' = journal /\ tabs[t] \in RestoreRows
  <2>1. tabs[t] \notin RunRows /\ tabs[t] \notin AskRows /\ tabs[t] \notin RecheckRows
        /\ tabs[t] \notin SentRows /\ tabs[t] \notin RecoverRows
    BY <1>6
  <2>2. RestoreTrue(t)
    BY <1>6 DEF HandlerTrue
  <2>3. RecordTrue(tabs[t].record)'
    <3> DEFINE r == tabs[t].record
    <3>1. RecordTrue(r) /\ r' = r
      BY <2>2 DEF RestoreTrue
    <3> HIDE DEF r
    <3>2. RecordTrue(r)'
      BY <3>1, RecordTrueStays DEF RecordTrue, Resolved
    <3> QED
      BY <3>2 DEF r
  <2>4. \A op \in tabs[t].found : op \in Ops' /\ op \notin Exposed'
    BY <2>2 DEF RestoreTrue, Grows
  <2>5. RestoreTrue(t)'
    BY <2>2, <2>3, <2>4, <1>6 DEF RestoreTrue, Claims, Resolved
  <2> QED
    BY <2>1, <2>5 DEF HandlerTrue
<1> QED
  BY <1>1, <1>2, <1>3, <1>4, <1>5, <1>6 DEF Handlers, Unread

-----------------------------------------------------------------------------
LEMMA IntentTyped ==
    ASSUME Shapes, NEW op \in Ops
    PROVE  /\ op \in Nat /\ intents[op] \in IntentRows
           /\ intents[op].expiry \in Nat /\ intents[op].action \in AllActions
           /\ intents[op].hold \in Hashes /\ intents[op].state \in Int
<1>1. intents[op] \in IntentRows /\ op \in Nat
  BY DEF Shapes, Ops
<1> QED
  BY <1>1 DEF IntentRows

LEMMA TxTyped ==
    ASSUME Shapes, NEW h \in DOMAIN txs
    PROVE  /\ h \in Nat \ {NoHash} /\ txs[h] \in TxRows
           /\ txs[h].op \in Nat /\ txs[h].state \in Nat /\ txs[h].time \in Nat
           /\ txs[h].status \in {"sent", "ok", "failed"}
<1>1. h \in Nat \ {NoHash} /\ txs[h] \in TxRows
  BY DEF Shapes, NoHash
<1> QED
  BY <1>1 DEF TxRows

LEMMA ExposedOps ==
    ASSUME Shapes, Ledger
    PROVE  Exposed \subseteq Ops /\ Unsent \subseteq Ops
<1>1. Unsent \subseteq Ops
  BY DEF Shapes, Ledger, Unsent
<1>2. Sending \subseteq Ops
  BY DEF Ledger, Sending, InFlight
<1> QED
  BY <1>1, <1>2 DEF Exposed

LEMMA ClaimedOps ==
    ASSUME Shapes, Ledger, RecordsTrue
    PROVE  Claimed \subseteq Ops
BY ExposedOps DEF Claimed, RecordsTrue, RecordTrue

LEMMA ChainStays ==
    ASSUME Shapes, Grows, Ledger, chain' = chain
    PROVE  Did(Now)' = Did(Now) /\ \A action : HashOf(action, Now)' = HashOf(action, Now)
<1>1. \A i \in 1..Now : chain[i] \in DOMAIN txs
  BY DEF Ledger, Now, Shapes
<1>2. \A i \in 1..Now : TxAction(chain[i])' = TxAction(chain[i])
  <2> SUFFICES ASSUME NEW i \in 1..Now PROVE TxAction(chain[i])' = TxAction(chain[i])
    OBVIOUS
  <2>1. chain[i] \in DOMAIN txs /\ txs[chain[i]].op \in Ops
    BY <1>1 DEF Ledger
  <2>2. txs'[chain[i]].op = txs[chain[i]].op
    BY <2>1 DEF Grows
  <2> QED
    BY <2>1, <2>2 DEF TxAction, Action, Grows
<1>3. Now' = Now
  BY DEF Now
<1> QED
  BY <1>2, <1>3 DEF Did, HashOf

(* A record that may be added.                                             *)
Addable(r) ==
    /\ RecordTrue(r)' /\ (InT03 => r.hash \notin WrongHashes)
    /\ Claims(r) => r.op \in Claimed

LEMMA ExportsStay ==
    ASSUME Grows, Ledger, JournalAssumption, ExportsTrue
    PROVE  ExportsTrue'
<1> SUFFICES ASSUME NEW e \in exports
             PROVE  /\ RecordTrue(e)' /\ e.status = "complete"
                    /\ e.hash # NoHash => e.hash \in DOMAIN txs' /\ txs'[e.hash].op = e.op
                    /\ e.hash = NoHash => \/ InT04 /\ Action(e.op)' \in HoldSimulations
                                          \/ InT05 /\ Action(e.op)' \in TradeSimulations
  BY DEF ExportsTrue, Grows, InT04, InT05
<1>1. /\ RecordTrue(e) /\ e.status = "complete"
      /\ e.hash # NoHash => e.hash \in DOMAIN txs /\ txs[e.hash].op = e.op
      /\ e.hash = NoHash => \/ InT04 /\ Action(e.op) \in HoldSimulations
                            \/ InT05 /\ Action(e.op) \in TradeSimulations
  BY DEF ExportsTrue
<1>2. RecordTrue(e)'
  BY <1>1, RecordTrueStays
<1>3. e.op \in Ops
  BY <1>1 DEF RecordTrue
<1> QED
  BY <1>1, <1>2, <1>3, CallStays DEF Grows

LEMMA JournalFollows ==
    ASSUME Shapes, Ledger, JournalAssumption, JournalTrue, Grows,
           \A q \in Members(journal') : q \in Members(journal) \/ Addable(q),
           Exposed' \subseteq Exposed, chain' = chain \/ Exposed' = {},
           InT04 => \A h \in DOMAIN txs' : txs'[h].status = "failed" =>
                        time' >= intents'[txs'[h].op].expiry,
           \A op \in Exposed' : \E q \in Members(journal') : q.op = op /\ ~Resolved(q),
           (exports = {} \/ ~InT04) /\ Single(journal) => Single(journal')
    PROVE  JournalTrue'
<1>3. Claimed' \subseteq Claimed
  <2>1. ASSUME NEW q \in Members(journal'), Claims(q) PROVE q.op \in Claimed
    BY <2>1 DEF Claimed, Addable
  <2> QED
    BY <2>1 DEF Claimed, Claims, Resolved
<1>4. RecordsTrue'
  <2> SUFFICES ASSUME NEW q \in Members(journal')
               PROVE  RecordTrue(q)' /\ (InT03' => q.hash \notin WrongHashes)
    BY DEF RecordsTrue, Members
  <2>1. CASE Addable(q)
    BY <2>1 DEF Grows, InT03, Addable
  <2>2. CASE q \in Members(journal)
    <3>1. RecordTrue(q) /\ (InT03 => q.hash \notin WrongHashes)
      BY <2>2 DEF JournalTrue, RecordsTrue
    <3> QED
      BY <3>1, RecordTrueStays DEF Grows, InT03
  <2> QED
    BY <2>1, <2>2
<1>5. OneClaim'
  BY <1>3 DEF JournalTrue, OneClaim
<1>6. ExposedKnown'
  BY DEF ExposedKnown, Resolved
<1>7. ExposedNew'
  <2> SUFFICES ASSUME NEW op \in Exposed' PROVE Action(op)' \notin Did(Now)'
    BY DEF ExposedNew
  <2>1. op \in Exposed /\ op \in Ops
    BY ExposedOps
  <2> QED
    BY <2>1, CallStays, ChainStays DEF JournalTrue, ExposedNew
<1>8. OneRecord'
  <2>1. exports' = exports /\ InT04' = InT04
    BY DEF Grows, InT04
  <2> QED
    BY <2>1 DEF JournalTrue, OneRecord, Single
<1>9. ExportsTrue'
  BY ExportsStay DEF JournalTrue
<1>10. HoldsTrue'
  <2> SUFFICES ASSUME InT04
               PROVE  /\ \A op \in Claimed' : \A h \in DOMAIN txs' :
                            txs'[h].op # op => Call(txs[h].op)' # Call(op)'
                      /\ \A op \in Exposed' : HoldReady(op)'
    BY DEF HoldsTrue, Grows, InT04
  <2>1. ASSUME NEW op \in Claimed', NEW h \in DOMAIN txs', txs'[h].op # op
        PROVE  Call(txs[h].op)' # Call(op)'
    <3>1. op \in Claimed /\ op \in Ops
      BY <1>3, ClaimedOps DEF JournalTrue
    <3>2. h \in DOMAIN txs
      <4>1. h \notin DOMAIN txs => txs'[h].op \in Claimed
        BY DEF Grows, Claimed, Exposed
      <4> QED
        BY <4>1, <3>1, <2>1 DEF JournalTrue, OneClaim
    <3>3. Call(txs[h].op) # Call(op)
      BY <2>1, <3>1, <3>2 DEF JournalTrue, HoldsTrue, Grows
    <3> QED
      BY <3>1, <3>2, <3>3, CallStays, TxStays
  <2>2. ASSUME NEW op \in Exposed' PROVE HoldReady(op)'
    <3>1. op \in Exposed /\ op \in Ops
      BY ExposedOps
    <3>2. HoldReady(op)
      BY <3>1 DEF JournalTrue, HoldsTrue
    <3>3. intents'[op] = intents[op] /\ Action(op)' = Action(op)
      BY <3>1, CallStays
    <3> QED
      BY <3>2, <3>3, ChainStays DEF HoldReady
  <2> QED
    BY <2>1, <2>2
<1> QED
  BY <1>4, <1>5, <1>6, <1>7, <1>8, <1>9, <1>10 DEF JournalTrue

LEMMA JournalKeeps ==
    ASSUME Shapes, Ledger, JournalAssumption, JournalTrue, Grows,
           \A q \in Members(journal') : q \in Members(journal) \/ Addable(q),
           Unsent' \subseteq Unsent, txs' = txs, chain' = chain, time' \in Nat, time <= time',
           \A op \in Exposed' : \E q \in Members(journal') : q.op = op /\ ~Resolved(q),
           (exports = {} \/ ~InT04) /\ Single(journal) => Single(journal')
    PROVE  JournalTrue'
<1>1. Exposed' \subseteq Exposed
  BY DEF Sending, InFlight, Exposed
<1>2. ASSUME InT04, NEW h \in DOMAIN txs, txs[h].status = "failed"
      PROVE  time' >= intents'[txs[h].op].expiry
  <2>1. txs[h].op \in Ops
    BY DEF Ledger
  <2>2. intents'[txs[h].op] = intents[txs[h].op]
    BY <2>1, CallStays
  <2>3. intents[txs[h].op].expiry \in Nat /\ time \in Nat
    BY <2>1, IntentTyped DEF Shapes
  <2>4. time >= intents[txs[h].op].expiry
    BY <1>2 DEF JournalTrue, HoldsTrue
  <2> QED
    BY <2>2, <2>3, <2>4
<1> QED
  BY <1>1, <1>2, JournalFollows

LEMMA WriteKeeps ==
    ASSUME Shapes, Ledger, JournalAssumption, JournalTrue, Grows, NEW r, NEW dropped,
           Written(journal, journal', dropped, r), Addable(r),
           Unsent' \subseteq Unsent, txs' = txs, chain' = chain, time' = time,
           \A op \in dropped : op \in Exposed' => op = r.op /\ ~Resolved(r),
           (exports = {} \/ ~InT04) /\ Single(journal) => Single(journal')
    PROVE  JournalTrue'
<1>1. Members(journal') = {q \in Members(journal) : q.op \notin dropped} \cup {r}
  BY DEF Written
<1>2. Sending' = Sending /\ Exposed' \subseteq Exposed
  BY DEF Sending, InFlight, Exposed
<1>3. ASSUME NEW op \in Exposed' PROVE \E q \in Members(journal') : q.op = op /\ ~Resolved(q)
  <2>1. CASE op \in dropped
    BY <2>1, <1>1
  <2>2. CASE op \notin dropped
    BY <2>2, <1>1, <1>2 DEF JournalTrue, ExposedKnown
  <2> QED
    BY <2>1, <2>2
<1>4. \A q \in Members(journal') : q \in Members(journal) \/ Addable(q)
  BY <1>1
<1>5. time' \in Nat /\ time <= time'
  BY DEF Shapes
<1> QED
  BY <1>3, <1>4, <1>5, JournalKeeps

LEMMA LeaveKeeps ==
    ASSUME Shapes, Ledger, JournalAssumption, JournalTrue, Grows, journal' = journal,
           Unsent' \subseteq Unsent, txs' = txs, chain' = chain, time' \in Nat, time <= time'
    PROVE  JournalTrue'
<1>1. Sending' = Sending /\ Exposed' \subseteq Exposed
  BY DEF Sending, InFlight, Exposed
<1>2. \A op \in Exposed' : \E q \in Members(journal') : q.op = op /\ ~Resolved(q)
  BY <1>1 DEF JournalTrue, ExposedKnown
<1>3. Members(journal') = Members(journal)
  OBVIOUS
<1>4. (exports = {} \/ ~InT04) /\ Single(journal) => Single(journal')
  OBVIOUS
<1> QED
  BY <1>2, <1>3, <1>4, JournalKeeps

-----------------------------------------------------------------------------
(* What T04 needs of its users and of the gas they give.                   *)
Careful == InT04 => RestoresAlone /\ "t04" \notin Reverting

JournalInv ==
    ~InT02 /\ Careful /\ Shapes /\ Locks /\ Ledger /\ JournalTrue /\ PagesTrue

(***************************************************************************)
(* A page goes to c.                                                       *)
(***************************************************************************)
LEMMA UnsentStep ==
    ASSUME Shapes, NEW t \in Tabs, NEW c, tabs' = [tabs EXCEPT ![t] = c]
    PROVE  /\ tabs[t].step \notin Asking /\ c.step \notin Asking /\ orphans' = orphans
                => Unsent' = Unsent
           /\ tabs[t].step \in Asking /\ c.step \in Asking /\ c.op = tabs[t].op /\ orphans' = orphans
                => Unsent' = Unsent
           /\ tabs[t].step \in Asking /\ c.step \notin Asking /\ orphans' = orphans \cup {tabs[t].op}
                => Unsent' = Unsent
           /\ c.step \notin Asking /\ orphans' = orphans => Unsent' \subseteq Unsent
           /\ tabs[t].step \notin Asking /\ c.step \in Asking /\ orphans' = orphans
                => Unsent' = Unsent \cup {c.op}
<1>1. tabs'[t] = c /\ \A u \in Tabs : u # t => tabs'[u] = tabs[u]
  BY DEF Shapes
<1>2. Unsent' = orphans' \cup {tabs'[u].op : u \in {v \in Tabs : tabs'[v].step \in Asking}}
  BY DEF Unsent
<1> QED
  BY <1>1, <1>2 DEF Unsent

(* With the lock, no other page asks.                                      *)
LEMMA AloneAsking ==
    ASSUME Shapes, Locks, Ledger, ~InT02, NEW t \in Tabs, lock = t, NEW c, c.step \notin Asking,
           tabs' = [tabs EXCEPT ![t] = c], orphans' = orphans, tabs[t].step \in Asking
    PROVE  tabs[t].op \notin Unsent'
<1>1. \A u \in Tabs : u # t => tabs[u].step \notin Asking
  BY DEF Locks, LockHeld, Exclusive, Asking
<1>2. tabs'[t] = c /\ \A u \in Tabs : u # t => tabs'[u] = tabs[u]
  BY DEF Shapes
<1>3. tabs[t].op \notin orphans
  BY DEF Ledger
<1> QED
  BY <1>1, <1>2, <1>3 DEF Unsent

LEMMA GrowsHere ==
    ASSUME Shapes, UNCHANGED <<fixed, txs>>,
           intents' = intents \/ (\E row \in IntentRows : intents' = Append(intents, row)),
           \A op \in Ops : op \in Unsent' => op \in Unsent
    PROVE  /\ Grows
           /\ intents' \in Seq(IntentRows) /\ Ops \subseteq Ops'
           /\ intents' # intents => Ops' = Ops \cup {Len(intents) + 1}
<1>1. intents' \in Seq(IntentRows) /\ Ops \subseteq Ops' /\ (\A op \in Ops : intents'[op] = intents[op])
      /\ (intents' # intents => Ops' = Ops \cup {Len(intents) + 1})
  <2>1. CASE intents' = intents
    BY <2>1 DEF Ops, Shapes
  <2>2. CASE \E row \in IntentRows : intents' = Append(intents, row)
    <3>1. PICK row \in IntentRows : intents' = Append(intents, row)
      BY <2>2
    <3>2. intents \in Seq(IntentRows)
      BY DEF Shapes
    <3>3. /\ intents' \in Seq(IntentRows)
          /\ DOMAIN intents' = DOMAIN intents \cup {Len(intents) + 1}
          /\ \A x \in DOMAIN intents : intents'[x] = intents[x]
      BY ONLY <3>1, <3>2, AppendElements
    <3> QED
      BY <3>3 DEF Ops
  <2> QED
    BY <2>1, <2>2
<1>2. DOMAIN txs \subseteq Nat \ {NoHash}
  BY DEF Shapes, NoHash
<1>3. Sending' = Sending
  BY DEF Sending, InFlight
<1>4. \A op \in Ops : op \in Exposed' => op \in Exposed
  BY <1>3 DEF Exposed
<1> QED
  BY <1>1, <1>2, <1>4 DEF Grows, fixed

LEMMA LedgerHere ==
    ASSUME Shapes, Ledger, Grows, txs' = txs, chain' = chain,
           \A u \in Tabs : tabs'[u].step \in Asking => tabs'[u].op \in Ops' \ orphans'
    PROVE  Ledger'
<1>1. ASSUME NEW h \in DOMAIN txs PROVE txs[h].op \in Ops' \ Unsent' /\ TxAction(h)' = TxAction(h)
  BY TxStays DEF Grows, Ledger
<1>2. \A i, j \in DOMAIN chain : TxAction(chain[i])' = TxAction(chain[j])' => i = j
  BY <1>1 DEF Ledger
<1> QED
  BY <1>1, <1>2 DEF Ledger

(* Taking, keeping or giving back the lock on the way to c.                *)
LockMove(t, c) ==
    /\ \/ lock' = lock
       \/ lock = NoTab /\ lock' = t /\ \A u \in Tabs : tabs[u].step # "restoring"
       \/ lock = t /\ lock' = NoTab
    /\ c.step \in Exclusive => lock' = t
    /\ InT05 /\ c.step \in {"rechecking", "read"} => lock' = t
    /\ c.step = "restoring" => /\ InT04 /\ exports # {} /\ lock' = NoTab
                               /\ \A u \in Tabs : tabs[u].step # "restoring"

LEMMA LocksMove ==
    ASSUME Shapes, Locks, ~InT02, TabsAssumption, NEW t \in Tabs, NEW c,
           tabs' = [tabs EXCEPT ![t] = c], milestone' = milestone, exports' = exports,
           LockMove(t, c)
    PROVE  Locks' /\ lock' \in Tabs \cup {NoTab}
<1>1. tabs'[t] = c /\ \A u \in Tabs : u # t => tabs'[u] = tabs[u]
  BY DEF Shapes
<1>2. lock' \in Tabs \cup {NoTab} /\ t # NoTab /\ InT02' = InT02 /\ InT04' = InT04 /\ InT05' = InT05
  BY DEF Shapes, LockMove, TabsAssumption, InT02, InT04, InT05
<1>3. LockHeld'
  <2> SUFFICES ASSUME NEW u \in Tabs
               PROVE  /\ tabs'[u].step \in Exclusive => lock' = u
                      /\ InT05 /\ tabs'[u].step \in {"rechecking", "read"} => lock' = u
    BY <1>2 DEF LockHeld
  <2>1. CASE u = t
    BY <2>1, <1>1 DEF LockMove
  <2>2. CASE u # t
    BY <2>2, <1>1, <1>2 DEF LockMove, Locks, LockHeld, TabsAssumption
  <2> QED
    BY <2>1, <2>2
<1>4. ASSUME NEW u \in Tabs, tabs'[u].step = "restoring"
      PROVE  /\ InT04 /\ exports # {} /\ lock' = NoTab
             /\ \A v \in Tabs : tabs'[v].step = "restoring" => v = u
  <2>1. CASE u = t
    BY <2>1, <1>1, <1>4 DEF LockMove
  <2>2. CASE u # t
    <3>1. tabs[u].step = "restoring" /\ c.step # "restoring"
      BY <2>2, <1>1, <1>4 DEF LockMove
    <3> QED
      BY <3>1, <1>1, <1>2 DEF LockMove, Locks
  <2> QED
    BY <2>1, <2>2
<1> QED
  BY <1>2, <1>3, <1>4 DEF Locks

(* Who has the lock, or restores, or finds the lock free in T05, is the    *)
(* only one that has read the journal.                                     *)
LEMMA OthersUnread ==
    ASSUME Shapes, Locks, ~InT02, TabsAssumption, NEW t \in Tabs,
           lock = t \/ (lock = NoTab /\ InT05) \/ tabs[t].step = "restoring"
    PROVE  \A u \in Tabs : u # t => Unread(u)
<1> SUFFICES ASSUME NEW u \in Tabs, u # t PROVE Unread(u)
  OBVIOUS
<1>1. tabs[u] \in Handlers
  BY DEF Shapes
<1>2. lock # u /\ tabs[u].step # "restoring"
  BY DEF Locks, TabsAssumption, InT04, InT05
<1>3. tabs[u].step \notin Exclusive
  BY <1>2 DEF Locks, LockHeld
<1> QED
  BY <1>1, <1>2, <1>3, HandlerRows DEF Unread, Exclusive, Steps

LEMMA PageStep ==
    ASSUME JournalInv, TabsAssumption, JournalAssumption, NEW t \in Tabs, NEW c,
           tabs' = [tabs EXCEPT ![t] = c],
           \A u \in Tabs : u # t => reviews'[u] = reviews[u],
           Shapes', Grows, Ledger', HashesStay, LockMove(t, c),
           journal' = journal \/ (\A u \in Tabs : u # t => Unread(u)),
           JournalTrue', HandlerTrue(t)', ReviewTrue(t)'
    PROVE  JournalInv'
<1>1. tabs'[t] = c /\ \A u \in Tabs : u # t => tabs'[u] = tabs[u]
  BY DEF Shapes, JournalInv
<1>2. Locks'
  BY LocksMove DEF JournalInv, Grows
<1>3. ASSUME NEW u \in Tabs PROVE HandlerTrue(u)' /\ ReviewTrue(u)'
  <2>1. CASE u = t
    BY <2>1
  <2>2. CASE u # t
    <3>1. tabs[u] \in Handlers /\ HandlerTrue(u) /\ ReviewTrue(u)
      BY DEF JournalInv, Shapes, PagesTrue
    <3>2. Ledger
      BY DEF JournalInv
    <3> QED
      BY <2>2, <3>1, <3>2, <1>1, HandlerStays, ReviewStays
  <2> QED
    BY <2>1, <2>2
<1>4. (~InT02)' /\ Careful'
  BY DEF JournalInv, Grows, InT02, InT04, Careful
<1> QED
  BY <1>2, <1>3, <1>4 DEF JournalInv, PagesTrue

-----------------------------------------------------------------------------
(***************************************************************************)
(* Locks and prompts on the way of a page.                                 *)
(***************************************************************************)
LEMMA FinishMoves ==
    ASSUME NEW t \in Tabs, Release(t)
    PROVE  LockMove(t, Idle)
BY DEF Release, LockMove, Idle, Exclusive

LEMMA TakeMoves ==
    ASSUME Careful, Locks, NEW t \in Tabs, Take(t), NEW c, c.step # "restoring"
    PROVE  LockMove(t, c) /\ lock = NoTab
BY DEF Take, LockMove, Locks, Careful

LEMMA KeepMoves ==
    ASSUME Locks, NEW t \in Tabs, ~InT02, tabs[t].step \in Exclusive, lock' = lock, NEW c,
           c.step # "restoring"
    PROVE  LockMove(t, c) /\ lock = t
BY DEF LockMove, Locks, LockHeld

LEMMA GoesOnMoves ==
    ASSUME Shapes, Locks, ~InT02, NEW t \in Tabs, tabs[t] \in RecoverRows, NEW status, GoesOn(t, status)
    PROVE  /\ lock = t
           /\ \E c \in {Idle, [step |-> "rechecking", left |-> tabs[t].left]} :
                 /\ c \in Handlers /\ c.step \notin Asking
                 /\ tabs' = [tabs EXCEPT ![t] = c]
                 /\ LockMove(t, c)
<1> DEFINE c == [step |-> "rechecking", left |-> tabs[t].left]
<1>1. lock = t
  BY DEF RecoverRows, Locks, LockHeld, Exclusive
<1>2. CASE Finish(t)
  <2>1. Idle \in Handlers /\ Idle.step \notin Asking
    BY DEF Handlers, Idle, Asking
  <2>2. tabs' = [tabs EXCEPT ![t] = Idle] /\ LockMove(t, Idle)
    BY <1>2, FinishMoves DEF Finish, Goto
  <2> QED
    BY <1>1, <2>1, <2>2
<1>3. CASE Goto(t, c) /\ lock' = IF milestone = "t05" THEN lock ELSE NoTab
  <2>1. c \in Handlers /\ c.step \notin Asking
    BY DEF Handlers, RecoverRows, RecheckRows, Asking
  <2>2. LockMove(t, c)
    BY <1>1, <1>3 DEF LockMove, Exclusive, InT05
  <2> QED
    BY <1>1, <1>3, <2>1, <2>2 DEF Goto
<1> QED
  BY <1>2, <1>3 DEF GoesOn

(* A prompt of a page stays open, and becomes an orphan, or is gone.       *)
Prompted(t) ==
    \/ orphans' = orphans
    \/ tabs[t].step = "asked" /\ orphans' = orphans \cup {tabs[t].op}

LEMMA PromptedStep ==
    ASSUME Shapes, Locks, Ledger, ~InT02, NEW t \in Tabs, NEW c, c.step \notin Asking,
           tabs' = [tabs EXCEPT ![t] = c], Prompted(t)
    PROVE  /\ Unsent' \subseteq Unsent
           /\ orphans' \subseteq Ops
           /\ \A u \in Tabs : tabs'[u].step \in Asking => tabs'[u].op \in Ops \ orphans'
<1>1. tabs'[t] = c /\ \A u \in Tabs : u # t => tabs'[u] = tabs[u]
  BY DEF Shapes
<1>2. CASE orphans' = orphans
  <2>1. \A u \in Tabs : tabs'[u].step \in Asking => tabs'[u].op \in Ops \ orphans'
    BY <1>1, <1>2 DEF Ledger
  <2> QED
    BY <2>1, <1>2, UnsentStep DEF Shapes
<1>3. CASE tabs[t].step = "asked" /\ orphans' = orphans \cup {tabs[t].op}
  <2>1. lock = t /\ tabs[t].step \in Asking
    BY <1>3 DEF Locks, LockHeld, Exclusive, Asking
  <2>2. \A u \in Tabs : tabs'[u].step \notin Asking
    BY <2>1, <1>1 DEF Locks, LockHeld, Exclusive, Asking
  <2>3. orphans' \subseteq Ops
    BY <1>3, <2>1 DEF Shapes, Ledger
  <2> QED
    BY <1>3, <2>1, <2>2, <2>3, UnsentStep
<1> QED
  BY <1>2, <1>3 DEF Prompted

-----------------------------------------------------------------------------
(***************************************************************************)
(* A page goes on without a write.                                         *)
(***************************************************************************)
Leaves(t, c) ==
    /\ tabs' = [tabs EXCEPT ![t] = c] /\ c \in Handlers /\ c.step \notin Asking
    /\ Prompted(t)
    /\ reviews' \in [Tabs -> {NoReview} \cup ReviewRows]
    /\ \A u \in Tabs : u # t => reviews'[u] = reviews[u]
    /\ UNCHANGED <<fixed, intents, journal, ledger>>

LEMMA LeavesStep ==
    ASSUME JournalInv, TabsAssumption, JournalAssumption, NEW t \in Tabs, NEW c, Leaves(t, c)
    PROVE  /\ Grows /\ HashesStay /\ Ledger
           /\ tabs'[t] = c
           /\ Unsent' \subseteq Unsent
           /\ LockMove(t, c) /\ HandlerTrue(t)' /\ ReviewTrue(t)' => JournalInv'
<1> USE DEF JournalInv
<1>1. /\ Unsent' \subseteq Unsent /\ orphans' \subseteq Ops
      /\ \A u \in Tabs : tabs'[u].step \in Asking => tabs'[u].op \in Ops \ orphans'
  BY PromptedStep DEF Leaves
<1>2. Grows /\ Ops' = Ops
  <2>1. UNCHANGED <<fixed, txs>> /\ intents' = intents
    BY DEF Leaves, ledger
  <2>2. Grows
    BY <2>1, <1>1, GrowsHere
  <2> QED
    BY <2>1, <2>2 DEF Ops
<1>3. txs' = txs /\ chain' = chain /\ time' = time /\ journal' = journal
  BY DEF Leaves, ledger
<1>4. HashesStay
  BY <1>3 DEF HashesStay
<1>5. Ledger'
  BY <1>1, <1>2, <1>3, LedgerHere
<1>6. JournalTrue'
  <2>1. time' \in Nat /\ time <= time'
    BY <1>3 DEF Shapes
  <2> QED
    BY <1>1, <1>2, <1>3, <2>1, LeaveKeeps
<1>7. ASSUME LockMove(t, c), HandlerTrue(t)', ReviewTrue(t)' PROVE JournalInv'
  <2>1. lock' \in Tabs \cup {NoTab}
    BY <1>7 DEF Shapes, LockMove
  <2>2. tabs' \in [Tabs -> Handlers]
    BY DEF Leaves, Shapes
  <2>3. Shapes'
    BY <1>1, <1>2, <2>1, <2>2 DEF Leaves, Shapes, fixed, ledger
  <2>4. \A u \in Tabs : u # t => reviews'[u] = reviews[u]
    BY DEF Leaves
  <2>5. tabs' = [tabs EXCEPT ![t] = c]
    BY DEF Leaves
  <2> QED
    BY <1>2, <1>3, <1>4, <1>5, <1>6, <1>7, <2>3, <2>4, <2>5, PageStep
<1>8. tabs'[t] = c
  BY DEF Leaves, Shapes
<1> QED
  BY <1>1, <1>2, <1>4, <1>7, <1>8

(* A page that is idle, or reads, has nothing to keep.                     *)
LEMMA IdleTrue ==
    ASSUME NEW t \in Tabs, tabs'[t] = Idle \/ tabs'[t] \in ReadRows
    PROVE  HandlerTrue(t)'
<1>1. tabs'[t] \in Handlers /\ tabs'[t].step \in {"idle", "read"}
  BY DEF Handlers, Idle, ReadRows
<1>2. /\ tabs'[t] \notin RunRows /\ tabs'[t] \notin AskRows /\ tabs'[t] \notin SentRows
      /\ tabs'[t] \notin RecheckRows /\ tabs'[t] \notin RecoverRows /\ tabs'[t] \notin RestoreRows
  BY <1>1, HandlerRows
<1> QED
  BY <1>2 DEF HandlerTrue

LEMMA RecheckTrue ==
    ASSUME NEW t \in Tabs, NEW left \in Seq(RecordRows), LeftTrue(left)',
           tabs'[t] = [step |-> "rechecking", left |-> left]
    PROVE  HandlerTrue(t)'
<1>1. tabs'[t] \in Handlers /\ tabs'[t].step = "rechecking" /\ tabs'[t].left = left
  BY DEF Handlers, RecheckRows
<1>2. /\ tabs'[t] \notin RunRows /\ tabs'[t] \notin AskRows /\ tabs'[t] \notin SentRows
      /\ tabs'[t] \notin RecoverRows /\ tabs'[t] \notin RestoreRows
  BY <1>1, HandlerRows
<1>3. LeftTrue(tabs[t].left)'
  BY <1>1 DEF LeftTrue
<1> QED
  BY <1>2, <1>3 DEF HandlerTrue

LEMMA RunningTrue ==
    ASSUME NEW t \in Tabs, tabs'[t] \in RunRows, RunTrue(t)'
    PROVE  HandlerTrue(t)'
<1>1. tabs'[t] \in Handlers /\ tabs'[t].step \in {"running", "probed", "simulating"}
  BY DEF Handlers, RunRows
<1>2. /\ tabs'[t] \notin RecheckRows /\ tabs'[t] \notin AskRows /\ tabs'[t] \notin SentRows
      /\ tabs'[t] \notin RecoverRows /\ tabs'[t] \notin RestoreRows
  BY <1>1, HandlerRows
<1> QED
  BY <1>2 DEF HandlerTrue

LEMMA RecoveringTrue ==
    ASSUME NEW t \in Tabs, tabs'[t] \in RecoverRows, RecoverTrue(t)'
    PROVE  HandlerTrue(t)'
<1>1. tabs'[t] \in Handlers /\ tabs'[t].step \in {"recovering", "confirmed"}
  BY DEF Handlers, RecoverRows
<1>2. /\ tabs'[t] \notin RecheckRows /\ tabs'[t] \notin AskRows /\ tabs'[t] \notin SentRows
      /\ tabs'[t] \notin RunRows /\ tabs'[t] \notin RestoreRows
  BY <1>1, HandlerRows
<1> QED
  BY <1>2 DEF HandlerTrue

LEMMA NoReviewTrue ==
    ASSUME NEW t \in Tabs, reviews'[t] = NoReview
    PROVE  ReviewTrue(t)'
BY DEF ReviewTrue, NoReview

-----------------------------------------------------------------------------
LEMMA FailsKeeps ==
    ASSUME JournalInv, TabsAssumption, JournalAssumption, NEW t \in Tabs,
           Finish(t), Prompted(t), DropReview(t) \/ reviews' = reviews,
           UNCHANGED <<fixed, intents, journal, ledger>>
    PROVE  JournalInv'
<1>1. Leaves(t, Idle) /\ (reviews'[t] = NoReview \/ reviews'[t] = reviews[t])
  BY DEF Leaves, Finish, Goto, Handlers, Idle, Asking, DropReview, JournalInv, Shapes
<1>2. tabs'[t] = Idle /\ Grows
  BY <1>1, LeavesStep
<1>3. ReviewTrue(t)'
  BY <1>1, <1>2, NoReviewTrue, ReviewStays DEF JournalInv, PagesTrue
<1>4. LockMove(t, Idle)
  BY FinishMoves DEF Finish
<1> QED
  BY <1>1, <1>2, <1>3, <1>4, IdleTrue, LeavesStep

LEMMA RunsKeeps ==
    ASSUME JournalInv, TabsAssumption, JournalAssumption, NEW t \in Tabs, RunStarts(t)
    PROVE  JournalInv'
<1> DEFINE c == [step |-> "running", records |-> journal]
<1>1. c \in RunRows /\ c \in Handlers /\ c.step \notin Asking /\ c.step = "running" /\ c.records = journal
  BY DEF RunRows, Handlers, Asking, JournalInv, Shapes
<1>2. tabs' = [tabs EXCEPT ![t] = c]
  BY DEF RunStarts, Goto
<1> HIDE DEF c
<1>3. Leaves(t, c) /\ reviews' = reviews
  BY <1>1, <1>2 DEF Leaves, RunStarts, Prompted, JournalInv, Shapes
<1>4. tabs'[t] = c /\ Grows
  BY <1>3, LeavesStep
<1>5. LockMove(t, c)
  BY <1>1, TakeMoves DEF RunStarts, JournalInv
<1>6. ReviewTrue(t)'
  BY <1>3, <1>4, ReviewStays DEF JournalInv, PagesTrue
<1>7. RunTrue(t)'
  BY <1>1, <1>3, <1>4 DEF RunTrue, RunStarts
<1> QED
  BY <1>1, <1>3, <1>4, <1>5, <1>6, <1>7, RunningTrue, LeavesStep

LEMMA ProbesKeeps ==
    ASSUME JournalInv, TabsAssumption, JournalAssumption, NEW t \in Tabs,
           NEW step \in {"probed", "simulating"}, tabs[t].step = "running",
           Goto(t, [tabs[t] EXCEPT !.step = step]), InT04 \/ step = "probed",
           InT04 /\ step = "probed" => reviews[t].action \notin HoldSimulations,
           UNCHANGED <<fixed, intents, journal, lock, reviews, orphans, ledger>>
    PROVE  JournalInv'
<1> DEFINE c == [tabs[t] EXCEPT !.step = step]
<1>1. tabs[t] \in RunRows /\ tabs[t] \in Handlers
  BY HandlerRows DEF JournalInv, Shapes
<1>2. /\ c \in RunRows /\ c.step = step /\ c.records = tabs[t].records
      /\ c.step \notin Asking /\ c \in Handlers /\ c.step # "restoring"
  BY <1>1 DEF RunRows, Handlers, Asking
<1>3. tabs' = [tabs EXCEPT ![t] = c]
  BY DEF Goto
<1> HIDE DEF c
<1>4. Leaves(t, c)
  BY <1>2, <1>3 DEF Leaves, Prompted, JournalInv, Shapes
<1>5. tabs'[t] = c /\ Grows
  BY <1>4, LeavesStep
<1>6. LockMove(t, c)
  BY <1>2, KeepMoves DEF JournalInv, Exclusive
<1>7. ReviewTrue(t)'
  BY <1>5, ReviewStays DEF JournalInv, PagesTrue
<1>8. RunTrue(t) /\ milestone' = milestone
  BY <1>1, HandlerRows DEF JournalInv, PagesTrue, HandlerTrue, fixed
<1>9. RunTrue(t)'
  BY <1>2, <1>5, <1>8 DEF RunTrue, InT04
<1> QED
  BY <1>2, <1>4, <1>5, <1>6, <1>7, <1>9, RunningTrue, LeavesStep

-----------------------------------------------------------------------------
(***************************************************************************)
(* Reviews and what a page does without writing.                           *)
(***************************************************************************)
LEMMA GoesOnKeeps ==
    ASSUME JournalInv, TabsAssumption, JournalAssumption, NEW t \in Tabs, tabs[t] \in RecoverRows,
           NEW status, GoesOn(t, status),
           UNCHANGED <<fixed, intents, journal, reviews, orphans, ledger>>
    PROVE  JournalInv'
<1>1. PICK c \in {Idle, [step |-> "rechecking", left |-> tabs[t].left]} :
         /\ c \in Handlers /\ c.step \notin Asking
         /\ tabs' = [tabs EXCEPT ![t] = c]
         /\ LockMove(t, c)
  BY GoesOnMoves DEF JournalInv
<1>2. Leaves(t, c)
  BY <1>1 DEF Leaves, Prompted, JournalInv, Shapes
<1>3. tabs'[t] = c /\ Grows /\ HashesStay /\ Ledger
  BY <1>2, LeavesStep
<1>4. ReviewTrue(t)'
  BY <1>3, ReviewStays DEF JournalInv, PagesTrue
<1>5. HandlerTrue(t)'
  <2>1. CASE c = Idle
    BY <2>1, <1>3, IdleTrue
  <2>2. CASE c = [step |-> "rechecking", left |-> tabs[t].left]
    <3> DEFINE left == tabs[t].left
    <3>1. left \in Seq(RecordRows)
      BY DEF RecoverRows
    <3>2. LeftTrue(left)
      <4>1. RecoverTrue(t)
        BY DEF JournalInv, PagesTrue, HandlerTrue
      <4> QED
        BY <4>1 DEF RecoverTrue
    <3>3. tabs'[t] = [step |-> "rechecking", left |-> left]
      BY <2>2, <1>3
    <3> HIDE DEF left
    <3>4. \A x : x = left => LeftTrue(x)'
      <4> SUFFICES ASSUME NEW x, x = left PROVE LeftTrue(x)'
        OBVIOUS
      <4> QED
        BY <3>2, <1>3, LeftStays
    <3>5. PICK x : x = left
      OBVIOUS
    <3>6. x \in Seq(RecordRows) /\ LeftTrue(x)' /\ tabs'[t] = [step |-> "rechecking", left |-> x]
      BY <3>1, <3>3, <3>4, <3>5
    <3> QED
      BY <3>6, RecheckTrue
  <2> QED
    BY <2>1, <2>2, <1>1
<1> QED
  BY <1>1, <1>2, <1>4, <1>5, LeavesStep

LEMMA RecheckLeft ==
    ASSUME Shapes, RecordsTrue
    PROVE  ToRecheck(journal) \in Seq(RecordRows) /\ LeftTrue(ToRecheck(journal))
<1> DEFINE keep == {i \in DOMAIN journal :
                      journal[i].status \in {"complete", "failed"} /\ journal[i].hash # NoHash}
           left == Pick(journal, keep)
<1>0. ToRecheck(journal) = left
  BY DEF ToRecheck
<1>1. keep \in SUBSET (DOMAIN journal)
  OBVIOUS
<1>2. left \in Seq(RecordRows) /\ Members(left) = {journal[i] : i \in keep}
  <2> HIDE DEF keep
  <2> QED
    BY <1>1, PickKeeps DEF Shapes
<1> HIDE DEF left
<1>3. ASSUME NEW r \in Members(left)
      PROVE  /\ RecordTrue(r) /\ r.hash \in DOMAIN txs
             /\ InT03 => \E q \in Members(journal) : q.hash = r.hash
  <2>1. r \in Members(journal) /\ r.status \in {"complete", "failed"} /\ r.hash # NoHash
    BY <1>2 DEF Members
  <2> HIDE DEF keep
  <2>2. RecordTrue(r) /\ Resolved(r)
    BY <2>1 DEF RecordsTrue, Resolved
  <2>3. r.hash \in DOMAIN txs
    BY <2>1, <2>2 DEF RecordTrue, Mined
  <2> QED
    BY <2>1, <2>2, <2>3
<1>4. LeftTrue(left)
  BY <1>3 DEF LeftTrue
<1> QED
  BY <1>0, <1>2, <1>4

(* A review starts, in T05 with the lock.                                  *)
LEMMA ReviewKeeps ==
    ASSUME JournalInv, TabsAssumption, JournalAssumption, NEW t \in Tabs, tabs[t] = Idle,
           Goto(t, [step |-> "rechecking", left |-> ToRecheck(journal)]),
           DropReview(t), (lock' = lock /\ ~InT05) \/ Take(t),
           UNCHANGED <<fixed, intents, journal, orphans, ledger>>
    PROVE  JournalInv'
<1>1. PICK left : left = ToRecheck(journal)
  OBVIOUS
<1>2. left \in Seq(RecordRows) /\ LeftTrue(left)
  BY <1>1, RecheckLeft DEF JournalInv, JournalTrue
<1>3. PICK c : c = [step |-> "rechecking", left |-> left]
  OBVIOUS
<1>4. c \in Handlers /\ c.step = "rechecking" /\ c.step \notin Asking /\ tabs' = [tabs EXCEPT ![t] = c]
  BY <1>1, <1>2, <1>3 DEF Handlers, RecheckRows, Asking, Goto
<1>5. Leaves(t, c) /\ reviews'[t] = NoReview
  BY <1>4 DEF Leaves, Prompted, DropReview, JournalInv, Shapes
<1>6. tabs'[t] = c /\ Grows /\ HashesStay /\ Ledger
  BY <1>5, LeavesStep
<1>7. LockMove(t, c)
  <2>1. CASE Take(t)
    BY <2>1, <1>4, TakeMoves DEF JournalInv
  <2>2. CASE lock' = lock /\ ~InT05
    BY <2>2, <1>4 DEF LockMove, Exclusive
  <2> QED
    BY <2>1, <2>2
<1>8. LeftTrue(left)'
  BY <1>2, <1>6, LeftStays
<1> QED
  BY <1>2, <1>3, <1>5, <1>6, <1>7, <1>8, NoReviewTrue, RecheckTrue, LeavesStep

LEMMA ReadsKeeps ==
    ASSUME JournalInv, TabsAssumption, JournalAssumption, NEW t \in Tabs, ReadsState(t)
    PROVE  JournalInv'
<1>1. PICK c : c = [step |-> "read", state |-> Now, time |-> time]
  OBVIOUS
<1>2. /\ c \in Handlers /\ c.step = "read" /\ c.step \notin Asking /\ c \in ReadRows
      /\ tabs' = [tabs EXCEPT ![t] = c]
  <2>1. Now \in Nat /\ time \in Nat
    BY DEF JournalInv, Shapes, Now
  <2> QED
    BY <1>1, <2>1 DEF Handlers, ReadRows, Asking, Goto, ReadsState
<1>3. Leaves(t, c) /\ reviews'[t] = reviews[t]
  BY <1>2 DEF Leaves, ReadsState, Prompted, JournalInv, Shapes
<1>4. tabs'[t] = c /\ Grows
  BY <1>3, LeavesStep
<1>5. LockMove(t, c)
  BY <1>2 DEF LockMove, Exclusive, ReadsState, JournalInv, Locks, LockHeld
<1>6. ReviewTrue(t)'
  BY <1>3, <1>4, ReviewStays DEF JournalInv, PagesTrue
<1> QED
  BY <1>2, <1>3, <1>4, <1>5, <1>6, IdleTrue, LeavesStep

LEMMA OffersKeeps ==
    ASSUME JournalInv, TabsAssumption, JournalAssumption, NEW t \in Tabs, tabs[t].step = "read",
           NEW action \in AllActions, NEW hold \in Hashes, NEW expiry \in Nat,
           InT04 /\ action # "create-hold" => hold \in HoldHash(journal),
           Offers(t, action, hold, expiry)
    PROVE  JournalInv'
<1>1. tabs[t] \in Handlers /\ tabs[t] \in ReadRows
  BY HandlerRows DEF JournalInv, Shapes
<1>2. PICK row : row = [action |-> action, hold |-> hold, expiry |-> expiry,
                        state |-> tabs[t].state, journal |-> journal]
  OBVIOUS
<1>3. /\ row \in ReviewRows /\ row.action = action /\ row.hold = hold /\ row.journal = journal
      /\ row # NoReview
  <2>1. tabs[t].state \in Nat /\ journal \in Seq(RecordRows)
    BY <1>1 DEF ReadRows, JournalInv, Shapes
  <2> QED
    BY <1>2, <2>1 DEF ReviewRows, NoReview
<1>4. reviews' = [reviews EXCEPT ![t] = row]
  BY <1>2 DEF Offers
<1>5. Leaves(t, Idle) /\ reviews'[t] = row
  BY <1>3, <1>4 DEF Leaves, Offers, Finish, Goto, Prompted, Handlers, Idle, Asking, JournalInv, Shapes
<1>6. tabs'[t] = Idle /\ Grows /\ HashesStay /\ Ledger
  BY <1>5, LeavesStep
<1>7. \A r \in Members(journal) : r.op \in Ops
  BY DEF JournalInv, JournalTrue, RecordsTrue, RecordTrue
<1>8. ReviewTrue(t)'
  <2>1. \A r \in Members(journal) : r.op \in Ops' /\ Action(r.op)' = Action(r.op)
    BY <1>6, <1>7, CallStays
  <2>2. HoldHash(journal)' = HoldHash(journal) /\ InT04' = InT04
    BY <2>1, <1>5 DEF HoldHash, Completed, Members, Leaves, fixed, InT04
  <2>3. Members(row.journal) = Members(journal) /\ Members(row.journal)' = Members(journal)
        /\ HoldHash(row.journal)' = HoldHash(journal)'
    BY <1>3, <1>5 DEF Members, Leaves
  <2>4. reviews'[t] = row
    BY <1>5
  <2>5. \A r \in Members(row.journal)' : r.op \in Ops'
    BY <2>1, <2>3
  <2>6. (InT04 /\ row.action # "create-hold")' => (row.hold \in HoldHash(row.journal))'
    BY <2>2, <2>3, <1>3
  <2>7. (\A r \in Members(reviews[t].journal) : r.op \in Ops)'
    BY <2>4, <2>5 DEF Members
  <2>8. (InT04 /\ reviews[t].action # "create-hold" =>
             reviews[t].hold \in HoldHash(reviews[t].journal))'
    BY <2>4, <2>6 DEF HoldHash, Completed, Members
  <2> QED
    BY <2>7, <2>8 DEF ReviewTrue
<1>9. LockMove(t, Idle)
  BY FinishMoves DEF Offers, Finish
<1> QED
  BY <1>5, <1>6, <1>8, <1>9, IdleTrue, LeavesStep

-----------------------------------------------------------------------------
(* What comes next has not been done, and nothing is unsettled.            *)
LEMMA LifecycleNextNew ==
    ASSUME NEW state, NEW records, NEW action, action = LifecycleNext(state, records), action # "none"
    PROVE  action \in AllActions /\ Settled(records) /\ action \notin Did(state)
<1> DEFINE did == Did(state)
           missing == {i \in DOMAIN RoleActions : RoleActions[i] \notin did}
           granted == Completed(records, "seller-kyc") # {}
           over == \/ ~Settled(records)
                   \/ Completed(records, "issue") # {}
                   \/ "issue" \in did
                   \/ granted # ("seller-kyc" \in did)
           least == CHOOSE i \in missing : \A j \in missing : i <= j
<1>1. action = IF over THEN "none"
               ELSE IF missing # {} THEN RoleActions[least]
               ELSE IF "register-issuer" \notin did THEN "register-issuer"
               ELSE IF granted THEN "issue" ELSE "seller-kyc"
  BY DEF LifecycleNext
<1>2. missing # {} => least \in missing
  <2>1. missing \in SUBSET Nat
    BY DEF RoleActions
  <2> HIDE DEF missing
  <2> QED
    BY <2>1, LeastPosition
<1>3. {"register-issuer", "issue", "seller-kyc"} \cup {RoleActions[i] : i \in DOMAIN RoleActions} \subseteq AllActions
  <2>1. \A i \in 1..6 : LifecycleActions[i] \in AllActions
    BY DEF AllActions, LifecycleActions, RoleActions
  <2>2. LifecycleActions[1] = "issuer-role" /\ LifecycleActions[2] = "ssi-role" /\ LifecycleActions[3] = "kyc-role"
        /\ LifecycleActions[4] = "register-issuer" /\ LifecycleActions[5] = "seller-kyc"
        /\ LifecycleActions[6] = "issue"
    BY DEF LifecycleActions, RoleActions
  <2>3. {RoleActions[i] : i \in DOMAIN RoleActions} = {"issuer-role", "ssi-role", "kyc-role"}
    BY DEF RoleActions
  <2> QED
    BY <2>1, <2>2, <2>3
<1>4. /\ missing # {} => RoleActions[least] \notin did /\ RoleActions[least] \in AllActions
      /\ over \/ (Settled(records) /\ "issue" \notin did /\ granted = ("seller-kyc" \in did))
  BY <1>2, <1>3
<1> HIDE DEF did, missing, over, least, granted
<1> QED
  BY <1>1, <1>3, <1>4 DEF did

LEMMA LifecycleOffersKeeps ==
    ASSUME JournalInv, TabsAssumption, JournalAssumption, NEW t \in Tabs, LifecycleOffers(t)
    PROVE  JournalInv'
<1>1. PICK action : action = LifecycleNext(tabs[t].state, journal)
  OBVIOUS
<1>2. tabs[t].step = "read" /\ InT03 /\ action # "none" /\ Offers(t, action, NoHash, 0)
  BY <1>1 DEF LifecycleOffers
<1>3. action \in AllActions
  BY <1>1, <1>2, LifecycleNextNew
<1>4. NoHash \in Hashes /\ 0 \in Nat
  BY DEF NoHash, Hashes
<1>5. ~InT04
  BY <1>2 DEF InT03, InT04
<1> QED
  BY <1>2, <1>3, <1>4, <1>5, OffersKeeps

(* The hash of a completed record is one, or none.                         *)
LEMMA CompletedRows ==
    ASSUME Shapes, RecordsTrue, NEW action, NEW r \in Completed(journal, action)
    PROVE  r.hash \in Hashes /\ r.op \in Ops /\ r \in Members(journal) /\ intents[r.op].expiry \in Nat
<1>1. r \in Members(journal) /\ r.op \in Ops
  BY DEF Completed, RecordsTrue, RecordTrue
<1>2. r.hash \in Hashes
  BY <1>1, MembersRows DEF Shapes
<1>3. intents[r.op].expiry \in Nat
  BY <1>1, IntentTyped
<1> QED
  BY <1>1, <1>2, <1>3

(* The token has done what the records say, and the next is none of it.    *)
LEMMA HoldNextNew ==
    ASSUME NEW state, NEW now, NEW records, NEW action, action = HoldNext(state, now, records),
           action # "none"
    PROVE  /\ action \in AllActions /\ Settled(records) /\ action \notin Did(state)
           /\ HashOf("create-hold", state) = HoldHash(records)
           /\ action \in {"execute", "release"} => "buyer-kyc" \in Did(state)
           /\ action = "release" => "execute" \in Did(state)
           /\ action \notin HoldSimulations =>
                 action \in {"create-hold", "buyer-kyc", "execute", "release"}
<1> DEFINE done == {i \in DOMAIN HoldActions : Completed(records, HoldActions[i]) # {}}
           n == Cardinality(done)
           conds ==
             /\ Settled(records)
             /\ done = 1..n /\ n < Len(HoldActions)
             /\ \A i \in done : Cardinality(Completed(records, HoldActions[i])) = 1
             /\ Once(state)
             /\ Did(state) = {HoldActions[i] : i \in done} \ HoldSimulations
             /\ HashOf("create-hold", state) = HoldHash(records)
             /\ now < HoldExpiry(records, now)
             /\ \A r \in Completed(records, "buyer-kyc") : intents[r.op].digest
<1>1. action = IF conds THEN HoldActions[n + 1] ELSE "none"
  BY DEF HoldNext
<1>2. Len(HoldActions) = 6 /\ DOMAIN HoldActions = 1..6
  BY DEF HoldActions
<1>3. n \in Nat
  <2>1. done \in SUBSET (1..6)
    BY <1>2
  <2>2. PICK six \in Nat : six = 6
    OBVIOUS
  <2>3. IsFiniteSet(1..six)
    BY ONLY six \in Nat, FS_Interval
  <2> HIDE DEF done
  <2> QED
    BY <2>1, <2>2, <2>3, FS_Subset, FS_CardinalityType
<1>4. conds => /\ Settled(records) /\ n < 6 /\ Did(state) = {HoldActions[i] : i \in 1..n} \ HoldSimulations
               /\ HashOf("create-hold", state) = HoldHash(records)
  BY <1>2
<1> HIDE DEF done, n, conds
<1>5. /\ action = HoldActions[n + 1] /\ Settled(records) /\ n \in {0, 1, 2, 3, 4, 5}
      /\ Did(state) = {HoldActions[i] : i \in 1..n} \ HoldSimulations
      /\ HashOf("create-hold", state) = HoldHash(records)
  BY <1>1, <1>3, <1>4
<1>6. action \in AllActions
  BY <1>2, <1>5 DEF AllActions
<1>7. /\ HoldActions[1] = "create-hold" /\ HoldActions[2] = "kyc-negative" /\ HoldActions[3] = "buyer-kyc"
      /\ HoldActions[4] = "permission-negative" /\ HoldActions[5] = "execute" /\ HoldActions[6] = "release"
  BY DEF HoldActions
<1>8. \A i \in 1..n : HoldActions[i] # HoldActions[n + 1]
  BY <1>5, <1>7
<1>9. action \notin Did(state)
  BY <1>5, <1>8
<1>10. action \in {"execute", "release"} => n >= 4 /\ (action = "release" => n >= 5)
  BY <1>5, <1>7
<1>11. /\ action \in {"execute", "release"} => "buyer-kyc" \in Did(state)
       /\ action = "release" => "execute" \in Did(state)
  BY <1>3, <1>5, <1>7, <1>10 DEF HoldSimulations
<1>12. action \notin HoldSimulations => action \in {"create-hold", "buyer-kyc", "execute", "release"}
  BY <1>5, <1>7 DEF HoldSimulations
<1> QED
  BY <1>5, <1>6, <1>9, <1>11, <1>12

LEMMA HoldOffersKeeps ==
    ASSUME JournalInv, TabsAssumption, JournalAssumption, NEW t \in Tabs, HoldOffers(t)
    PROVE  JournalInv'
<1>1. PICK action : action = HoldNext(tabs[t].state, tabs[t].time, journal)
  OBVIOUS
<1>2. tabs[t].step = "read" /\ InT04 /\ action # "none"
  BY <1>1 DEF HoldOffers
<1>3. action \in AllActions
  BY <1>1, <1>2, HoldNextNew
<1>4. PICK hold \in IF action = "create-hold" THEN {NoHash} ELSE HoldHash(journal) :
         Offers(t, action, hold, HoldExpiry(journal, tabs[t].time))
  BY <1>1 DEF HoldOffers
<1>5. hold \in Hashes
  BY <1>4, CompletedRows DEF NoHash, Hashes, HoldHash, JournalInv, JournalTrue
<1>6. HoldExpiry(journal, tabs[t].time) \in Nat
  <2>1. tabs[t].time \in Nat
    BY <1>2, HandlerRows DEF JournalInv, Shapes, ReadRows
  <2> DEFINE created == Completed(journal, "create-hold")
  <2>2. CASE created = {}
    BY <2>1, <2>2 DEF HoldExpiry, JournalAssumption
  <2>3. CASE created # {}
    <3>1. (CHOOSE r \in created : TRUE) \in created
      BY <2>3
    <3>2. intents[(CHOOSE r \in created : TRUE).op].expiry \in Nat
      BY <3>1, CompletedRows DEF JournalInv, JournalTrue
    <3> QED
      BY <3>2, <2>3 DEF HoldExpiry
  <2> QED
    BY <2>2, <2>3
<1> QED
  BY <1>2, <1>3, <1>4, <1>5, <1>6, OffersKeeps

LEMMA TradeExpiryNatural ==
    ASSUME Shapes, RecordsTrue, JournalAssumption, NEW now \in Nat
    PROVE  TradeExpiry(journal, now) \in Nat
<1> DEFINE made == Completed(journal, "lock") \cup Completed(journal, "deploy")
<1>1. CASE made = {}
  BY <1>1 DEF TradeExpiry, JournalAssumption
<1>2. CASE made # {}
  <2>1. (CHOOSE r \in made : TRUE) \in made
    BY <1>2
  <2>2. intents[(CHOOSE r \in made : TRUE).op].expiry \in Nat
    BY <2>1, CompletedRows
  <2> QED
    BY <2>2, <1>2 DEF TradeExpiry
<1> QED
  BY <1>1, <1>2

LEMMA TradeOfferedNames ==
    ASSUME NEW state, NEW now, NEW records, NEW action \in TradeOffered(state, now, records)
    PROVE  action \in TradeNames
<1>1. TradeNext(state, now, records) \in
        {"none", "complete", "duplicate-negative", "reclaim", "deploy", "lock", "purchase-negative", "settle"}
  BY DEF TradeNext
<1> QED
  BY <1>1 DEF TradeOffered, TradeNames, TradeEnds, TradeSimulations

LEMMA TradeOffersKeeps ==
    ASSUME JournalInv, TabsAssumption, JournalAssumption, NEW t \in Tabs, TradeOffers(t)
    PROVE  JournalInv'
<1>1. tabs[t].step = "read" /\ InT05 /\ ~InT04
  BY DEF TradeOffers, InT04, InT05
<1>2. PICK action \in TradeOffered(tabs[t].state, tabs[t].time, journal) :
         \E hold \in CASE action = "deploy" -> {NoHash}
                       [] action = "lock" -> TradeHash(journal, "deploy")
                       [] OTHER -> TradeHash(journal, "lock") :
            Offers(t, action, hold, TradeExpiry(journal, tabs[t].time))
  BY DEF TradeOffers
<1>3. PICK hold \in {NoHash} \cup TradeHash(journal, "deploy") \cup TradeHash(journal, "lock") :
         Offers(t, action, hold, TradeExpiry(journal, tabs[t].time))
  BY <1>2
<1>4. hold \in Hashes
  BY CompletedRows DEF NoHash, Hashes, TradeHash, JournalInv, JournalTrue
<1>5. action \in AllActions
  BY TradeOfferedNames DEF AllActions
<1>6. TradeExpiry(journal, tabs[t].time) \in Nat
  <2>1. tabs[t].time \in Nat
    BY <1>1, HandlerRows DEF JournalInv, Shapes, ReadRows
  <2> QED
    BY <2>1, TradeExpiryNatural DEF JournalInv, JournalTrue
<1> QED
  BY <1>1, <1>3, <1>4, <1>5, <1>6, OffersKeeps

-----------------------------------------------------------------------------
(***************************************************************************)
(* A recovery starts.                                                      *)
(***************************************************************************)
Started(found, hash, action, left) ==
    /\ LeftTrue(left)
    /\ hash \in WrongHashes \cup DOMAIN txs
    /\ \A op \in found : op \in Ops /\ Known(op) /\ Action(op) = action
    /\ \A o, p \in found : o = p
    /\ InT05 => found # {}
    /\ \A op \in found : Matched(op, hash) /\ Hashed(op, {NoHash, hash}) /\ (InT03 => Opened(op))

LEMMA StartedStays ==
    ASSUME Grows, HashesStay, Ledger, JournalAssumption, journal' = journal,
           NEW found, NEW hash, NEW action, NEW left, Started(found, hash, action, left),
           NEW t \in Tabs, tabs'[t].step = "recovering", tabs'[t].found = found,
           tabs'[t].hash = hash, tabs'[t].action = action, tabs'[t].records = journal,
           tabs'[t].left = left
    PROVE  RecoverTrue(t)'
<1>1. LeftTrue(left)'
  BY LeftStays DEF Started
<1>2. hash \in WrongHashes \cup DOMAIN txs' /\ (hash \in DOMAIN txs' => hash \in DOMAIN txs)
  BY HashStays DEF Started
<1>3. \A op \in found : op \in Ops' /\ Known(op)' /\ (Action(op) = action)'
  BY CallStays DEF Known, Members, Started
<1>4. \A op \in found : Matched(op, hash)' /\ Hashed(op, {NoHash, hash})' /\ (InT03' => Opened(op)')
  BY <1>2, MatchedStays DEF Hashed, Opened, Resolved, Members, Started, Grows, InT03
<1>5. LeftTrue(tabs[t].left)'
  BY <1>1 DEF LeftTrue
<1>7. InT05' => found # {}
  BY DEF InT05, Grows, Started
<1>8. (InT05 => tabs[t].found # {})' /\ \A o, p \in found : o = p
  BY <1>7 DEF Started
<1>9. (\A op \in tabs[t].found : op \in Ops /\ Known(op) /\ Action(op) = tabs[t].action)'
  BY <1>3 DEF Known, Action
<1>10. (\A op \in tabs[t].found : /\ Matched(op, tabs[t].hash) /\ Hashed(op, {NoHash, tabs[t].hash})
                                  /\ InT03 => Opened(op))'
  BY <1>4 DEF Matched, Hashed, Own, Mined, Opened, Call, Unsent
<1>11. (tabs[t].records = journal /\ tabs[t].hash \in WrongHashes \cup DOMAIN txs)'
  BY <1>2
<1> QED
  BY <1>5, <1>8, <1>9, <1>10, <1>11 DEF RecoverTrue

LEMMA RecoverStarts ==
    ASSUME JournalInv, TabsAssumption, JournalAssumption, NEW t \in Tabs,
           NEW found \in SUBSET Nat, NEW hash, NEW action \in AllActions,
           NEW left \in Seq(RecordRows), NEW expects \in Statuses \cup {NotForReview},
           Started(found, hash, action, left), Take(t),
           Goto(t, Recovering(found, hash, action, journal, left, expects)),
           UNCHANGED <<fixed, intents, journal, reviews, orphans, ledger>>
    PROVE  JournalInv'
<1>1. PICK c : c = Recovering(found, hash, action, journal, left, expects)
  OBVIOUS
<1>2. hash \in Hashes
  <2>1. DOMAIN txs \subseteq Nat
    BY DEF JournalInv, Shapes
  <2> QED
    BY <2>1 DEF Started, Hashes
<1>3. /\ c \in RecoverRows /\ c.step = "recovering" /\ c.found = found /\ c.hash = hash
      /\ c.action = action /\ c.records = journal /\ c.left = left
  <2>1. journal \in Seq(RecordRows)
    BY DEF JournalInv, Shapes
  <2> QED
    BY <1>1, <1>2, <2>1 DEF RecoverRows, Recovering
<1>4. c \in Handlers /\ c.step \notin Asking /\ c.step # "restoring" /\ tabs' = [tabs EXCEPT ![t] = c]
  BY <1>1, <1>3 DEF Handlers, Asking, Goto
<1>5. Leaves(t, c) /\ reviews' = reviews
  BY <1>4 DEF Leaves, Prompted, JournalInv, Shapes
<1>6. tabs'[t] = c /\ Grows /\ HashesStay /\ Ledger
  BY <1>5, LeavesStep
<1>7. LockMove(t, c)
  BY <1>4, TakeMoves DEF JournalInv
<1>8. ReviewTrue(t)'
  BY <1>5, <1>6, ReviewStays DEF JournalInv, PagesTrue
<1>9. RecoverTrue(t)'
  BY <1>3, <1>6, StartedStays
<1> QED
  BY <1>3, <1>5, <1>6, <1>7, <1>8, <1>9, RecoveringTrue, LeavesStep

-----------------------------------------------------------------------------
(* T03: the hash is recorded, or of the one operation that claims.         *)
LEMMA LifecycleMatched ==
    ASSUME Shapes, Ledger, RecordsTrue, OneClaim, Single(journal), JournalAssumption, InT03,
           NEW hash, NEW action,
           hash \in WrongHashes \cup DOMAIN txs,
           hash \in DOMAIN txs => \/ \E q \in Members(journal) : q.hash = hash
                                  \/ txs[hash].op \in Open(action)
                                  \/ Open(action) = {},
           \A r \in Members(journal) :
              r.op \in LifecycleFinds(journal, hash, action) =>
                 Action(r.op) = action /\ r.hash \in {NoHash, hash},
           NEW op \in LifecycleFinds(journal, hash, action)
    PROVE  op \in Ops /\ Known(op) /\ Action(op) = action /\ Matched(op, hash)
           /\ Hashed(op, {NoHash, hash}) /\ Opened(op)
<1> DEFINE byHash == FirstOf(journal, {r \in Members(journal) : r.hash = hash})
           open == FirstOf(journal, Unresolved(journal, action))
<1>1. /\ \A o \in byHash : \E r \in Members(journal) : r.hash = hash /\ r.op = o
      /\ byHash = {} => \A r \in Members(journal) : r.hash # hash
  <2>1. PICK wanted : wanted = {r \in Members(journal) : r.hash = hash}
    OBVIOUS
  <2>2. byHash = FirstOf(journal, wanted) /\ journal \in Seq(RecordRows)
    BY <2>1 DEF Shapes
  <2> HIDE DEF byHash
  <2>3. /\ \A o \in byHash : \E r \in Members(journal) : r \in wanted /\ r.op = o
        /\ byHash = {} => \A r \in Members(journal) : r \notin wanted
    BY <2>2, FirstOfFinds
  <2> QED
    BY <2>1, <2>3
<1>2. \A o \in open : \E r \in Unresolved(journal, action) : r.op = o
  <2>1. \A r \in Unresolved(journal, action) : r \in Members(journal)
    BY DEF Unresolved
  <2> QED
    BY <2>1, FirstOfFinds DEF Shapes
<1>3. op \in IF byHash # {} THEN byHash ELSE open
  BY DEF LifecycleFinds
<1> HIDE DEF byHash, open
<1>4. \E r \in Members(journal) : r.op = op
  BY <1>1, <1>2, <1>3 DEF Unresolved
<1>5. op \in Ops /\ Known(op) /\ Action(op) = action /\ Hashed(op, {NoHash, hash})
  BY <1>4 DEF Known, Hashed, RecordsTrue, RecordTrue
<1>6. ASSUME hash \in DOMAIN txs PROVE Own(op, hash) /\ Call(op) = Call(txs[hash].op)
  <2>1. CASE byHash # {}
    <3>1. PICK r \in Members(journal) : r.hash = hash /\ r.op = op
      BY <2>1, <1>1, <1>3
    <3> QED
      BY <3>1, <1>6 DEF RecordsTrue, RecordTrue
  <2>2. CASE byHash = {}
    <3>1. PICK r \in Unresolved(journal, action) : r.op = op
      BY <2>2, <1>2, <1>3
    <3>2. r \in Members(journal) /\ Claims(r) /\ op \in Claimed
      <4>1. r \in Members(journal) /\ ~Resolved(r) /\ r.hash # hash
        BY <3>1, <2>2, <1>1 DEF Unresolved
      <4>2. r.hash = NoHash
        BY <4>1, <3>1, <1>5 DEF Hashed
      <4> QED
        BY <3>1, <4>1, <4>2 DEF Claims, Claimed
    <3>3. txs[hash].op \in Open(action)
      BY <3>1, <2>2, <1>1, <1>6 DEF Open
    <3>4. PICK r2 \in Unresolved(journal, action) : r2.op = txs[hash].op
      BY <3>3 DEF Open
    <3>5. r2 \in Members(journal) /\ ~Resolved(r2) /\ r2.hash # hash
      BY <3>4, <2>2, <1>1 DEF Unresolved
    <3>6. r2.hash = NoHash
      BY <3>4, <3>5, <1>6 DEF RecordsTrue, RecordTrue, Own
    <3>7. txs[hash].op \in Claimed
      BY <3>4, <3>5, <3>6 DEF Claims, Claimed
    <3>8. txs[hash].op = op
      BY <3>2, <3>7 DEF OneClaim
    <3> QED
      BY <3>8, <1>6 DEF Own, Ledger
  <2> QED
    BY <2>1, <2>2
<1>7. Opened(op)
  <2>1. \A r, q \in Members(journal) : r.op = q.op => r = q
    BY DEF Single, Members
  <2>2. NoHash # hash
    <3>1. txs \in Seq(TxRows)
      BY DEF Shapes
    <3>2. NoHash \notin DOMAIN txs
      BY ONLY <3>1 DEF NoHash
    <3>3. NoHash \notin WrongHashes
      BY ONLY JournalAssumption DEF NoHash, JournalAssumption
    <3> QED
      BY <3>2, <3>3
  <2>3. \E r \in Members(journal) : r.op = op /\ (r.hash = hash \/ ~Resolved(r))
    BY <1>1, <1>2, <1>3 DEF Unresolved
  <2> QED
    BY <2>1, <2>2, <2>3 DEF Opened
<1> QED
  BY <1>5, <1>6, <1>7 DEF Matched

LEMMA LifecycleFindsOne ==
    ASSUME Shapes, NEW hash, NEW action
    PROVE  \A o, p \in LifecycleFinds(journal, hash, action) : o = p
<1>1. journal \in Seq(RecordRows)
  BY DEF Shapes
<1>2. \A wanted : \A o, p \in FirstOf(journal, wanted) : o = p
  BY <1>1, FirstOfFinds
<1> QED
  BY <1>2 DEF LifecycleFinds

LEMMA LifecycleRecoversKeeps ==
    ASSUME JournalInv, TabsAssumption, JournalAssumption, NEW t \in Tabs, InT03,
           NEW hash \in WrongHashes \cup DOMAIN txs, NEW action \in AllActions,
           NEW left \in Seq(RecordRows), NEW expects \in Statuses \cup {NotForReview},
           LeftTrue(left),
           hash \in DOMAIN txs => \/ \E q \in Members(journal) : q.hash = hash
                                  \/ txs[hash].op \in Open(action)
                                  \/ Open(action) = {},
           LifecycleRecovers(t, hash, action, left, expects)
    PROVE  JournalInv'
<1>1. PICK found : found = LifecycleFinds(journal, hash, action)
  OBVIOUS
<1>2. \A op \in found : op \in Ops /\ Known(op) /\ Action(op) = action /\ Matched(op, hash)
                        /\ Hashed(op, {NoHash, hash}) /\ Opened(op)
  <2>1. Single(journal)
    BY DEF JournalInv, JournalTrue, OneRecord, InT03, InT04
  <2> QED
    BY <2>1, <1>1, LifecycleMatched DEF JournalInv, JournalTrue, LifecycleRecovers
<1>3. \A o, p \in found : o = p
  BY <1>1, LifecycleFindsOne DEF JournalInv
<1>4. Started(found, hash, action, left)
  BY <1>2, <1>3 DEF Started, InT03, InT05
<1>5. found \in SUBSET Nat
  BY <1>2 DEF Ops, JournalInv, Shapes
<1> QED
  BY <1>1, <1>4, <1>5, RecoverStarts DEF LifecycleRecovers

LEMMA LifecycleQueryKeeps ==
    ASSUME JournalInv, TabsAssumption, JournalAssumption, NEW t \in Tabs,
           NEW action \in AllActions, NEW hash \in Typed(action), LifecycleQuery(t, hash, action)
    PROVE  JournalInv'
<1>1. PICK left \in Seq(RecordRows) : left = <<>>
  BY EmptySeq
<1>2. LeftTrue(left)
  BY <1>1 DEF LeftTrue, Members
<1>3. hash \in WrongHashes \cup DOMAIN txs
  BY DEF Typed
<1>4. WrongHashes \cap DOMAIN txs = {}
  <2>1. DOMAIN txs \subseteq Nat
    BY DEF JournalInv, Shapes
  <2> QED
    BY <2>1 DEF JournalAssumption
<1>5. hash \in DOMAIN txs => \/ \E q \in Members(journal) : q.hash = hash
                             \/ txs[hash].op \in Open(action)
                             \/ Open(action) = {}
  BY <1>4 DEF Typed, Unresolved
<1> QED
  BY <1>1, <1>2, <1>3, <1>5, LifecycleRecoversKeeps DEF LifecycleQuery

(* What a page still has to recheck, when it goes on.                      *)
LEMMA LeftGoesOn ==
    ASSUME JournalInv, NEW t \in Tabs, tabs[t].step = "rechecking", tabs[t].left # <<>>
    PROVE  /\ Tail(tabs[t].left) \in Seq(RecordRows) /\ LeftTrue(Tail(tabs[t].left))
           /\ LET r == tabs[t].left[1]
              IN  /\ r \in RecordRows /\ r.op \in Ops /\ r.hash \in DOMAIN txs /\ r.status \in Statuses
                  /\ RecordTrue(r) /\ Action(r.op) \in AllActions
                  /\ InT03 => \E q \in Members(journal) : q.hash = r.hash
<1>1. tabs[t] \in RecheckRows
  BY HandlerRows DEF JournalInv, Shapes
<1>2. PICK left : left = tabs[t].left
  OBVIOUS
<1>3. left \in Seq(RecordRows) /\ left # <<>>
  BY <1>1, <1>2 DEF RecheckRows
<1>4. LeftTrue(left)
  BY <1>1, <1>2 DEF JournalInv, PagesTrue, HandlerTrue
<1>5. 1 \in DOMAIN left /\ Tail(left) \in Seq(RecordRows)
      /\ \A i \in DOMAIN Tail(left) : i + 1 \in DOMAIN left /\ Tail(left)[i] = left[i + 1]
  BY <1>3
<1>6. LeftTrue(Tail(left))
  BY <1>4, <1>5 DEF LeftTrue, Members
<1>7. PICK r : r = left[1]
  OBVIOUS
<1>8. r \in Members(left) /\ r \in RecordRows
  BY <1>3, <1>5, <1>7 DEF Members
<1>9. /\ r.op \in Ops /\ r.hash \in DOMAIN txs
      /\ RecordTrue(r) /\ (InT03 => \E q \in Members(journal) : q.hash = r.hash)
  BY <1>4, <1>8 DEF LeftTrue, RecordTrue
<1>10. r.status \in Statuses /\ Action(r.op) \in AllActions
  BY <1>8, <1>9, IntentTyped DEF RecordRows, JournalInv, Action
<1> QED
  BY <1>2, <1>5, <1>6, <1>7, <1>8, <1>9, <1>10

LEMMA LifecycleRechecksKeeps ==
    ASSUME JournalInv, TabsAssumption, JournalAssumption, NEW t \in Tabs, LifecycleRechecks(t)
    PROVE  JournalInv'
<1>1. PICK r : r = tabs[t].left[1]
  OBVIOUS
<1>2. /\ InT03 /\ tabs[t].step = "rechecking" /\ tabs[t].left # <<>>
      /\ LifecycleRecovers(t, r.hash, Action(r.op), Tail(tabs[t].left), r.status)
  BY <1>1 DEF LifecycleRechecks
<1>3. /\ r.hash \in DOMAIN txs /\ r.status \in Statuses /\ Action(r.op) \in AllActions
      /\ (\E q \in Members(journal) : q.hash = r.hash)
      /\ Tail(tabs[t].left) \in Seq(RecordRows) /\ LeftTrue(Tail(tabs[t].left))
  BY <1>1, <1>2, LeftGoesOn
<1>4. PICK left, hash, action, expects :
         left = Tail(tabs[t].left) /\ hash = r.hash /\ action = Action(r.op) /\ expects = r.status
  OBVIOUS
<1>5. \A x : x = Tail(tabs[t].left) => LeftTrue(x)
  BY <1>3
<1>6. LeftTrue(left)
  BY <1>4, <1>5
<1>7. /\ hash \in WrongHashes \cup DOMAIN txs /\ action \in AllActions
      /\ left \in Seq(RecordRows) /\ expects \in Statuses \cup {NotForReview}
      /\ \E q \in Members(journal) : q.hash = hash
  BY <1>3, <1>4
<1>8. LifecycleRecovers(t, hash, action, left, expects)
  BY <1>2, <1>4
<1> QED
  BY <1>2, <1>6, <1>7, <1>8, LifecycleRecoversKeeps

-----------------------------------------------------------------------------
(* T04: the hash is of the operation found, or the calldata differ.        *)
LEMMA HoldMatched ==
    ASSUME Shapes, Ledger, RecordsTrue, OneClaim, HoldsTrue, InT04, NEW hash, NEW action,
           HoldFits(journal, hash, action),
           NEW op \in HoldFinds(journal, hash, action)
    PROVE  op \in Ops /\ Known(op) /\ Action(op) = action /\ Matched(op, hash)
           /\ Hashed(op, {NoHash, hash})
<1>1. PICK r \in Members(journal) :
         r \in {q \in Members(journal) : q.hash = hash} \cup Unresolved(journal, action) /\ r.op = op
  BY FirstOfFinds DEF HoldFinds, Shapes
<1>2. op \in Ops /\ Known(op) /\ Action(op) = action /\ Hashed(op, {NoHash, hash})
  BY <1>1 DEF Known, Hashed, RecordsTrue, RecordTrue, HoldFits
<1>3. ASSUME hash \in DOMAIN txs
      PROVE  \/ Own(op, hash) /\ Call(op) = Call(txs[hash].op)
             \/ InT04 /\ Mined(hash) /\ Call(op) # Call(txs[hash].op)
  <2>1. CASE r.hash = hash
    BY <2>1, <1>1, <1>3 DEF RecordsTrue, RecordTrue
  <2>2. CASE r.hash # hash
    <3>1. ~Resolved(r)
      BY <2>2, <1>1 DEF Unresolved
    <3>2. r.hash = NoHash
      BY <1>1, <1>2, <2>2 DEF Hashed
    <3>3. op \in Claimed
      BY <1>1, <3>1, <3>2 DEF Claims, Claimed
    <3>4. CASE txs[hash].op = op
      BY <3>4, <1>3 DEF Own, Ledger
    <3>5. CASE txs[hash].op # op
      <4>1. Call(op) # Call(txs[hash].op)
        BY <3>3, <3>5, <1>3 DEF HoldsTrue
      <4>2. txs[hash].op \notin Claimed
        BY <3>3, <3>5 DEF OneClaim
      <4>3. Mined(hash)
        BY <4>2, <1>3 DEF Claimed, Exposed, Sending, InFlight, Mined
      <4> QED
        BY <4>1, <4>3
    <3> QED
      BY <3>4, <3>5
  <2> QED
    BY <2>1, <2>2
<1> QED
  BY <1>2, <1>3 DEF Matched

LEMMA HoldRecoversKeeps ==
    ASSUME JournalInv, TabsAssumption, JournalAssumption, NEW t \in Tabs, InT04,
           NEW hash \in WrongHashes \cup DOMAIN txs, NEW action \in AllActions,
           NEW left \in Seq(RecordRows), NEW expects \in Statuses \cup {NotForReview},
           LeftTrue(left), HoldRecovers(t, hash, action, left, expects)
    PROVE  JournalInv'
<1>1. PICK found : found = HoldFinds(journal, hash, action)
  OBVIOUS
<1>2. \A op \in found : op \in Ops /\ Known(op) /\ Action(op) = action /\ Matched(op, hash)
                        /\ Hashed(op, {NoHash, hash})
  BY <1>1, HoldMatched DEF JournalInv, JournalTrue, HoldRecovers
<1>3. \A o, p \in found : o = p
  BY <1>1, FirstOfFinds DEF JournalInv, Shapes, HoldFinds
<1>4. Started(found, hash, action, left)
  BY <1>2, <1>3 DEF Started, InT03, InT04, InT05
<1>5. found \in SUBSET Nat
  BY <1>2 DEF Ops, JournalInv, Shapes
<1> QED
  BY <1>1, <1>4, <1>5, RecoverStarts DEF HoldRecovers, HoldRecovering

LEMMA HoldQueryKeeps ==
    ASSUME JournalInv, TabsAssumption, JournalAssumption, NEW t \in Tabs,
           NEW action \in AllActions, NEW hash \in Typed(action), HoldQuery(t, hash, action)
    PROVE  JournalInv'
<1>1. PICK left \in Seq(RecordRows) : left = <<>>
  BY EmptySeq
<1>2. LeftTrue(left)
  BY <1>1 DEF LeftTrue, Members
<1>3. hash \in WrongHashes \cup DOMAIN txs
  BY DEF Typed
<1> QED
  BY <1>1, <1>2, <1>3, HoldRecoversKeeps DEF HoldQuery

LEMMA HoldRechecksKeeps ==
    ASSUME JournalInv, TabsAssumption, JournalAssumption, NEW t \in Tabs, HoldRechecks(t)
    PROVE  JournalInv'
<1>1. PICK r : r = tabs[t].left[1]
  OBVIOUS
<1>2. /\ InT04 /\ tabs[t].step = "rechecking" /\ tabs[t].left # <<>>
      /\ HoldRecovers(t, r.hash, Action(r.op), Tail(tabs[t].left), r.status)
  BY <1>1 DEF HoldRechecks
<1>3. /\ r.hash \in DOMAIN txs /\ r.status \in Statuses /\ Action(r.op) \in AllActions
      /\ Tail(tabs[t].left) \in Seq(RecordRows) /\ LeftTrue(Tail(tabs[t].left))
  BY <1>1, <1>2, LeftGoesOn
<1>4. PICK left, hash, action, expects :
         left = Tail(tabs[t].left) /\ hash = r.hash /\ action = Action(r.op) /\ expects = r.status
  OBVIOUS
<1>5. \A x : x = Tail(tabs[t].left) => LeftTrue(x)
  BY <1>3
<1>6. LeftTrue(left)
  BY <1>4, <1>5
<1>7. /\ hash \in WrongHashes \cup DOMAIN txs /\ action \in AllActions
      /\ left \in Seq(RecordRows) /\ expects \in Statuses \cup {NotForReview}
  BY <1>3, <1>4
<1>8. HoldRecovers(t, hash, action, left, expects)
  BY <1>2, <1>4
<1> QED
  BY <1>2, <1>6, <1>7, <1>8, HoldRecoversKeeps

-----------------------------------------------------------------------------
(* T04: the record an export replaces is not of an operation still on its  *)
(* way, since that one has no other's calldata.                            *)
LEMMA RestoreReadsKeeps ==
    ASSUME JournalInv, TabsAssumption, JournalAssumption, NEW t \in Tabs,
           NEW exported \in exports, HoldRestoreReads(t, exported)
    PROVE  JournalInv'
<1> DEFINE found == FirstOf(journal, {r \in Members(journal) : r.op = exported.op}
                                        \cup Unresolved(journal, Action(exported.op)))
           IsTx == Action(exported.op) \in HoldTransactions
           record == IF IsTx THEN [exported EXCEPT !.status = "pending"] ELSE exported
           ops == IF found = {} THEN {exported.op} ELSE found
           c == [step |-> "restoring", found |-> ops, records |-> journal, record |-> record]
<1>1. /\ InT04 /\ exports # {} /\ tabs[t] = Idle /\ tabs' = [tabs EXCEPT ![t] = c]
      /\ RestoresAlone => lock = NoTab /\ \A u \in Tabs : tabs[u] = Idle
      /\ IsTx => exported.hash # NoHash
      /\ \A r \in Members(journal) : r.op \in found =>
            Call(r.op) = Call(exported.op) /\ r.hash \in {NoHash, exported.hash}
      /\ UNCHANGED <<fixed, intents, journal, lock, reviews, orphans, ledger>>
  BY DEF HoldRestoreReads, Goto
<1>2. lock = NoTab /\ \A u \in Tabs : tabs[u].step = "idle"
  BY <1>1 DEF JournalInv, Careful, Idle
<1>3. \A op \in found : \E r \in Members(journal) : r.op = op
  BY FirstOfFinds DEF JournalInv, Shapes
<1>4. /\ RecordTrue(exported) /\ exported.status = "complete" /\ exported \in RecordRows
      /\ exported.hash # NoHash => exported.hash \in DOMAIN txs /\ txs[exported.hash].op = exported.op
      /\ exported.hash = NoHash => Action(exported.op) \in HoldSimulations
  BY <1>1 DEF JournalInv, JournalTrue, ExportsTrue, Shapes, InT04, InT05
<1>5. /\ record \in RecordRows /\ record.op = exported.op /\ record.hash = exported.hash
      /\ record.status \in {"pending", "complete"}
      /\ record.status = "complete" => ~IsTx
      /\ record.status = "pending" => IsTx
  BY <1>4 DEF RecordRows, Statuses
<1>6. Resolved(exported) /\ (Resolved(record) => record.status = "complete")
      /\ (~Resolved(record) => IsTx)
  BY <1>4, <1>5 DEF Resolved
<1>7. RecordTrue(record) /\ ~Claims(record)
  <2>1. RecordTrue(record)
    BY <1>4, <1>5, <1>6 DEF RecordTrue
  <2> QED
    BY <1>1, <1>5, <1>6, <2>1 DEF Claims
<1>8. \A op \in ops : op \in Ops /\ op \notin Exposed
  <2>1. exported.op \in Ops /\ exported.op \notin Exposed
    <3>1. exported.op \in Ops /\ Own(exported.op, exported.hash)
      BY <1>4, <1>6 DEF RecordTrue
    <3>2. exported.op \notin Unsent
      BY <3>1 DEF Own
    <3>3. \A h \in DOMAIN txs : txs[h].op = exported.op => Mined(h)
      <4>1. \A h \in DOMAIN txs : txs[h].op = exported.op => h = exported.hash
        BY <3>1 DEF Own
      <4>2. exported.hash \in DOMAIN txs => exported.hash # NoHash
        BY DEF JournalInv, Shapes, NoHash
      <4> QED
        BY <1>4, <1>6, <4>1, <4>2 DEF RecordTrue
    <3> QED
      BY <3>1, <3>2, <3>3 DEF Exposed, Sending, InFlight, Mined
  <2>2. ASSUME NEW op \in found PROVE op \in Ops /\ op \notin Exposed
    <3>1. PICK r \in Members(journal) : r.op = op
      BY <1>3
    <3>2. Call(op) = Call(exported.op) /\ op \in Ops
      BY <3>1, <1>1 DEF JournalInv, JournalTrue, RecordsTrue, RecordTrue
    <3>3. CASE op = exported.op
      BY <3>3, <2>1
    <3>4. CASE op # exported.op /\ op \in Exposed
      <4>1. op \in Claimed
        BY <3>4 DEF Claimed
      <4>2. CASE exported.hash # NoHash
        BY <4>1, <4>2, <1>1, <1>4, <3>2, <3>4 DEF JournalInv, JournalTrue, HoldsTrue
      <4>3. CASE exported.hash = NoHash
        <5>1. HoldReady(op) /\ Action(op) = Action(exported.op)
          BY <3>2, <3>4, <1>1 DEF JournalInv, JournalTrue, HoldsTrue, Call, Action
        <5>2. Action(exported.op) \in HoldSimulations
          BY <4>3, <1>4
        <5> QED
          BY <5>1, <5>2 DEF HoldReady, HoldSimulations
      <4> QED
        BY <4>2, <4>3
    <3> QED
      BY <3>2, <3>3, <3>4
  <2> QED
    BY <2>1, <2>2
<1>9. ops \in SUBSET Nat /\ ops # {}
  <2>1. Ops \subseteq Nat
    BY DEF Ops, JournalInv, Shapes
  <2> HIDE DEF found
  <2> QED
    BY <1>8, <2>1
<1> HIDE DEF found, record, IsTx, ops
<1>10. /\ c \in RestoreRows /\ c.step = "restoring" /\ c.found = ops /\ c.records = journal
       /\ c.record = record
  BY <1>5, <1>9 DEF RestoreRows, JournalInv, Shapes
<1> HIDE DEF c
<1>11. c \in Handlers /\ c.step \notin Asking /\ c.step \notin Exclusive
       /\ c.step \notin {"rechecking", "read"}
  BY <1>10 DEF Handlers, Asking, Exclusive
<1>12. Leaves(t, c) /\ reviews'[t] = reviews[t]
  BY <1>1, <1>11 DEF Leaves, Prompted, JournalInv, Shapes
<1>13. tabs'[t] = c /\ Grows /\ HashesStay /\ Ledger
  BY <1>12, LeavesStep
<1>14. LockMove(t, c)
  BY <1>1, <1>2, <1>11 DEF LockMove
<1>15. ReviewTrue(t)'
  BY <1>12, <1>13, ReviewStays DEF JournalInv, PagesTrue
<1>16. RestoreTrue(t)'
  <2>1. PICK r : r = record
    OBVIOUS
  <2>2. RecordTrue(r) /\ ~Claims(r)
    BY <1>7, <2>1
  <2>3. RecordTrue(r)'
    BY <2>2, <1>13, RecordTrueStays
  <2>4. (RecordTrue(tabs[t].record) /\ ~Claims(tabs[t].record))'
    BY <1>10, <1>13, <2>1, <2>2, <2>3 DEF RecordTrue, Resolved, Claims
  <2>5. \A op \in ops : op \in Ops' /\ op \notin Exposed'
    BY <1>8, <1>13 DEF Grows
  <2> QED
    BY <1>1, <1>9, <1>10, <1>13, <2>4, <2>5 DEF RestoreTrue
<1>17. HandlerTrue(t)'
  <2>1. c \notin RunRows /\ c \notin AskRows /\ c \notin SentRows /\ c \notin RecheckRows
        /\ c \notin RecoverRows
    BY <1>10, <1>11, HandlerRows
  <2> QED
    BY <1>13, <1>16, <2>1 DEF HandlerTrue
<1> QED
  BY <1>12, <1>14, <1>15, <1>17, LeavesStep

-----------------------------------------------------------------------------
LEMMA HashKinds ==
    ASSUME Shapes, JournalAssumption
    PROVE  /\ DOMAIN txs \subseteq Nat /\ NoHash \notin DOMAIN txs
           /\ NoHash \notin WrongHashes /\ \A h \in DOMAIN txs : h \notin WrongHashes
<1>1. DOMAIN txs \subseteq Nat /\ NoHash \notin DOMAIN txs /\ NoHash \in Nat
  BY DEF Shapes, NoHash
<1> QED
  BY <1>1 DEF JournalAssumption

(***************************************************************************)
(* A page writes.                                                          *)
(***************************************************************************)
Writes(t, c, dropped, r) ==
    /\ tabs' = [tabs EXCEPT ![t] = c] /\ c \in Handlers /\ c.step \notin Asking
    /\ Prompted(t)
    /\ reviews' \in [Tabs -> {NoReview} \cup ReviewRows]
    /\ \A u \in Tabs : u # t => reviews'[u] = reviews[u]
    /\ Written(journal, journal', dropped, r)
    /\ (exports = {} \/ ~InT04) /\ Single(journal) => Single(journal')
    /\ InT03 => \A q \in Members(journal) : q.op \in dropped /\ q.hash \in DOMAIN txs => q.hash = r.hash
    /\ intents' = intents \/ \E row \in IntentRows : intents' = Append(intents, row)
    /\ UNCHANGED <<fixed, ledger>>

LEMMA WritesGrow ==
    ASSUME JournalInv, TabsAssumption, JournalAssumption, NEW t \in Tabs, NEW c, NEW dropped, NEW r,
           Writes(t, c, dropped, r)
    PROVE  /\ Grows /\ HashesStay /\ Ledger /\ Ledger'
           /\ tabs'[t] = c
           /\ Unsent' \subseteq Unsent /\ orphans' \subseteq Ops'
           /\ txs' = txs /\ chain' = chain /\ time' = time
           /\ intents' \in Seq(IntentRows)
           /\ intents' # intents => Ops' = Ops \cup {Len(intents) + 1}
           /\ Exposed' \subseteq Exposed
<1> USE DEF JournalInv
<1>1. /\ Unsent' \subseteq Unsent /\ orphans' \subseteq Ops
      /\ \A u \in Tabs : tabs'[u].step \in Asking => tabs'[u].op \in Ops \ orphans'
  BY PromptedStep DEF Writes
<1>2. /\ Grows /\ intents' \in Seq(IntentRows) /\ Ops \subseteq Ops'
      /\ intents' # intents => Ops' = Ops \cup {Len(intents) + 1}
  <2>1. UNCHANGED <<fixed, txs>> /\ (intents' = intents \/ \E row \in IntentRows : intents' = Append(intents, row))
    BY DEF Writes, ledger
  <2> QED
    BY <2>1, <1>1, GrowsHere
<1>3. txs' = txs /\ chain' = chain /\ time' = time
  BY DEF Writes, ledger
<1>4. HashesStay
  <2> SUFFICES ASSUME InT03, NEW q \in Members(journal), q.hash \in DOMAIN txs
               PROVE  \E p \in Members(journal') : p.hash = q.hash
    BY DEF HashesStay
  <2>1. CASE q.op \in dropped
    BY <2>1 DEF Writes, Written
  <2>2. CASE q.op \notin dropped
    BY <2>2 DEF Writes, Written
  <2> QED
    BY <2>1, <2>2
<1>5. Ledger'
  BY <1>1, <1>2, <1>3, LedgerHere
<1>6. tabs'[t] = c
  BY DEF Writes, Shapes
<1>7. Exposed' \subseteq Exposed
  BY <1>1, <1>3 DEF Exposed, Sending, InFlight
<1> QED
  BY <1>1, <1>2, <1>3, <1>4, <1>5, <1>6, <1>7

LEMMA WritesStep ==
    ASSUME JournalInv, TabsAssumption, JournalAssumption, NEW t \in Tabs, NEW c, NEW dropped, NEW r,
           Writes(t, c, dropped, r),
           \A u \in Tabs : u # t => Unread(u),
           Addable(r),
           \A op \in dropped : op \in Exposed' => op = r.op /\ ~Resolved(r),
           LockMove(t, c), HandlerTrue(t)', ReviewTrue(t)'
    PROVE  JournalInv'
<1>1. /\ Grows /\ HashesStay /\ Ledger /\ Ledger'
      /\ Unsent' \subseteq Unsent /\ orphans' \subseteq Ops'
      /\ txs' = txs /\ chain' = chain /\ time' = time
      /\ intents' \in Seq(IntentRows)
  BY WritesGrow
<1>2. JournalTrue'
  <2>1. Written(journal, journal', dropped, r)
    BY DEF Writes
  <2>2. (exports = {} \/ ~InT04) /\ Single(journal) => Single(journal')
    BY DEF Writes
  <2>3. Shapes /\ JournalTrue
    BY DEF JournalInv
  <2> QED
    BY <1>1, <2>1, <2>2, <2>3, WriteKeeps
<1>3. lock' \in Tabs \cup {NoTab}
  BY DEF Shapes, LockMove, JournalInv
<1>4. tabs' \in [Tabs -> Handlers]
  BY DEF Writes, Shapes, JournalInv
<1>5. journal' \in Seq(RecordRows)
  BY DEF Writes, Written
<1>6. Shapes'
  BY <1>1, <1>3, <1>4, <1>5 DEF Writes, Shapes, JournalInv, fixed
<1>7. tabs' = [tabs EXCEPT ![t] = c] /\ \A u \in Tabs : u # t => reviews'[u] = reviews[u]
  BY DEF Writes
<1> QED
  BY <1>1, <1>2, <1>6, <1>7, PageStep

LEMMA RecordAddable ==
    ASSUME Grows, Ledger, JournalAssumption, NEW r, RecordTrue(r), InT03 => r.hash \notin WrongHashes,
           Claims(r) => r.op \in Claimed
    PROVE  Addable(r)
BY RecordTrueStays DEF Addable

(* What a page with the lock has read is what is saved.                    *)
LEMMA RecordsRead ==
    ASSUME JournalInv, TabsAssumption, NEW t \in Tabs, tabs[t].step \in Exclusive
    PROVE  tabs[t].records = journal /\ lock = t /\ \A u \in Tabs : u # t => Unread(u)
<1>1. tabs[t].records = journal
  <2>1. tabs[t] \in Handlers /\ HandlerTrue(t)
    BY DEF JournalInv, Shapes, PagesTrue
  <2>2. tabs[t] \in RunRows \cup AskRows \cup SentRows \cup RecoverRows
    BY <2>1, HandlerRows DEF Exclusive
  <2> QED
    BY <2>1, <2>2 DEF HandlerTrue, RunTrue, AskTrue, SentTrue, RecoverTrue
<1>2. lock = t
  BY DEF JournalInv, Locks, LockHeld
<1> QED
  BY <1>1, <1>2, OthersUnread DEF JournalInv

-----------------------------------------------------------------------------
(***************************************************************************)
(* The last write of a run.                                                *)
(***************************************************************************)
LEMMA EndsGrow ==
    ASSUME JournalInv, TabsAssumption, JournalAssumption, NEW t \in Tabs, tabs[t].step \in Exclusive,
           NEW r \in RecordRows, Ends(t, r), Prompted(t),
           intents' = intents \/ \E row \in IntentRows : intents' = Append(intents, row),
           InT03 => \A q \in Members(journal) : q.op = r.op /\ q.hash \in DOMAIN txs => q.hash = r.hash,
           UNCHANGED <<fixed, ledger>>
    PROVE  Writes(t, Idle, {r.op}, r) /\ LockMove(t, Idle) /\ reviews'[t] = NoReview
<1>1. journal' = Put(journal, r) /\ Finish(t) /\ DropReview(t)
  BY RecordsRead DEF Ends
<1>2. Written(journal, journal', {r.op}, r) /\ (Single(journal) => Single(journal'))
  BY <1>1, PutWrites DEF JournalInv, Shapes
<1>3. /\ tabs' = [tabs EXCEPT ![t] = Idle] /\ Idle \in Handlers /\ Idle.step \notin Asking
      /\ LockMove(t, Idle)
  BY <1>1, FinishMoves DEF Finish, Goto, Handlers, Idle, Asking
<1>4. /\ reviews' \in [Tabs -> {NoReview} \cup ReviewRows] /\ reviews'[t] = NoReview
      /\ \A u \in Tabs : u # t => reviews'[u] = reviews[u]
  BY <1>1 DEF DropReview, JournalInv, Shapes
<1> QED
  BY <1>2, <1>3, <1>4 DEF Writes

LEMMA EndsKeeps ==
    ASSUME JournalInv, TabsAssumption, JournalAssumption, NEW t \in Tabs, tabs[t].step \in Exclusive,
           NEW r, Writes(t, Idle, {r.op}, r), LockMove(t, Idle), reviews'[t] = NoReview,
           Addable(r), r.op \in Exposed' => ~Resolved(r)
    PROVE  JournalInv'
<1>1. tabs'[t] = Idle
  BY WritesGrow
<1>2. \A op \in {r.op} : op \in Exposed' => op = r.op /\ ~Resolved(r)
  OBVIOUS
<1>3. \A u \in Tabs : u # t => Unread(u)
  BY RecordsRead
<1>4. HandlerTrue(t)' /\ ReviewTrue(t)'
  BY <1>1, IdleTrue, NoReviewTrue
<1> QED
  BY <1>2, <1>3, <1>4, WritesStep

(* A record for an operation that was sent with this hash.                 *)
LEMMA SentRecord ==
    ASSUME Ledger, NEW op, NEW hash \in DOMAIN txs, txs[hash].op = op,
           NEW status, status # "mismatch", ~Resolved(Record(op, status, hash)), hash # NoHash
    PROVE  RecordTrue(Record(op, status, hash)) /\ ~Claims(Record(op, status, hash))
<1>1. PICK r : r = Record(op, status, hash)
  OBVIOUS
<1>2. r.op = op /\ r.hash = hash /\ ~Resolved(r) /\ r.status # "mismatch"
  BY <1>1 DEF Record
<1>3. Own(op, hash) /\ op \in Ops
  BY DEF Own, Ledger
<1> QED
  BY <1>1, <1>2, <1>3 DEF RecordTrue, Claims

LEMMA PollEndsKeeps ==
    ASSUME JournalInv, TabsAssumption, JournalAssumption, NEW t \in Tabs, tabs[t].step = "polling",
           NEW status \in {"confirmed", "unknown"}, Ends(t, Record(tabs[t].op, status, tabs[t].hash)),
           UNCHANGED <<fixed, intents, orphans, ledger>>
    PROVE  JournalInv'
<1>1. PICK op, hash : op = tabs[t].op /\ hash = tabs[t].hash
  OBVIOUS
<1>2. tabs[t] \in SentRows /\ SentTrue(t)
  BY HandlerRows DEF JournalInv, Shapes, PagesTrue, HandlerTrue
<1>3. /\ op \in Nat /\ hash \in DOMAIN txs /\ txs[hash].op = op /\ Hashed(op, {hash})
  BY <1>1, <1>2 DEF SentRows, SentTrue
<1>4. hash \in Nat /\ hash # NoHash
  BY <1>3 DEF JournalInv, Shapes, NoHash
<1>5. PICK r : r = Record(op, status, hash)
  OBVIOUS
<1>6. r \in RecordRows /\ r.op = op /\ r.hash = hash /\ r.status = status /\ ~Resolved(r)
  BY <1>3, <1>4, <1>5 DEF Record, RecordRows, Statuses, Hashes, Resolved
<1>7. Writes(t, Idle, {r.op}, r) /\ LockMove(t, Idle) /\ reviews'[t] = NoReview
  <2>1. Ends(t, r) /\ tabs[t].step \in Exclusive
    BY <1>1, <1>5 DEF Exclusive
  <2>2. \A q \in Members(journal) : q.op = r.op /\ q.hash \in DOMAIN txs => q.hash = r.hash
    BY <1>3, <1>6 DEF Hashed
  <2> QED
    BY <1>6, <2>1, <2>2, EndsGrow DEF Prompted
<1>8. Addable(r)
  <2>1. RecordTrue(r) /\ ~Claims(r)
    BY <1>3, <1>4, <1>5, <1>6, SentRecord DEF JournalInv
  <2>2. hash \notin WrongHashes
    BY <1>4 DEF JournalAssumption
  <2> QED
    BY <1>6, <1>7, <2>1, <2>2, RecordAddable, WritesGrow
<1>9. tabs[t].step \in Exclusive
  BY DEF Exclusive
<1> QED
  BY <1>6, <1>7, <1>8, <1>9, EndsKeeps

LEMMA UnknownKeeps ==
    ASSUME JournalInv, TabsAssumption, JournalAssumption, NEW t \in Tabs, Unknown(t)
    PROVE  JournalInv'
<1>1. PICK op : op = tabs[t].op
  OBVIOUS
<1>2. tabs[t].step \in {"asked", "sent"} /\ tabs[t] \in AskRows \cup SentRows
      /\ tabs[t].step \in Exclusive /\ HandlerTrue(t)
  BY HandlerRows DEF JournalInv, Shapes, PagesTrue, Unknown, Exclusive
<1>3. op \in Nat /\ Awaits(op)
  BY <1>1, <1>2 DEF AskRows, SentRows, HandlerTrue, AskTrue, SentTrue
<1>4. op \in Claimed /\ op \in Ops
  <2>1. CASE tabs[t].step = "asked"
    BY <1>1, <2>1 DEF Claimed, Exposed, Unsent, Asking, JournalInv, Ledger
  <2>2. CASE tabs[t].step = "sent"
    <3>1. SentTrue(t)
      BY <1>2, <2>2, HandlerRows DEF HandlerTrue, JournalInv, Shapes
    <3>2. PICK q \in Members(journal) : q.op = op
      BY <3>1, <1>1 DEF SentTrue, Known
    <3> QED
      BY <3>2, <1>3 DEF Awaits, Claimed, JournalInv, JournalTrue, RecordsTrue, RecordTrue
  <2> QED
    BY <1>2, <2>1, <2>2
<1>5. PICK r : r = Record(op, "unknown", NoHash)
  OBVIOUS
<1>6. /\ r \in RecordRows /\ r.op = op /\ r.hash = NoHash /\ ~Resolved(r) /\ Claims(r)
      /\ r.status # "mismatch"
  BY <1>3, <1>5 DEF Record, RecordRows, Statuses, Hashes, Resolved, NoHash, Claims
<1>7. Writes(t, Idle, {r.op}, r) /\ LockMove(t, Idle) /\ reviews'[t] = NoReview
  <2>1. Ends(t, r) /\ Prompted(t) /\ intents' = intents /\ UNCHANGED <<fixed, ledger>>
    BY <1>1, <1>2, <1>5 DEF Unknown, Prompted
  <2>2. \A q \in Members(journal) : q.op = r.op => q.hash = r.hash
    BY <1>3, <1>6 DEF Awaits, Claims
  <2> QED
    BY <1>2, <1>6, <2>1, <2>2, EndsGrow
<1>8. Addable(r)
  <2>1. NoHash \notin DOMAIN txs /\ NoHash \notin WrongHashes
    BY HashKinds DEF JournalInv
  <2>2. RecordTrue(r)
    BY <1>4, <1>6, <2>1 DEF RecordTrue
  <2> QED
    BY <1>4, <1>6, <1>7, <2>1, <2>2, RecordAddable, WritesGrow
<1> QED
  BY <1>2, <1>6, <1>7, <1>8, EndsKeeps

(* A refusal, or a stop before the prompt: it was not and will not be sent. *)
LEMMA RefusedKeeps ==
    ASSUME JournalInv, TabsAssumption, JournalAssumption, NEW t \in Tabs, tabs[t].step \in Asking,
           Ends(t, Record(tabs[t].op, "rejected", NoHash)),
           UNCHANGED <<fixed, intents, orphans, ledger>>
    PROVE  JournalInv'
<1>1. PICK op : op = tabs[t].op
  OBVIOUS
<1>2. tabs[t] \in AskRows /\ tabs[t].step \in Exclusive /\ HandlerTrue(t)
  BY HandlerRows DEF JournalInv, Shapes, PagesTrue, Exclusive, Asking
<1>3. op \in Nat /\ Awaits(op) /\ op \in Unsent /\ op \in Ops
  BY <1>1, <1>2 DEF AskRows, HandlerTrue, AskTrue, Unsent, JournalInv, Ledger
<1>4. PICK r : r = Record(op, "rejected", NoHash)
  OBVIOUS
<1>5. r \in RecordRows /\ r.op = op /\ r.hash = NoHash /\ Resolved(r)
  BY <1>3, <1>4 DEF Record, RecordRows, Statuses, Hashes, Resolved, NoHash
<1>6. Writes(t, Idle, {r.op}, r) /\ LockMove(t, Idle) /\ reviews'[t] = NoReview
  <2>1. Ends(t, r) /\ Prompted(t) /\ intents' = intents /\ UNCHANGED <<fixed, ledger>>
    BY <1>1, <1>4 DEF Prompted
  <2>2. \A q \in Members(journal) : q.op = r.op => q.hash = r.hash
    BY <1>3, <1>5 DEF Awaits, Claims
  <2> QED
    BY <1>2, <1>5, <2>1, <2>2, EndsGrow
<1>7. op \notin Unsent'
  <2>1. lock = t
    BY <1>2, RecordsRead
  <2>2. tabs' = [tabs EXCEPT ![t] = Idle] /\ Idle.step \notin Asking
    BY <1>6 DEF Writes
  <2> QED
    BY <1>1, <2>1, <2>2, AloneAsking DEF JournalInv
<1>8. \A h \in DOMAIN txs : txs[h].op # op
  BY <1>3 DEF JournalInv, Ledger
<1>9. txs' = txs /\ Grows
  BY <1>6, WritesGrow
<1>10. Own(op, NoHash)' /\ op \notin Exposed'
  BY <1>7, <1>8, <1>9 DEF Own, Exposed, Sending, InFlight
<1>11. Addable(r)
  <2>1. NoHash \notin DOMAIN txs /\ NoHash \notin WrongHashes
    BY HashKinds DEF JournalInv
  <2>2. RecordTrue(r)'
    BY <1>3, <1>5, <1>9, <1>10, <2>1 DEF RecordTrue, Grows, Resolved
  <2> QED
    BY <1>5, <2>1, <2>2 DEF Addable, Claims
<1> QED
  BY <1>2, <1>5, <1>6, <1>10, <1>11, EndsKeeps

-----------------------------------------------------------------------------
LEMMA StartedNext ==
    ASSUME NEW found, NEW hash, NEW action, NEW left, Started(found, hash, action, left)',
           NEW t \in Tabs, tabs'[t].step = "recovering", tabs'[t].found = found,
           tabs'[t].hash = hash, tabs'[t].action = action, tabs'[t].records = journal',
           tabs'[t].left = left
    PROVE  RecoverTrue(t)'
<1>1. LeftTrue(tabs[t].left)'
  BY DEF LeftTrue, Started
<1>2. (InT05 => tabs[t].found # {})' /\ \A o, p \in found : o = p
  BY DEF Started
<1>3. (\A op \in tabs[t].found : op \in Ops /\ Known(op) /\ Action(op) = tabs[t].action)'
  BY DEF Known, Action, Started
<1>4. (\A op \in tabs[t].found : /\ Matched(op, tabs[t].hash) /\ Hashed(op, {NoHash, tabs[t].hash})
                                 /\ InT03 => Opened(op))'
  BY DEF Matched, Hashed, Own, Mined, Opened, Call, Unsent, Started
<1>5. (tabs[t].records = journal /\ tabs[t].hash \in WrongHashes \cup DOMAIN txs)'
  BY DEF Started
<1> QED
  BY <1>1, <1>2, <1>3, <1>4, <1>5 DEF RecoverTrue

(***************************************************************************)
(* The hash is returned and saved.                                         *)
(***************************************************************************)
LEMMA HashSaved ==
    ASSUME JournalInv, TabsAssumption, JournalAssumption, NEW t \in Tabs, tabs[t].step = "sent",
           NEW op, op = tabs[t].op, NEW hash, hash = tabs[t].hash,
           NEW r, r = Record(op, "pending", hash),
           NEW c \in Handlers, c.step \in {"polling", "recovering"}, Goto(t, c),
           journal' = Put(tabs[t].records, r), DropReview(t),
           UNCHANGED <<fixed, intents, lock, orphans, ledger>>
    PROVE  /\ Grows /\ Ledger' /\ tabs'[t] = c /\ reviews'[t] = NoReview
           /\ journal' = Put(journal, r) /\ journal' \in Seq(RecordRows)
           /\ r \in RecordRows /\ r.op = op /\ r.hash = hash /\ ~Resolved(r)
           /\ Members(journal') = {q \in Members(journal) : q.op # op} \cup {r}
           /\ \A q \in Members(journal) : q.op # op => Resolved(q) /\ q.hash # hash
           /\ op \in Ops /\ hash \in DOMAIN txs /\ txs[hash].op = op /\ txs' = txs
           /\ HandlerTrue(t)' => JournalInv'
<1>1. tabs[t] \in SentRows /\ SentTrue(t) /\ tabs[t].records = journal
      /\ \A u \in Tabs : u # t => Unread(u)
  BY HandlerRows, RecordsRead DEF JournalInv, Shapes, PagesTrue, HandlerTrue, Exclusive
<1>2. /\ op \in Nat /\ hash \in DOMAIN txs /\ txs[hash].op = op /\ Awaits(op) /\ Unhashed(hash)
      /\ op \in Ops
  BY <1>1 DEF SentRows, SentTrue, JournalInv, Ledger
<1>3. hash \in Nat /\ hash # NoHash /\ hash \notin WrongHashes
  BY <1>2, HashKinds DEF JournalInv
<1>4. r \in RecordRows /\ r.op = op /\ r.hash = hash /\ ~Resolved(r)
  BY <1>2, <1>3 DEF Record, RecordRows, Statuses, Hashes, Resolved
<1>5. Written(journal, journal', {op}, r) /\ (Single(journal) => Single(journal'))
      /\ journal' = Put(journal, r)
  BY <1>1, <1>4, PutWrites DEF JournalInv, Shapes
<1>6. /\ reviews' \in [Tabs -> {NoReview} \cup ReviewRows] /\ reviews'[t] = NoReview
      /\ \A u \in Tabs : u # t => reviews'[u] = reviews[u]
  BY DEF DropReview, JournalInv, Shapes
<1>7. Writes(t, c, {op}, r)
  <2>1. \A q \in Members(journal) : q.op = op => q.hash = NoHash
    BY <1>2 DEF Awaits, Claims
  <2>2. NoHash \notin DOMAIN txs
    BY HashKinds DEF JournalInv
  <2> QED
    BY <1>5, <1>6, <2>1, <2>2 DEF Writes, Goto, Asking, Prompted
<1>8. /\ Grows /\ Ledger /\ Ledger' /\ tabs'[t] = c /\ txs' = txs
  BY <1>7, WritesGrow
<1>9. Addable(r)
  <2>1. RecordTrue(r) /\ ~Claims(r)
    BY <1>2, <1>3, <1>4, SentRecord DEF JournalInv
  <2> QED
    BY <1>3, <1>4, <1>8, <2>1, RecordAddable
<1>10. LockMove(t, c)
  BY KeepMoves DEF JournalInv, Exclusive
<1>11. HandlerTrue(t)' => JournalInv'
  <2>1. \A o \in {op} : o \in Exposed' => o = r.op /\ ~Resolved(r)
    BY <1>4
  <2> QED
    BY <1>1, <1>6, <1>7, <1>9, <1>10, <2>1, NoReviewTrue, WritesStep
<1>12. journal' \in Seq(RecordRows) /\ Members(journal') = {q \in Members(journal) : q.op # op} \cup {r}
  BY <1>5 DEF Written
<1>13. \A q \in Members(journal) : q.op # op => Resolved(q) /\ q.hash # hash
  BY <1>2 DEF Awaits, Unhashed
<1> QED
  BY <1>2, <1>4, <1>5, <1>6, <1>8, <1>11, <1>12, <1>13

LEMMA LifecycleHashKeeps ==
    ASSUME JournalInv, TabsAssumption, JournalAssumption, NEW t \in Tabs, LifecycleHash(t)
    PROVE  JournalInv'
<1>1. PICK op, hash : op = tabs[t].op /\ hash = tabs[t].hash
  OBVIOUS
<1>2. PICK r : r = Record(op, "pending", hash)
  OBVIOUS
<1>3. PICK c : c = [[tabs[t] EXCEPT !.step = "polling"] EXCEPT !.records = journal']
  OBVIOUS
<1>4. /\ tabs[t].step = "sent" /\ InT03 /\ journal' = Put(tabs[t].records, r)
      /\ Goto(t, c) /\ DropReview(t)
      /\ UNCHANGED <<fixed, intents, lock, orphans, ledger>>
  BY <1>1, <1>2, <1>3 DEF LifecycleHash, HashReturned, Publish
<1>5. tabs[t] \in SentRows /\ tabs[t].records = journal
  BY <1>4, HandlerRows, RecordsRead DEF JournalInv, Shapes, Exclusive
<1>6. r \in RecordRows
  <2>1. op \in Nat /\ hash \in Nat
    BY <1>1, <1>5 DEF SentRows
  <2> QED
    BY <1>2, <2>1 DEF Record, RecordRows, Statuses, Hashes
<1>7. journal' \in Seq(RecordRows)
  BY <1>4, <1>5, <1>6, PutWrites DEF JournalInv, Shapes
<1>8. /\ c \in SentRows /\ c.step = "polling" /\ c.op = op /\ c.hash = hash /\ c.records = journal'
      /\ c \in Handlers
  BY <1>1, <1>3, <1>5, <1>7 DEF SentRows, Handlers
<1>9. /\ tabs'[t] = c /\ r.op = op /\ r.hash = hash /\ txs' = txs
      /\ Members(journal') = {q \in Members(journal) : q.op # op} \cup {r}
      /\ hash \in DOMAIN txs /\ txs[hash].op = op
      /\ HandlerTrue(t)' => JournalInv'
  BY <1>1, <1>2, <1>4, <1>8, HashSaved
<1>10. SentTrue(t)'
  <2>1. \E q \in Members(journal') : q.op = op
    BY <1>9
  <2>2. \A q \in Members(journal') : q.op = op => q.hash \in {hash}
    BY <1>9
  <2>3. InT03'
    BY <1>4 DEF fixed, InT03
  <2> QED
    BY <1>8, <1>9, <2>1, <2>2, <2>3 DEF SentTrue, Known, Hashed
<1>11. HandlerTrue(t)'
  <2>1. c \notin RunRows /\ c \notin AskRows /\ c \notin RecoverRows /\ c \notin RecheckRows
        /\ c \notin RestoreRows
    BY <1>8, HandlerRows
  <2> QED
    BY <1>9, <1>10, <2>1 DEF HandlerTrue
<1> QED
  BY <1>9, <1>11

(* T04 and T05 go on with the recovery.                                    *)
LEMMA HashRecovers ==
    ASSUME JournalInv, TabsAssumption, JournalAssumption, NEW t \in Tabs, tabs[t].step = "sent",
           NEW op, op = tabs[t].op, NEW hash, hash = tabs[t].hash,
           NEW r, r = Record(op, "pending", hash),
           NEW found \in SUBSET {op}, InT05 => found # {}, ~InT03,
           Goto(t, Recovering(found, hash, Action(op), journal', <<>>, NotForReview)),
           journal' = Put(tabs[t].records, r), DropReview(t),
           UNCHANGED <<fixed, intents, lock, orphans, ledger>>
    PROVE  JournalInv'
<1>1. PICK c : c = Recovering(found, hash, Action(op), journal', <<>>, NotForReview)
  OBVIOUS
<1>2. tabs[t] \in SentRows /\ SentTrue(t) /\ tabs[t].records = journal
  BY HandlerRows, RecordsRead DEF JournalInv, Shapes, PagesTrue, HandlerTrue, Exclusive
<1>3. op \in Nat /\ hash \in Nat /\ op \in Ops
  BY <1>2 DEF SentRows, SentTrue, JournalInv, Ledger
<1>4. r \in RecordRows
  BY <1>3 DEF Record, RecordRows, Statuses, Hashes
<1>5. journal' \in Seq(RecordRows)
  BY <1>2, <1>4, PutWrites DEF JournalInv, Shapes
<1>6. /\ c \in RecoverRows /\ c.step = "recovering" /\ c.found = found /\ c.hash = hash
      /\ c.action = Action(op) /\ c.records = journal' /\ c.left = <<>>
      /\ c \in Handlers
  <2>1. Action(op) \in AllActions
    BY <1>3, IntentTyped DEF Action, JournalInv
  <2>2. <<>> \in Seq(RecordRows)
    BY EmptySeq
  <2> QED
    BY <1>1, <1>3, <1>5, <2>1, <2>2 DEF RecoverRows, Recovering, Handlers, Hashes
<1>7. /\ Grows /\ Ledger' /\ tabs'[t] = c /\ r.op = op /\ r.hash = hash /\ txs' = txs
      /\ Members(journal') = {q \in Members(journal) : q.op # op} \cup {r}
      /\ hash \in DOMAIN txs /\ txs[hash].op = op
      /\ HandlerTrue(t)' => JournalInv'
  <2>1. Goto(t, c)
    BY <1>1
  <2> QED
    BY <1>6, <2>1, HashSaved
<1>8. PICK action : action = Action(op)
  OBVIOUS
<1>9. Started(found, hash, action, <<>>)'
  <2>1. LeftTrue(<<>>)'
    BY DEF LeftTrue, Members
  <2>2. op \in Ops' /\ Action(op)' = action
    BY <1>3, <1>7, <1>8, CallStays
  <2>3. (\E q \in Members(journal') : q.op = op)
        /\ \A q \in Members(journal') : q.op = op => q.hash \in {NoHash, hash}
    BY <1>7
  <2>4. Own(op, hash)' /\ (Call(op) = Call(txs[hash].op))'
    BY <1>7 DEF Own, Ledger
  <2>5. InT05' = InT05 /\ InT03' = InT03
    BY <1>7 DEF Grows, InT05, InT03
  <2> QED
    BY <1>7, <2>1, <2>2, <2>3, <2>4, <2>5 DEF Started, Known, Hashed, Matched
<1>10. RecoverTrue(t)'
  BY <1>6, <1>7, <1>8, <1>9, StartedNext
<1> QED
  BY <1>6, <1>7, <1>10, RecoveringTrue

LEMMA TradeHashKeeps ==
    ASSUME JournalInv, TabsAssumption, JournalAssumption, NEW t \in Tabs, TradeHashReturned(t)
    PROVE  JournalInv'
<1>1. PICK op, hash : op = tabs[t].op /\ hash = tabs[t].hash
  OBVIOUS
<1>2. PICK r : r = Record(op, "pending", hash)
  OBVIOUS
<1>3. PICK found : found = {op}
  OBVIOUS
<1>4. /\ tabs[t].step = "sent" /\ InT05 /\ journal' = Put(tabs[t].records, r)
      /\ Goto(t, Recovering(found, hash, Action(op), journal', <<>>, NotForReview)) /\ DropReview(t)
      /\ UNCHANGED <<fixed, intents, lock, orphans, ledger>>
  <2>1. PICK action, d : action = Action(op) /\ d = Recovering(found, hash, action, <<>>, <<>>, NotForReview)
    OBVIOUS
  <2>2. tabs[t].step = "sent" /\ InT05 /\ HashReturned(t, d)
    BY <2>1, <1>1, <1>3 DEF TradeHashReturned
  <2>3. \A k : [d EXCEPT !.records = k] = Recovering(found, hash, action, k, <<>>, NotForReview)
    BY <2>1 DEF Recovering
  <2>4. /\ journal' = Put(tabs[t].records, r) /\ Goto(t, [d EXCEPT !.records = journal'])
        /\ DropReview(t) /\ UNCHANGED <<fixed, intents, lock, orphans, ledger>>
    BY <2>2, <1>1, <1>2 DEF HashReturned, Publish
  <2> QED
    BY <2>1, <2>2, <2>3, <2>4
<1>5. ~InT03 /\ found \in SUBSET {op} /\ (InT05 => found # {})
  BY <1>3, <1>4 DEF InT03, InT05
<1> QED
  BY <1>1, <1>2, <1>4, <1>5, HashRecovers

LEMMA HoldHashKeeps ==
    ASSUME JournalInv, TabsAssumption, JournalAssumption, NEW t \in Tabs, HoldHashReturned(t)
    PROVE  JournalInv'
<1>1. PICK op, hash : op = tabs[t].op /\ hash = tabs[t].hash
  OBVIOUS
<1>2. PICK r : r = Record(op, "pending", hash)
  OBVIOUS
<1>3. PICK found : found = HoldFinds(journal', hash, Action(op))
  OBVIOUS
<1>4. PICK c : c = Recovering(found, hash, Action(op), journal', <<>>, NotForReview)
  OBVIOUS
<1>5. /\ tabs[t].step = "sent" /\ InT04 /\ journal' = Put(tabs[t].records, r)
      /\ Goto(t, c) /\ DropReview(t)
      /\ UNCHANGED <<fixed, intents, lock, orphans, ledger>>
  <2>1. HoldRecovering(journal', hash, Action(op), <<>>, NotForReview) = c
    BY <1>3, <1>4 DEF HoldRecovering
  <2>2. [c EXCEPT !.records = journal'] = c
    BY <1>4 DEF Recovering
  <2>3. /\ tabs[t].step = "sent" /\ InT04
        /\ HashReturned(t, HoldRecovering(Put(tabs[t].records, r), hash, Action(op), <<>>, NotForReview))
    BY <1>1, <1>2 DEF HoldHashReturned
  <2>4. journal' = Put(tabs[t].records, r)
    BY <2>3, <1>1, <1>2 DEF HashReturned, Publish
  <2>5. HashReturned(t, c)
    BY <2>1, <2>3, <2>4
  <2> QED
    BY <2>2, <2>3, <2>4, <2>5, <1>1, <1>2 DEF HashReturned, Publish
<1>6. found \in SUBSET {op}
  <2>1. tabs[t] \in SentRows /\ SentTrue(t) /\ tabs[t].records = journal
    BY <1>5, HandlerRows, RecordsRead DEF JournalInv, Shapes, PagesTrue, HandlerTrue, Exclusive
  <2>2. op \in Nat /\ hash \in Nat /\ Awaits(op) /\ Unhashed(hash)
    BY <2>1, <1>1, <1>5 DEF SentRows, SentTrue
  <2>3. r \in RecordRows /\ r.op = op
    BY <2>2, <1>2 DEF Record, RecordRows, Statuses, Hashes
  <2>4. journal' \in Seq(RecordRows) /\ Written(journal, journal', {op}, r)
    BY <2>1, <2>3, <1>5, PutWrites DEF JournalInv, Shapes
  <2>5. \A q \in {p \in Members(journal') : p.hash = hash} \cup Unresolved(journal', Action(op)) : q.op = op
    <3> SUFFICES ASSUME NEW q \in Members(journal'), q.hash = hash \/ ~Resolved(q) PROVE q.op = op
      BY DEF Unresolved
    <3>1. q = r \/ (q \in Members(journal) /\ q.op # op)
      BY <2>4 DEF Written
    <3> QED
      BY <3>1, <2>2, <2>3 DEF Awaits, Unhashed
  <2>6. PICK wanted : wanted = {p \in Members(journal') : p.hash = hash} \cup Unresolved(journal', Action(op))
    OBVIOUS
  <2>7. found = FirstOf(journal', wanted)
    BY <2>6, <1>3 DEF HoldFinds
  <2>8. PICK k : k = journal'
    OBVIOUS
  <2>9. \A o \in FirstOf(k, wanted) : \E q \in Members(k) : q \in wanted /\ q.op = o
    BY <2>4, <2>8, FirstOfFinds
  <2>10. found = FirstOf(k, wanted)
    BY <2>7, <2>8
  <2> QED
    BY <2>5, <2>6, <2>9, <2>10
<1>7. ~InT03 /\ ~InT05
  BY <1>5 DEF InT03, InT04, InT05
<1> QED
  BY <1>1, <1>2, <1>4, <1>5, <1>6, <1>7, HashRecovers

-----------------------------------------------------------------------------
(***************************************************************************)
(* What a recovery writes.                                                 *)
(***************************************************************************)
LEMMA RecoverFacts ==
    ASSUME JournalInv, TabsAssumption, JournalAssumption, NEW t \in Tabs,
           tabs[t].step \in {"recovering", "confirmed"}
    PROVE  /\ tabs[t] \in RecoverRows /\ RecoverTrue(t)
           /\ tabs[t].records = journal /\ lock = t /\ \A u \in Tabs : u # t => Unread(u)
           /\ tabs[t].hash # NoHash /\ tabs[t].hash \in Hashes
           /\ tabs[t].hash \in DOMAIN txs => tabs[t].hash \notin WrongHashes
           /\ tabs[t].left \in Seq(RecordRows) /\ LeftTrue(tabs[t].left)
           /\ \A op \in tabs[t].found : op \in Nat
<1>1. tabs[t] \in RecoverRows /\ RecoverTrue(t)
  BY HandlerRows DEF JournalInv, Shapes, PagesTrue, HandlerTrue
<1>2. tabs[t].records = journal /\ lock = t /\ \A u \in Tabs : u # t => Unread(u)
  BY RecordsRead DEF Exclusive
<1>3. tabs[t].hash # NoHash /\ (tabs[t].hash \in DOMAIN txs => tabs[t].hash \notin WrongHashes)
  BY <1>1, HashKinds DEF JournalInv, RecoverTrue
<1>4. /\ tabs[t].left \in Seq(RecordRows) /\ LeftTrue(tabs[t].left) /\ tabs[t].hash \in Hashes
      /\ \A op \in tabs[t].found : op \in Nat
  BY <1>1 DEF RecoverRows, RecoverTrue
<1> QED
  BY <1>1, <1>2, <1>3, <1>4

LEMMA LeftNext ==
    ASSUME Grows, HashesStay, Ledger, JournalAssumption, NEW t \in Tabs,
           NEW left \in Seq(RecordRows), LeftTrue(left),
           NEW c \in {Idle, [step |-> "rechecking", left |-> left]}, tabs'[t] = c
    PROVE  HandlerTrue(t)'
<1>1. CASE c = Idle
  BY <1>1, IdleTrue
<1>2. CASE c = [step |-> "rechecking", left |-> left]
  <2>1. LeftTrue(left)'
    BY LeftStays
  <2> QED
    BY <1>2, <2>1, RecheckTrue
<1> QED
  BY <1>1, <1>2

(* A record is written, and the recovery is over or goes on.               *)
LEMMA RecoveredKeeps ==
    ASSUME JournalInv, TabsAssumption, JournalAssumption, NEW t \in Tabs,
           tabs[t].step \in {"recovering", "confirmed"},
           NEW status, GoesOn(t, status),
           NEW r \in RecordRows, Written(journal, journal', {r.op}, r),
           Single(journal) => Single(journal'),
           InT03 => \A q \in Members(journal) : q.op = r.op /\ q.hash \in DOMAIN txs => q.hash = r.hash,
           RecordTrue(r), InT03 => r.hash \notin WrongHashes, Claims(r) => r.op \in Claimed,
           r.op \in Exposed => ~Resolved(r),
           UNCHANGED <<fixed, intents, reviews, orphans, ledger>>
    PROVE  JournalInv'
<1>1. PICK left : left = tabs[t].left
  OBVIOUS
<1>2. left \in Seq(RecordRows) /\ (\A x : x = tabs[t].left => LeftTrue(x)) /\ tabs[t] \in RecoverRows
      /\ \A u \in Tabs : u # t => Unread(u)
  BY <1>1, RecoverFacts
<1>3. LeftTrue(left)
  BY <1>1, <1>2
<1>4. PICK c \in {Idle, [step |-> "rechecking", left |-> left]} :
         /\ c \in Handlers /\ c.step \notin Asking
         /\ tabs' = [tabs EXCEPT ![t] = c]
         /\ LockMove(t, c)
  BY <1>1, <1>2, GoesOnMoves DEF JournalInv
<1>5. Writes(t, c, {r.op}, r)
  BY <1>4 DEF Writes, Prompted, JournalInv, Shapes
<1>6. Grows /\ HashesStay /\ Ledger /\ tabs'[t] = c /\ Exposed' \subseteq Exposed
  BY <1>5, WritesGrow
<1>7. Addable(r)
  BY <1>6, RecordAddable
<1>8. HandlerTrue(t)'
  BY <1>2, <1>3, <1>6, LeftNext
<1>9. ReviewTrue(t)'
  BY <1>6, ReviewStays DEF JournalInv, PagesTrue
<1>10. \A op \in {r.op} : op \in Exposed' => op = r.op /\ ~Resolved(r)
  BY <1>6
<1> QED
  BY <1>2, <1>4, <1>5, <1>7, <1>8, <1>9, <1>10, WritesStep

LEMMA SettlesKeeps ==
    ASSUME JournalInv, TabsAssumption, JournalAssumption, NEW t \in Tabs, Settles(t)
    PROVE  JournalInv'
<1>1. PICK hash : hash = tabs[t].hash
  OBVIOUS
<1>2. tabs[t].step = "confirmed" /\ UNCHANGED <<fixed, intents, reviews, orphans, ledger>>
      /\ GoesOn(t, Outcome(hash))
  BY <1>1 DEF Settles
<1>3. PICK op \in tabs[t].found : journal' = Place(tabs[t].records, Record(op, Outcome(hash), hash))
  BY <1>1 DEF Settles
<1>4. PICK r : r = Record(op, Outcome(hash), hash)
  OBVIOUS
<1>5. /\ tabs[t].records = journal /\ hash # NoHash /\ hash \in Hashes
      /\ hash \in DOMAIN txs => hash \notin WrongHashes
      /\ RecoverTrue(t) /\ op \in Nat
  BY <1>1, <1>2, RecoverFacts
<1>6. /\ Mined(hash) /\ Own(op, hash) /\ Hashed(op, {hash}) /\ Call(op) = Call(txs[hash].op)
      /\ op \in Ops /\ Known(op)
  BY <1>1, <1>2, <1>5 DEF RecoverTrue
<1>7. /\ r \in RecordRows /\ r.op = op /\ r.hash = hash /\ r.status = Outcome(hash) /\ Resolved(r)
  BY <1>4, <1>5 DEF Record, RecordRows, Outcome, Statuses, Resolved
<1>8. Written(journal, journal', {r.op}, r) /\ (Single(journal) => Single(journal'))
  <2>1. journal' = Place(journal, r) /\ \E q \in Members(journal) : q.op = r.op
    BY <1>3, <1>4, <1>5, <1>6, <1>7 DEF Known
  <2> QED
    BY <1>7, <2>1, PlaceWrites DEF JournalInv, Shapes
<1>9. RecordTrue(r) /\ ~Claims(r) /\ r.hash \notin WrongHashes
  BY <1>5, <1>6, <1>7 DEF RecordTrue, Claims, Mined, Outcome
<1>10. op \notin Exposed
  BY <1>6 DEF Own, Exposed, Sending, InFlight, Mined
<1>11. \A q \in Members(journal) : q.op = r.op => q.hash = r.hash
  BY <1>6, <1>7 DEF Hashed
<1> QED
  BY <1>2, <1>7, <1>8, <1>9, <1>10, <1>11, RecoveredKeeps

LEMMA LifecycleMissesKeeps ==
    ASSUME JournalInv, TabsAssumption, JournalAssumption, NEW t \in Tabs, LifecycleMisses(t)
    PROVE  JournalInv'
<1>1. InT03 /\ tabs[t].step = "recovering" /\ UNCHANGED <<fixed, intents, reviews, orphans, ledger>>
      /\ GoesOn(t, "pending")
  BY DEF LifecycleMisses
<1>2. PICK q \in Members(tabs[t].records) :
         /\ q.op \in tabs[t].found
         /\ journal' = Put(tabs[t].records, [q EXCEPT !.status = IF q.hash = NoHash THEN "unknown"
                                                                                  ELSE "pending"])
  BY DEF LifecycleMisses
<1>3. PICK r : r = [q EXCEPT !.status = IF q.hash = NoHash THEN "unknown" ELSE "pending"]
  OBVIOUS
<1>4. tabs[t].records = journal /\ RecoverTrue(t) /\ q \in Members(journal) /\ q \in RecordRows
  BY <1>1, <1>2, RecoverFacts, MembersRows DEF JournalInv, Shapes
<1>5. Hashed(q.op, {NoHash, tabs[t].hash}) /\ Opened(q.op)
  BY <1>1, <1>2, <1>4 DEF RecoverTrue
<1>6. /\ r \in RecordRows /\ r.op = q.op /\ r.hash = q.hash
      /\ r.status = IF q.hash = NoHash THEN "unknown" ELSE "pending"
  BY <1>3, <1>4 DEF RecordRows, Statuses
<1>7. ~Resolved(r)
  BY <1>6 DEF Resolved
<1>8. Written(journal, journal', {r.op}, r) /\ (Single(journal) => Single(journal'))
  <2>1. journal' = Put(journal, r)
    BY <1>2, <1>3, <1>4
  <2> QED
    BY <1>6, <2>1, PutWrites DEF JournalInv, Shapes
<1>9. RecordTrue(q) /\ q.hash \notin WrongHashes
  BY <1>1, <1>4 DEF JournalInv, JournalTrue, RecordsTrue
<1>10. RecordTrue(r) /\ r.hash \notin WrongHashes
  BY <1>6, <1>7, <1>9 DEF RecordTrue
<1>11. Claims(r) => r.op \in Claimed
  BY <1>4, <1>5, <1>6 DEF Claims, Claimed, Opened
<1>12. \A p \in Members(journal) : p.op = r.op => p.hash = r.hash
  <2>1. Single(journal)
    BY <1>1 DEF JournalInv, JournalTrue, OneRecord, InT03, InT04
  <2> QED
    BY <1>4, <1>6, <2>1 DEF Single, Members
<1> QED
  BY <1>1, <1>6, <1>7, <1>8, <1>10, <1>11, <1>12, RecoveredKeeps

LEMMA HoldMissesKeeps ==
    ASSUME JournalInv, TabsAssumption, JournalAssumption, NEW t \in Tabs, HoldMisses(t)
    PROVE  JournalInv'
<1>1. PICK hash : hash = tabs[t].hash
  OBVIOUS
<1>2. /\ InT04 /\ tabs[t].step = "recovering" /\ UNCHANGED <<fixed, intents, reviews, orphans, ledger>>
      /\ GoesOn(t, "pending") /\ ~Mined(hash)
  BY <1>1 DEF HoldMisses
<1>3. PICK op \in tabs[t].found : journal' = Put(tabs[t].records, Record(op, "pending", hash))
  BY <1>1 DEF HoldMisses
<1>4. PICK r : r = Record(op, "pending", hash)
  OBVIOUS
<1>5. /\ tabs[t].records = journal /\ hash # NoHash /\ hash \in Hashes
      /\ RecoverTrue(t) /\ op \in Nat
  BY <1>1, <1>2, RecoverFacts
<1>6. /\ hash \in WrongHashes \cup DOMAIN txs /\ op \in Ops
      /\ hash \in DOMAIN txs => Own(op, hash) /\ Call(op) = Call(txs[hash].op)
  BY <1>1, <1>2, <1>5 DEF RecoverTrue, Matched
<1>7. /\ r \in RecordRows /\ r.op = op /\ r.hash = hash /\ ~Resolved(r) /\ ~Claims(r)
      /\ r.status # "mismatch"
  BY <1>4, <1>5 DEF Record, RecordRows, Statuses, Resolved, Claims
<1>8. Written(journal, journal', {r.op}, r) /\ (Single(journal) => Single(journal'))
  <2>1. journal' = Put(journal, r)
    BY <1>3, <1>4, <1>5
  <2> QED
    BY <1>7, <2>1, PutWrites DEF JournalInv, Shapes
<1>9. RecordTrue(r)
  BY <1>5, <1>6, <1>7 DEF RecordTrue
<1>10. ~InT03
  BY <1>2 DEF InT03, InT04
<1> QED
  BY <1>2, <1>7, <1>8, <1>9, <1>10, RecoveredKeeps

-----------------------------------------------------------------------------
LEMMA VerifiesKeeps ==
    ASSUME JournalInv, TabsAssumption, JournalAssumption, NEW t \in Tabs, Verifies(t)
    PROVE  JournalInv'
<1> DEFINE verified == IF tabs[t].found = {} THEN Len(intents) + 1 ELSE CHOOSE o \in tabs[t].found : TRUE
           call == intents[txs[tabs[t].hash].op]
           row == Intent(call.action, call.hold, call.expiry, -1, FALSE)
<1>1. PICK op, hash, left, action : /\ op = verified
                      /\ hash = tabs[t].hash /\ left = tabs[t].left /\ action = tabs[t].action
  OBVIOUS
<1>2. PICK r : r = Record(op, "confirmed", hash)
  OBVIOUS
<1>3. /\ tabs[t].step = "recovering" /\ Mined(hash) /\ TxAction(hash) = action
      /\ \A o \in tabs[t].found : IsFor(o, hash)
      /\ IF tabs[t].found = {} THEN intents' = Append(intents, row) ELSE intents' = intents
      /\ journal' = Place(tabs[t].records, r)
      /\ Goto(t, [tabs[t] EXCEPT !.step = "confirmed", !.found = {op}, !.records = journal'])
      /\ UNCHANGED <<fixed, lock, reviews, orphans, ledger>>
  BY <1>1, <1>2 DEF Verifies
<1>4. /\ tabs[t] \in RecoverRows /\ RecoverTrue(t) /\ tabs[t].records = journal
      /\ \A u \in Tabs : u # t => Unread(u)
      /\ hash # NoHash /\ hash \in Hashes /\ left \in Seq(RecordRows)
      /\ \A x : x = tabs[t].left => LeftTrue(x)
      /\ hash \in DOMAIN txs /\ hash \notin WrongHashes
      /\ \A o \in tabs[t].found : o \in Nat
  BY <1>1, <1>3, RecoverFacts DEF Mined
<1>5. txs[hash].op \in Ops /\ LeftTrue(left)
  BY <1>1, <1>4 DEF JournalInv, Ledger
<1>6. row \in IntentRows /\ row.action = Action(txs[hash].op) /\ row.hold = intents[txs[hash].op].hold
      /\ row.expiry = intents[txs[hash].op].expiry
  <2>1. call = intents[txs[hash].op] /\ call \in IntentRows
    BY <1>1, <1>5, IntentTyped DEF JournalInv
  <2> HIDE DEF call
  <2> QED
    BY <2>1 DEF Intent, IntentRows, Action
<1>8. tabs[t].found # {} =>
         /\ op \in tabs[t].found /\ intents' = intents
         /\ op \in Ops /\ Known(op) /\ Action(op) = action /\ Own(op, hash)
         /\ Hashed(op, {NoHash, hash}) /\ Call(op) = Call(txs[hash].op)
  <2> SUFFICES ASSUME tabs[t].found # {}
               PROVE  /\ op \in tabs[t].found /\ intents' = intents
                      /\ op \in Ops /\ Known(op) /\ Action(op) = action /\ Own(op, hash)
                      /\ Hashed(op, {NoHash, hash}) /\ Call(op) = Call(txs[hash].op)
    OBVIOUS
  <2>1. op \in tabs[t].found /\ intents' = intents
    BY <1>1, <1>3
  <2>2. /\ op \in Ops /\ Known(op) /\ Action(op) = action /\ Matched(op, hash)
        /\ Hashed(op, {NoHash, hash}) /\ Call(op) = Call(txs[hash].op)
    BY <1>1, <1>3, <1>4, <2>1 DEF RecoverTrue, IsFor
  <2>3. Own(op, hash)
    BY <1>4, <2>2 DEF Matched
  <2> QED
    BY <2>1, <2>2, <2>3
<1>9. tabs[t].found = {} =>
         /\ op = Len(intents) + 1 /\ op \notin Ops /\ ~InT05
         /\ intents' = Append(intents, row)
  <2> HIDE DEF row
  <2>1. tabs[t].found = {} => op = Len(intents) + 1 /\ intents' = Append(intents, row) /\ ~InT05
    BY <1>1, <1>3, <1>4 DEF RecoverTrue
  <2>2. Len(intents) + 1 \notin Ops
    BY DEF Ops, JournalInv, Shapes
  <2> QED
    BY <2>1, <2>2
<1> HIDE DEF row, verified
<1>10. /\ op \in Nat /\ (InT05 => \E q \in Members(journal) : q.op = op)
       /\ \A q \in Members(journal) : q.op = op /\ q.hash \in DOMAIN txs => q.hash = hash
       /\ intents' = intents \/ (intents' = Append(intents, row) /\ intents' # intents)
  <2>1. CASE tabs[t].found # {}
    BY <2>1, <1>4, <1>8, HashKinds DEF Known, Hashed, JournalInv
  <2>2. CASE tabs[t].found = {}
    <3>1. \A q \in Members(journal) : q.op # op
      BY <2>2, <1>9 DEF JournalInv, JournalTrue, RecordsTrue, RecordTrue
    <3>2. op \in Nat /\ intents' # intents
      <4>1. intents \in Seq(IntentRows)
        BY DEF JournalInv, Shapes
      <4>2. Len(intents') = Len(intents) + 1 /\ Len(intents) \in Nat
        BY ONLY <2>2, <1>6, <1>9, <4>1, AppendElements
      <4> QED
        BY <2>2, <1>9, <4>2
    <3> QED
      BY <2>2, <1>9, <3>1, <3>2
  <2> QED
    BY <2>1, <2>2
<1>11. /\ r \in RecordRows /\ r.op = op /\ r.hash = hash /\ ~Resolved(r) /\ ~Claims(r)
       /\ r.status # "mismatch"
  BY <1>2, <1>4, <1>10 DEF Record, RecordRows, Statuses, Resolved, Claims
<1>12. /\ Written(journal, journal', {op}, r) /\ (Single(journal) => Single(journal'))
       /\ journal' \in Seq(RecordRows)
  <2>1. journal' = Place(journal, r) /\ (InT05 => \E q \in Members(journal) : q.op = r.op)
    BY <1>3, <1>4, <1>10, <1>11
  <2> QED
    BY <1>11, <2>1, PlaceWrites DEF JournalInv, Shapes
<1>13. PICK c : c = [tabs[t] EXCEPT !.step = "confirmed", !.found = {op}, !.records = journal']
  OBVIOUS
<1>14. /\ c \in RecoverRows /\ c \in Handlers /\ c.step = "confirmed" /\ c.found = {op}
       /\ c.records = journal' /\ c.hash = hash /\ c.left = left /\ c.action = action
  BY <1>1, <1>4, <1>10, <1>12, <1>13 DEF RecoverRows, Handlers
<1>15. Writes(t, c, {op}, r)
  BY <1>3, <1>6, <1>10, <1>11, <1>12, <1>13, <1>14
     DEF Writes, Goto, Asking, Prompted, JournalInv, Shapes
<1>16. /\ Grows /\ HashesStay /\ Ledger /\ Ledger' /\ tabs'[t] = c /\ Unsent' \subseteq Unsent
       /\ txs' = txs
       /\ intents' # intents => Ops' = Ops \cup {Len(intents) + 1}
  BY <1>15, WritesGrow
<1>17. op \in Ops' /\ Own(op, hash)' /\ (Call(op) = Call(txs[hash].op))' /\ Action(op)' = action
  <2>1. CASE tabs[t].found # {}
    BY <2>1, <1>5, <1>8, <1>16, OwnStays, CallStays
  <2>2. CASE tabs[t].found = {}
    <3>1. op \in Ops'
      BY <2>2, <1>9, <1>10, <1>16
    <3>2. op \notin Unsent' /\ \A h \in DOMAIN txs : txs[h].op # op
      BY <2>2, <1>9, <1>16, ExposedOps DEF JournalInv, Ledger
    <3>3. intents'[op] = row
      <4>1. intents \in Seq(IntentRows)
        BY DEF JournalInv, Shapes
      <4>2. intents'[Len(intents) + 1] = row
        BY ONLY <2>2, <1>6, <1>9, <4>1, AppendElements
      <4> QED
        BY <2>2, <1>9, <4>2
    <3>4. Call(txs[hash].op)' = Call(txs[hash].op)
      BY <1>5, <1>16, CallStays
    <3>5. Call(op)' = Call(txs[hash].op) /\ Action(op)' = action
      BY <1>3, <1>6, <3>3 DEF Call, Action, TxAction
    <3> QED
      BY <1>16, <3>1, <3>2, <3>4, <3>5 DEF Own
  <2> QED
    BY <2>1, <2>2
<1>18. RecordTrue(r)'
  BY <1>4, <1>11, <1>16, <1>17 DEF RecordTrue, Resolved
<1>19. Addable(r)
  BY <1>4, <1>11, <1>18 DEF Addable
<1>20. RecoverTrue(t)'
  <2>1. LeftTrue(left)'
    BY <1>5, <1>16, LeftStays
  <2>2. LeftTrue(tabs[t].left)'
    BY <2>1, <1>14, <1>16 DEF LeftTrue
  <2>3. \A q \in Members(journal') : q.op = op => q.hash = hash
    BY <1>11, <1>12 DEF Written
  <2>4. \E q \in Members(journal') : q.op = op
    BY <1>11, <1>12 DEF Written
  <2>5. Mined(hash)'
    BY <1>3, <1>16, MinedStays
  <2>6. (\A o \in tabs[t].found : o \in Ops /\ Known(o) /\ Action(o) = tabs[t].action)'
    BY <1>14, <1>16, <1>17, <2>4 DEF Known
  <2>7. (\A o \in tabs[t].found : /\ Own(o, tabs[t].hash) /\ Hashed(o, {tabs[t].hash})
                                  /\ Call(o) = Call(txs[tabs[t].hash].op))'
    BY <1>14, <1>16, <1>17, <2>3 DEF Hashed
  <2>8. (\A o, p \in tabs[t].found : o = p)' /\ (tabs[t].found # {})' /\ Mined(tabs[t].hash)'
    BY <1>14, <1>16, <2>5
  <2>9. (tabs[t].records = journal /\ tabs[t].hash \in WrongHashes \cup DOMAIN txs)'
    BY <1>4, <1>14, <1>16
  <2>10. (tabs[t].step = "confirmed")'
    BY <1>14, <1>16
  <2> QED
    BY <2>2, <2>6, <2>7, <2>8, <2>9, <2>10 DEF RecoverTrue
<1>21. LockMove(t, c)
  BY <1>3, <1>14, KeepMoves DEF JournalInv, Exclusive
<1>22. ReviewTrue(t)'
  BY <1>3, <1>16, ReviewStays DEF JournalInv, PagesTrue
<1>23. \A o \in {op} : o \in Exposed' => o = r.op /\ ~Resolved(r)
  BY <1>11
<1> QED
  BY <1>4, <1>14, <1>15, <1>16, <1>19, <1>20, <1>21, <1>22, <1>23, RecoveringTrue, WritesStep

-----------------------------------------------------------------------------
(***************************************************************************)
(* Restored evidence, the recovery of T05, and simulations.                *)
(***************************************************************************)
LEMMA RestoreWritesKeeps ==
    ASSUME JournalInv, TabsAssumption, JournalAssumption, NEW t \in Tabs, HoldRestoreWrites(t)
    PROVE  JournalInv'
<1>1. PICK r, found : r = tabs[t].record /\ found = tabs[t].found
  OBVIOUS
<1>2. /\ tabs[t].step = "restoring" /\ Finish(t) /\ UNCHANGED <<fixed, intents, reviews, orphans, ledger>>
      /\ journal' = Append(Pick(tabs[t].records,
                                {i \in DOMAIN tabs[t].records : tabs[t].records[i].op \notin found}), r)
  BY <1>1 DEF HoldRestoreWrites
<1>3. InT04 /\ exports # {} /\ \A u \in Tabs : u # t => Unread(u)
  <2>1. InT04 /\ exports # {}
    BY <1>2 DEF JournalInv, Locks
  <2> QED
    BY <2>1, <1>2, OthersUnread DEF JournalInv
<1>4. tabs[t] \in RestoreRows /\ RestoreTrue(t)
  BY <1>2, HandlerRows DEF JournalInv, Shapes, PagesTrue, HandlerTrue
<1>5. /\ tabs[t].records = journal /\ r \in RecordRows
      /\ \A op \in found : op \in Ops /\ op \notin Exposed
  BY <1>1, <1>4 DEF RestoreTrue, RestoreRows
<1>6. RecordTrue(r) /\ ~Claims(r)
  <2>1. \A x : x = tabs[t].record => RecordTrue(x) /\ ~Claims(x)
    BY <1>4 DEF RestoreTrue
  <2> QED
    BY <2>1, <1>1
<1>7. Written(journal, journal', found, r)
  BY <1>2, <1>5, AppendKept DEF JournalInv, Shapes
<1>8. /\ tabs' = [tabs EXCEPT ![t] = Idle] /\ Idle \in Handlers /\ Idle.step \notin Asking
      /\ LockMove(t, Idle)
  BY <1>2, FinishMoves DEF Finish, Goto, Handlers, Idle, Asking
<1>9. ~InT03
  BY <1>3 DEF InT03, InT04
<1>10. Writes(t, Idle, found, r)
  BY <1>2, <1>3, <1>7, <1>8, <1>9 DEF Writes, Prompted, JournalInv, Shapes
<1>11. Grows /\ Ledger /\ tabs'[t] = Idle /\ Exposed' \subseteq Exposed
  BY <1>10, WritesGrow
<1>12. Addable(r)
  BY <1>6, <1>9, <1>11, RecordAddable
<1>13. \A op \in found : op \in Exposed' => op = r.op /\ ~Resolved(r)
  BY <1>5, <1>11
<1>14. ReviewTrue(t)'
  BY <1>2, <1>11, ReviewStays DEF JournalInv, PagesTrue
<1> QED
  BY <1>3, <1>8, <1>10, <1>11, <1>12, <1>13, <1>14, IdleTrue, WritesStep

LEMMA TradeRecoversKeeps ==
    ASSUME JournalInv, TabsAssumption, JournalAssumption, NEW t \in Tabs, InT05,
           NEW op \in Ops, NEW hash \in WrongHashes \cup DOMAIN txs,
           hash \in DOMAIN txs => Own(op, hash) /\ Call(op) = Call(txs[hash].op),
           NEW left \in Seq(RecordRows), LeftTrue(left),
           NEW expects \in Statuses \cup {NotForReview},
           TradeRecovers(t, op, hash, left, expects),
           Take(t) \/ (lock = t /\ lock' = lock)
    PROVE  JournalInv'
<1>1. PICK r : r = Record(op, "pending", hash)
  OBVIOUS
<1>2. PICK action, found : action = Action(op) /\ found = {op}
  OBVIOUS
<1>3. PICK c : c = Recovering(found, hash, action, journal', left, expects)
  OBVIOUS
<1>4. /\ \E q \in Members(journal) : q.op = op
      /\ journal' = Replace(journal, r) /\ Goto(t, c)
      /\ UNCHANGED <<fixed, intents, reviews, orphans, ledger>>
  BY <1>1, <1>2, <1>3 DEF TradeRecovers
<1>5. op \in Nat /\ action \in AllActions /\ hash \in Hashes /\ hash # NoHash
  <2>1. op \in Nat /\ action \in AllActions
    BY <1>2, IntentTyped DEF JournalInv, Action
  <2>2. hash \in Hashes /\ hash # NoHash
    BY HashKinds DEF JournalInv, Hashes
  <2> QED
    BY <2>1, <2>2
<1>6. /\ r \in RecordRows /\ r.op = op /\ r.hash = hash /\ ~Resolved(r) /\ ~Claims(r)
      /\ r.status # "mismatch"
  BY <1>1, <1>5 DEF Record, RecordRows, Statuses, Resolved, Claims
<1>7. /\ Written(journal, journal', {op}, r) /\ (Single(journal) => Single(journal'))
      /\ journal' \in Seq(RecordRows)
  BY <1>4, <1>6, ReplaceWrites DEF JournalInv, Shapes
<1>8. /\ c \in RecoverRows /\ c \in Handlers /\ c.step = "recovering" /\ c.found = found
      /\ c.records = journal' /\ c.hash = hash /\ c.left = left /\ c.action = action
  BY <1>2, <1>3, <1>5, <1>7 DEF Recovering, RecoverRows, Handlers
<1>9. ~InT03
  BY DEF InT03, InT05
<1>10. Writes(t, c, {op}, r)
  BY <1>4, <1>7, <1>8, <1>9 DEF Writes, Goto, Asking, Prompted, JournalInv, Shapes
<1>11. Grows /\ HashesStay /\ Ledger /\ tabs'[t] = c /\ txs' = txs
  BY <1>10, WritesGrow
<1>12. Addable(r)
  <2>1. RecordTrue(r)
    BY <1>5, <1>6 DEF RecordTrue
  <2> QED
    BY <1>6, <1>9, <1>11, <2>1, RecordAddable
<1>13. LockMove(t, c) /\ \A u \in Tabs : u # t => Unread(u)
  <2>1. CASE Take(t)
    <3>1. LockMove(t, c) /\ lock = NoTab
      BY <2>1, <1>8, TakeMoves DEF JournalInv
    <3> QED
      BY <3>1, OthersUnread DEF JournalInv
  <2>2. CASE lock = t /\ lock' = lock
    <3>1. LockMove(t, c)
      BY <2>2, <1>8 DEF LockMove
    <3> QED
      BY <2>2, <3>1, OthersUnread DEF JournalInv
  <2> QED
    BY <2>1, <2>2
<1>14. Started(found, hash, action, left)'
  <2>1. LeftTrue(left)'
    BY <1>11, LeftStays
  <2>2. op \in Ops' /\ Action(op)' = action
    BY <1>2, <1>11, CallStays
  <2>3. (\E q \in Members(journal') : q.op = op)
        /\ \A q \in Members(journal') : q.op = op => q.hash \in {NoHash, hash}
    BY <1>6, <1>7 DEF Written
  <2>4. hash \in DOMAIN txs => Own(op, hash)' /\ (Call(op) = Call(txs[hash].op))'
    BY <1>11, OwnStays, CallStays, TxStays
  <2>5. ~InT03'
    BY <1>9, <1>11 DEF Grows, InT03
  <2> QED
    BY <1>2, <1>11, <2>1, <2>2, <2>3, <2>4, <2>5 DEF Started, Known, Hashed, Matched
<1>15. RecoverTrue(t)'
  BY <1>8, <1>11, <1>14, StartedNext
<1>16. ReviewTrue(t)'
  BY <1>4, <1>11, ReviewStays DEF JournalInv, PagesTrue
<1>17. \A o \in {op} : o \in Exposed' => o = r.op /\ ~Resolved(r)
  BY <1>6
<1> QED
  BY <1>8, <1>10, <1>11, <1>12, <1>13, <1>15, <1>16, <1>17, RecoveringTrue, WritesStep

LEMMA TradeQueryKeeps ==
    ASSUME JournalInv, TabsAssumption, JournalAssumption, NEW t \in Tabs,
           NEW r \in Members(journal), NEW hash \in WrongHashes \cup {h \in DOMAIN txs : txs[h].op = r.op},
           TradeQuery(t, r.op, hash)
    PROVE  JournalInv'
<1>1. PICK left \in Seq(RecordRows) : left = <<>>
  BY EmptySeq
<1>2. LeftTrue(left)
  BY <1>1 DEF LeftTrue, Members
<1>3. PICK op \in Ops : op = r.op
  BY DEF JournalInv, JournalTrue, RecordsTrue, RecordTrue
<1>4. hash \in DOMAIN txs => Own(op, hash) /\ Call(op) = Call(txs[hash].op)
  BY <1>3, HashKinds DEF JournalInv, Own, Ledger
<1>5. InT05 /\ Take(t) /\ TradeRecovers(t, op, hash, left, NotForReview)
  BY <1>1, <1>3 DEF TradeQuery
<1> QED
  BY <1>2, <1>4, <1>5, TradeRecoversKeeps

LEMMA TradeRechecksKeeps ==
    ASSUME JournalInv, TabsAssumption, JournalAssumption, NEW t \in Tabs, TradeRechecks(t)
    PROVE  JournalInv'
<1>1. PICK r : r = tabs[t].left[1]
  OBVIOUS
<1>2. /\ InT05 /\ tabs[t].step = "rechecking" /\ tabs[t].left # <<>> /\ lock' = lock
      /\ TradeRecovers(t, r.op, r.hash, Tail(tabs[t].left), r.status)
  BY <1>1 DEF TradeRechecks
<1>3. /\ r.hash \in DOMAIN txs /\ r.status \in Statuses /\ r.op \in Ops
      /\ Tail(tabs[t].left) \in Seq(RecordRows) /\ LeftTrue(Tail(tabs[t].left))
      /\ \A x : x = tabs[t].left[1] => RecordTrue(x)
  BY <1>2, LeftGoesOn, <1>1
<1>4. RecordTrue(r)
  BY <1>1, <1>3
<1>5. PICK op, left, hash, expects :
         op = r.op /\ left = Tail(tabs[t].left) /\ hash = r.hash /\ expects = r.status
  OBVIOUS
<1>6. \A x : x = Tail(tabs[t].left) => LeftTrue(x)
  BY <1>3
<1>7. LeftTrue(left)
  BY <1>5, <1>6
<1>8. /\ op \in Ops /\ hash \in WrongHashes \cup DOMAIN txs /\ left \in Seq(RecordRows)
      /\ expects \in Statuses \cup {NotForReview}
      /\ Own(op, hash) /\ Call(op) = Call(txs[hash].op)
  BY <1>3, <1>4, <1>5 DEF RecordTrue
<1>9. TradeRecovers(t, op, hash, left, expects)
  BY <1>2, <1>5
<1>10. lock = t
  BY <1>2 DEF JournalInv, Locks, LockHeld
<1> QED
  BY <1>2, <1>7, <1>8, <1>9, <1>10, TradeRecoversKeeps

LEMMA TradeRestoresKeeps ==
    ASSUME JournalInv, TabsAssumption, JournalAssumption, NEW t \in Tabs, NEW e \in exports,
           TradeRestores(t, e)
    PROVE  JournalInv'
<1>1. PICK r : r = [e EXCEPT !.status = "unknown"]
  OBVIOUS
<1>2. /\ InT05 /\ tabs[t] = Idle /\ lock = NoTab /\ Action(e.op) \notin TradeSimulations
      /\ journal' = Put(journal, r)
      /\ UNCHANGED <<fixed, intents, pages, orphans, ledger>>
  BY <1>1 DEF TradeRestores
<1>3. e \in RecordRows /\ RecordTrue(e) /\ e.hash \in DOMAIN txs /\ e.hash # NoHash
      /\ txs[e.hash].op = e.op
  <2>1. InT05 /\ ~InT04
    BY <1>2 DEF InT04, InT05
  <2>2. /\ e \in RecordRows /\ RecordTrue(e)
        /\ e.hash # NoHash => e.hash \in DOMAIN txs /\ txs[e.hash].op = e.op
        /\ e.hash = NoHash => Action(e.op) \in TradeSimulations
    BY <2>1 DEF JournalInv, JournalTrue, ExportsTrue, Shapes
  <2> QED
    BY <2>2, <1>2
<1>4. /\ r \in RecordRows /\ r.op = e.op /\ r.hash = e.hash /\ ~Resolved(r) /\ ~Claims(r)
      /\ r.status # "mismatch"
  BY <1>1, <1>3 DEF RecordRows, Statuses, Resolved, Claims
<1>5. RecordTrue(r)
  BY <1>3, <1>4 DEF RecordTrue, Own, JournalInv, Ledger
<1>6. Written(journal, journal', {r.op}, r) /\ (Single(journal) => Single(journal'))
  BY <1>2, <1>4, PutWrites DEF JournalInv, Shapes
<1>7. tabs' = [tabs EXCEPT ![t] = Idle] /\ Idle \in Handlers /\ Idle.step \notin Asking
      /\ LockMove(t, Idle)
  BY <1>2 DEF JournalInv, Shapes, Handlers, Idle, Asking, LockMove, Exclusive, pages
<1>8. ~InT03
  BY <1>2 DEF InT03, InT05
<1>9. Writes(t, Idle, {r.op}, r)
  BY <1>2, <1>6, <1>7, <1>8 DEF Writes, Prompted, JournalInv, Shapes, pages
<1>10. Grows /\ Ledger /\ tabs'[t] = Idle
  BY <1>9, WritesGrow
<1>11. Addable(r)
  BY <1>4, <1>5, <1>8, <1>10, RecordAddable
<1>12. \A o \in {r.op} : o \in Exposed' => o = r.op /\ ~Resolved(r)
  BY <1>4
<1>13. ReviewTrue(t)'
  BY <1>2, <1>10, ReviewStays DEF JournalInv, PagesTrue, pages
<1>14. \A u \in Tabs : u # t => Unread(u)
  BY <1>2, OthersUnread DEF JournalInv
<1> QED
  BY <1>7, <1>9, <1>10, <1>11, <1>12, <1>13, <1>14, IdleTrue, WritesStep

(* What a page that runs has reviewed.                                     *)
LEMMA ReviewRead ==
    ASSUME JournalInv, TabsAssumption, NEW t \in Tabs, tabs[t].step \in {"running", "probed", "simulating"}
    PROVE  /\ tabs[t] \in RunRows /\ RunTrue(t) /\ reviews[t] \in ReviewRows
           /\ reviews[t].action \in AllActions /\ reviews[t].hold \in Hashes
           /\ reviews[t].expiry \in Nat /\ reviews[t].state \in Nat
           /\ tabs[t].records = journal /\ lock = t /\ \A u \in Tabs : u # t => Unread(u)
           /\ Intent(reviews[t].action, reviews[t].hold, reviews[t].expiry, reviews[t].state, TRUE) \in IntentRows
<1>1. tabs[t] \in RunRows /\ RunTrue(t)
  BY HandlerRows DEF JournalInv, Shapes, PagesTrue, HandlerTrue
<1>2. reviews[t] \in ReviewRows
  BY <1>1 DEF RunTrue, JournalInv, Shapes
<1>3. /\ reviews[t].action \in AllActions /\ reviews[t].hold \in Hashes
      /\ reviews[t].expiry \in Nat /\ reviews[t].state \in Nat
  BY <1>2 DEF ReviewRows
<1>4. tabs[t].records = journal /\ lock = t /\ \A u \in Tabs : u # t => Unread(u)
  BY RecordsRead DEF Exclusive
<1>5. Intent(reviews[t].action, reviews[t].hold, reviews[t].expiry, reviews[t].state, TRUE) \in IntentRows
  BY <1>3 DEF Intent, IntentRows
<1> QED
  BY <1>1, <1>2, <1>3, <1>4, <1>5

LEMMA SimulatedKeeps ==
    ASSUME JournalInv, TabsAssumption, JournalAssumption, NEW t \in Tabs,
           tabs[t].step \in {"running", "simulating"}, NEW row \in IntentRows,
           intents' = Append(intents, row),
           Ends(t, Record(Len(intents) + 1, "complete", NoHash)),
           UNCHANGED <<fixed, orphans, ledger>>
    PROVE  JournalInv'
<1>1. PICK op : op = Len(intents) + 1
  OBVIOUS
<1>2. PICK r : r = Record(op, "complete", NoHash)
  OBVIOUS
<1>3. op \in Nat /\ op \notin Ops /\ intents' # intents
  <2>1. intents \in Seq(IntentRows)
    BY DEF JournalInv, Shapes
  <2>2. Len(intents') = Len(intents) + 1 /\ Len(intents) \in Nat
    BY ONLY <2>1, row \in IntentRows, intents' = Append(intents, row), AppendElements
  <2> QED
    BY <1>1, <2>1, <2>2 DEF Ops
<1>4. r \in RecordRows /\ r.op = op /\ r.hash = NoHash /\ Resolved(r)
  BY <1>2, <1>3 DEF Record, RecordRows, Statuses, Resolved, Hashes, NoHash
<1>5. Writes(t, Idle, {r.op}, r) /\ LockMove(t, Idle) /\ reviews'[t] = NoReview
  <2>1. \A q \in Members(journal) : q.op # r.op
    BY <1>3, <1>4 DEF JournalInv, JournalTrue, RecordsTrue, RecordTrue
  <2>2. tabs[t].step \in Exclusive /\ Ends(t, r) /\ Prompted(t)
    BY <1>1, <1>2 DEF Exclusive, Prompted
  <2> QED
    BY <1>4, <2>1, <2>2, EndsGrow
<1>6. /\ Ops' = Ops \cup {op} /\ txs' = txs /\ Unsent' \subseteq Unsent /\ Exposed' \subseteq Exposed
  BY <1>1, <1>3, <1>5, WritesGrow
<1>7. op \notin Unsent' /\ op \notin Exposed' /\ \A h \in DOMAIN txs : txs[h].op # op
  BY <1>3, <1>6, ExposedOps DEF JournalInv, Ledger
<1>8. Addable(r)
  <2>1. NoHash \notin DOMAIN txs /\ NoHash \notin WrongHashes
    BY HashKinds DEF JournalInv
  <2>2. RecordTrue(r)'
    BY <1>4, <1>6, <1>7, <2>1 DEF RecordTrue, Own, Resolved
  <2> QED
    BY <1>4, <2>1, <2>2 DEF Addable, Claims
<1>9. tabs[t].step \in Exclusive
  BY DEF Exclusive
<1> QED
  BY <1>4, <1>5, <1>7, <1>8, <1>9, EndsKeeps

LEMMA HoldSimulatedKeeps ==
    ASSUME JournalInv, TabsAssumption, JournalAssumption, NEW t \in Tabs, HoldSimulated(t)
    PROVE  JournalInv'
<1>1. PICK row : row = HoldIntent(reviews[t])
  OBVIOUS
<1>2. /\ tabs[t].step = "simulating" /\ intents' = Append(intents, row)
      /\ Ends(t, Record(Len(intents) + 1, "complete", NoHash))
      /\ UNCHANGED <<fixed, orphans, ledger>>
  BY <1>1 DEF HoldSimulated
<1>3. row \in IntentRows
  BY <1>1, <1>2, ReviewRead DEF HoldIntent
<1> QED
  BY <1>2, <1>3, SimulatedKeeps

LEMMA TradeSimulatesKeeps ==
    ASSUME JournalInv, TabsAssumption, JournalAssumption, NEW t \in Tabs, TradeSimulates(t)
    PROVE  JournalInv'
<1>1. PICK row : row = TradeIntent(reviews[t])
  OBVIOUS
<1>2. /\ tabs[t].step = "running" /\ intents' = Append(intents, row)
      /\ Ends(t, Record(Len(intents) + 1, "complete", NoHash))
      /\ UNCHANGED <<fixed, orphans, ledger>>
  BY <1>1 DEF TradeSimulates
<1>3. row \in IntentRows
  BY <1>1, <1>2, ReviewRead DEF TradeIntent
<1> QED
  BY <1>2, <1>3, SimulatedKeeps

-----------------------------------------------------------------------------
(***************************************************************************)
(* The wallet and the chain.                                               *)
(***************************************************************************)
(* A step of neither page nor storage.                                     *)
LEMMA OutsideKeeps ==
    ASSUME JournalInv, JournalAssumption, UNCHANGED <<journal, pages>>,
           Shapes', Grows, Ledger', JournalTrue'
    PROVE  JournalInv'
<1>1. Locks'
  BY DEF JournalInv, Locks, LockHeld, Grows, pages, InT02, InT04, InT05
<1>2. ASSUME NEW u \in Tabs PROVE HandlerTrue(u)' /\ ReviewTrue(u)'
  <2>1. tabs[u] \in Handlers /\ HandlerTrue(u) /\ ReviewTrue(u)
    BY DEF JournalInv, Shapes, PagesTrue
  <2>2. Ledger /\ HashesStay /\ tabs'[u] = tabs[u] /\ reviews'[u] = reviews[u]
    BY DEF JournalInv, HashesStay, pages
  <2> QED
    BY <2>1, <2>2, HandlerStays, ReviewStays
<1>3. (~InT02)' /\ Careful'
  BY DEF JournalInv, Grows, InT02, InT04, Careful
<1> QED
  BY <1>1, <1>2, <1>3 DEF JournalInv, PagesTrue

LEMMA WaitsKeeps ==
    ASSUME JournalInv, JournalAssumption, time' \in Nat, time <= time',
           UNCHANGED <<fixed, intents, journal, pages, orphans, txs, chain>>
    PROVE  JournalInv'
<1>0. Shapes /\ Ledger /\ JournalTrue
  BY DEF JournalInv
<1>1. Shapes'
  BY <1>0 DEF Shapes, fixed, pages, Ops
<1>2. Unsent' = Unsent
  BY DEF Unsent, pages
<1>3. Grows
  BY <1>0, <1>2, GrowsHere DEF fixed
<1>4. Ledger'
  BY <1>0, <1>3, LedgerHere DEF pages, Ledger, Ops
<1>5. JournalTrue'
  BY <1>0, <1>2, <1>3, LeaveKeeps
<1> QED
  BY <1>1, <1>3, <1>4, <1>5, OutsideKeeps

(* The wallet sends what it was asked for.                                 *)
LEMMA SendsLedger ==
    ASSUME Shapes, Ledger, NEW op \in Unsent, txs' = Append(txs, Sent(op)),
           UNCHANGED <<fixed, intents, journal, chain, time>>,
           orphans' \subseteq orphans, Unsent' \subseteq Unsent, op \notin Unsent',
           \A u \in Tabs : tabs'[u].step \in Asking => tabs'[u].op = tabs[u].op /\ tabs[u].step \in Asking
    PROVE  /\ txs' \in Seq(TxRows) /\ DOMAIN txs' = DOMAIN txs \cup {Len(txs) + 1}
           /\ Len(txs') = Len(txs) + 1 /\ Len(txs) + 1 \notin DOMAIN txs
           /\ txs'[Len(txs) + 1].op = op
           /\ txs'[Len(txs) + 1].status = "sent"
           /\ \A h \in DOMAIN txs : txs'[h] = txs[h]
           /\ Exposed' \subseteq Exposed /\ Grows /\ Ledger'
<1>1. op \in Ops /\ op \in Nat /\ op \in Exposed
  BY ExposedOps, IntentTyped DEF Exposed
<1>2. Sent(op) \in TxRows /\ Sent(op).op = op /\ Sent(op).status = "sent"
  BY <1>1 DEF Sent, TxRows
<1>3. /\ txs' \in Seq(TxRows) /\ Len(txs') = Len(txs) + 1
      /\ DOMAIN txs' = DOMAIN txs \cup {Len(txs) + 1}
      /\ \A h \in DOMAIN txs : txs'[h] = txs[h]
      /\ txs'[Len(txs) + 1] = Sent(op)
  <2>1. txs \in Seq(TxRows)
    BY DEF Shapes
  <2> QED
    BY ONLY <2>1, <1>2, txs' = Append(txs, Sent(op)), AppendElements
<1>4. Len(txs) + 1 \notin DOMAIN txs /\ DOMAIN txs' \subseteq Nat \ {NoHash}
  BY <1>3 DEF Shapes, NoHash
<1>5. Sending' = Sending \cup {op}
  BY <1>2, <1>3, <1>4 DEF Sending, InFlight
<1>6. Exposed' \subseteq Exposed
  BY <1>1, <1>5 DEF Exposed
<1>7. Grows
  BY <1>2, <1>3, <1>4, <1>6 DEF Grows, fixed, Ops
<1>8. Ledger'
  <2>1. ASSUME NEW h \in DOMAIN txs PROVE txs'[h].op \in Ops' \ Unsent' /\ TxAction(h)' = TxAction(h)
    BY <1>7, TxStays DEF Grows, Ledger
  <2>2. \A h \in DOMAIN txs' : txs'[h].op \in Ops' \ Unsent'
    BY <1>1, <1>2, <1>3, <2>1 DEF Ops
  <2>3. \A h, k \in DOMAIN txs' : txs'[h].op = txs'[k].op => h = k
    BY <1>2, <1>3 DEF Ledger
  <2>4. \A u \in Tabs : tabs'[u].step \in Asking => tabs'[u].op \in Ops' \ orphans'
    BY DEF Ledger, Ops
  <2>5. \A i \in DOMAIN chain : chain[i] \in DOMAIN txs' /\ txs'[chain[i]].status = "ok"
    BY <1>3 DEF Ledger
  <2>6. \A h \in DOMAIN txs' : txs'[h].status = "ok" => \E i \in DOMAIN chain : chain[i] = h
    BY <1>2, <1>3 DEF Ledger
  <2>7. \A i, j \in DOMAIN chain : TxAction(chain[i])' = TxAction(chain[j])' => i = j
    BY <2>1 DEF Ledger
  <2> QED
    BY <2>2, <2>3, <2>4, <2>5, <2>6, <2>7 DEF Ledger
<1> QED
  BY <1>2, <1>3, <1>4, <1>6, <1>7, <1>8

LEMMA SendsGrow ==
    ASSUME JournalInv, JournalAssumption, NEW op \in Unsent, txs' = Append(txs, Sent(op)),
           UNCHANGED <<fixed, intents, journal, chain, time>>,
           orphans' \subseteq orphans, Unsent' \subseteq Unsent, op \notin Unsent',
           \A u \in Tabs : tabs'[u].step \in Asking => tabs'[u].op = tabs[u].op /\ tabs[u].step \in Asking
    PROVE  /\ txs' \in Seq(TxRows) /\ DOMAIN txs' = DOMAIN txs \cup {Len(txs) + 1}
           /\ Len(txs') = Len(txs) + 1 /\ Len(txs) + 1 \notin DOMAIN txs
           /\ txs'[Len(txs) + 1].op = op
           /\ Grows /\ HashesStay /\ Ledger' /\ JournalTrue'
<1>0. Shapes /\ Ledger /\ JournalTrue
  BY DEF JournalInv
<1>1. /\ txs' \in Seq(TxRows) /\ DOMAIN txs' = DOMAIN txs \cup {Len(txs) + 1}
      /\ Len(txs') = Len(txs) + 1 /\ Len(txs) + 1 \notin DOMAIN txs
      /\ txs'[Len(txs) + 1].op = op /\ txs'[Len(txs) + 1].status = "sent"
      /\ \A h \in DOMAIN txs : txs'[h] = txs[h]
      /\ Exposed' \subseteq Exposed /\ Grows /\ Ledger'
  BY <1>0, SendsLedger
<1>2. HashesStay
  BY DEF HashesStay
<1>3. \A p \in Exposed' : \E q \in Members(journal') : q.op = p /\ ~Resolved(q)
  BY <1>0, <1>1 DEF JournalTrue, ExposedKnown
<1>4. InT04 => \A h \in DOMAIN txs' : txs'[h].status = "failed" => time' >= intents'[txs'[h].op].expiry
  BY <1>0, <1>1 DEF JournalTrue, HoldsTrue
<1>5. JournalTrue'
  BY <1>0, <1>1, <1>3, <1>4, JournalFollows
<1> QED
  BY <1>1, <1>2, <1>5

LEMMA OrphanSendsKeeps ==
    ASSUME JournalInv, JournalAssumption, NEW op \in orphans, OrphanSends(op)
    PROVE  JournalInv'
<1>0. Shapes /\ Ledger
  BY DEF JournalInv
<1>1. op \in Unsent /\ tabs' = tabs /\ orphans' = orphans \ {op}
  BY DEF Unsent, OrphanSends, pages
<1>2. Unsent' \subseteq Unsent /\ op \notin Unsent'
  BY <1>0, <1>1 DEF Unsent, Ledger
<1>3. txs' \in Seq(TxRows) /\ Grows /\ Ledger' /\ JournalTrue'
  BY <1>1, <1>2, SendsGrow DEF OrphanSends
<1>4. Shapes'
  BY <1>0, <1>1, <1>3 DEF Shapes, OrphanSends, fixed, pages, Ops
<1> QED
  BY <1>3, <1>4, OutsideKeeps DEF OrphanSends

LEMMA WalletSendsKeeps ==
    ASSUME JournalInv, TabsAssumption, JournalAssumption, NEW t \in Tabs, WalletSends(t)
    PROVE  JournalInv'
<1>0. Shapes /\ Locks /\ Ledger /\ JournalTrue /\ ~InT02
  BY DEF JournalInv
<1>1. tabs[t] \in AskRows /\ tabs[t].step = "asked" /\ tabs[t].step \in Exclusive
  BY <1>0, HandlerRows DEF Shapes, WalletSends, Exclusive
<1>2. tabs[t].op \in Nat /\ tabs[t].records \in Seq(RecordRows)
  BY <1>1 DEF AskRows
<1>3. PICK op : op = tabs[t].op
  OBVIOUS
<1>4. PICK records : records = tabs[t].records
  OBVIOUS
<1> PICK hash : hash = Len(txs) + 1
  OBVIOUS
<1> DEFINE c == [step |-> "sent", op |-> op, hash |-> hash, records |-> records]
<1>5. op \in Unsent /\ op \in Nat /\ op \in Ops \ orphans /\ txs' = Append(txs, Sent(op))
  BY <1>0, <1>1, <1>2, <1>3 DEF Unsent, Asking, WalletSends, Ledger
<1>6. Len(txs') = Len(txs) + 1
  <2>1. Sent(op) \in TxRows /\ txs \in Seq(TxRows)
    BY <1>0, <1>5 DEF Sent, TxRows, Shapes
  <2> QED
    BY ONLY <2>1, <1>5, AppendElements
<1>7. /\ tabs' = [tabs EXCEPT ![t] = c] /\ c.step = "sent" /\ lock' = lock /\ orphans' = orphans
      /\ c \in SentRows /\ c.op = op /\ c.hash = hash /\ c.records = records
  BY <1>0, <1>2, <1>3, <1>4, <1>5, <1>6 DEF WalletSends, Goto, SentRows, Shapes
<1> HIDE DEF c
<1>8. lock = t /\ LockMove(t, c)
  BY <1>0, <1>1, <1>7, KeepMoves
<1>9. tabs'[t] = c /\ \A u \in Tabs : u # t => tabs'[u] = tabs[u]
  BY <1>0, <1>7 DEF Shapes
<1>10. Unsent' \subseteq Unsent /\ op \notin Unsent'
  <2>1. c.step \notin Asking /\ tabs[t].step \in Asking
    BY <1>1, <1>7 DEF Asking
  <2> QED
    BY <1>0, <1>3, <1>7, <1>8, <2>1, UnsentStep, AloneAsking
<1>11. /\ txs' \in Seq(TxRows) /\ DOMAIN txs' = DOMAIN txs \cup {Len(txs) + 1}
       /\ hash \in DOMAIN txs' /\ hash \notin DOMAIN txs /\ txs'[hash].op = op
       /\ Grows /\ HashesStay /\ Ledger' /\ JournalTrue'
  <2>1. \A u \in Tabs : tabs'[u].step \in Asking => tabs'[u].op = tabs[u].op /\ tabs[u].step \in Asking
    BY <1>7, <1>9 DEF Asking
  <2> QED
    BY <1>5, <1>7, <1>10, <2>1, SendsGrow DEF WalletSends
<1>12. Shapes'
  <2>1. c \in Handlers
    BY <1>7 DEF Handlers
  <2> QED
    BY <1>0, <1>7, <1>11, <2>1 DEF Shapes, WalletSends, fixed, Ops
<1>13. records = journal /\ Awaits(op)
  <2>1. AskTrue(t)
    BY <1>1 DEF JournalInv, PagesTrue, HandlerTrue
  <2>2. \A x : x = tabs[t].op => Awaits(x)
    BY <2>1 DEF AskTrue
  <2> QED
    BY <1>3, <1>4, <2>1, <2>2 DEF AskTrue
<1>14. HandlerTrue(t)'
  <2>1. Known(op)
    BY <1>0, <1>5 DEF JournalTrue, ExposedKnown, Exposed, Known
  <2>2. Unhashed(hash)
    <3> SUFFICES ASSUME NEW r \in Members(journal) PROVE r.hash # hash
      BY DEF Unhashed
    <3>1. r.hash \in {NoHash} \cup WrongHashes \cup DOMAIN txs
      BY <1>0 DEF JournalTrue, RecordsTrue, RecordTrue
    <3>2. Len(txs) + 1 \in Nat \ {NoHash} /\ WrongHashes \cap Nat = {}
      BY <1>0 DEF Shapes, NoHash, JournalAssumption
    <3> QED
      BY <1>11, <3>1, <3>2
  <2>3. journal' = journal
    BY DEF WalletSends
  <2>4. Known(op)' /\ Awaits(op)' /\ Unhashed(hash)'
    BY <1>13, <2>1, <2>2, <2>3 DEF Known, Awaits, Unhashed, Claims, Resolved
  <2>5. SentTrue(t)'
    <3>1. \A h : h = c.hash => Unhashed(h)'
      BY <1>7, <2>4 DEF Unhashed
    <3>2. \A o : o = c.op => Known(o)' /\ Awaits(o)'
      BY <1>7, <2>4
    <3> QED
      BY <1>7, <1>9, <1>11, <1>13, <2>3, <3>1, <3>2 DEF SentTrue, Known, Awaits, Unhashed
  <2>6. /\ c \notin RunRows /\ c \notin AskRows /\ c \notin RecheckRows
        /\ c \notin RecoverRows /\ c \notin RestoreRows
    BY <1>7 DEF RunRows, AskRows, RecheckRows, RecoverRows, RestoreRows
  <2> QED
    BY <1>9, <2>5, <2>6 DEF HandlerTrue
<1>15. reviews' = reviews /\ ReviewTrue(t)'
  BY <1>11, ReviewStays DEF WalletSends, JournalInv, PagesTrue
<1> QED
  BY <1>7, <1>8, <1>11, <1>12, <1>14, <1>15, PageStep DEF WalletSends

-----------------------------------------------------------------------------
(* What T04 exposes fails only by the time.                                *)
LEMMA FailsLate ==
    ASSUME Shapes, NEW op \in Ops, HoldReady(op), Action(op) \notin Did(Now), ~HoldSucceeds(op)
    PROVE  time >= intents[op].expiry
<1>0. intents[op].expiry \in Nat /\ time \in Nat
  BY IntentTyped DEF Shapes
<1>1. CASE Action(op) = "create-hold"
  BY <1>0, <1>1 DEF HoldSucceeds
<1>2. CASE Action(op) = "buyer-kyc"
  BY <1>2 DEF HoldSucceeds
<1>3. CASE Action(op) = "execute"
  BY <1>0, <1>3 DEF HoldSucceeds, HoldReady
<1>4. CASE Action(op) = "release"
  BY <1>0, <1>4 DEF HoldSucceeds, HoldReady
<1> QED
  BY <1>1, <1>2, <1>3, <1>4 DEF HoldReady

(* A block settles what was exposed, which is one transaction.             *)
LEMMA MineSettles ==
    ASSUME Shapes, Ledger, \A x, y \in Exposed : x = y, NEW hash \in InFlight, NEW ok \in BOOLEAN,
           UNCHANGED <<fixed, intents, journal, pages, orphans, time>>,
           txs' = [txs EXCEPT ![hash] =
              [@ EXCEPT !.status = IF ok THEN "ok" ELSE "failed", !.state = Now, !.time = time]]
    PROVE  /\ txs' \in Seq(TxRows) /\ DOMAIN txs' = DOMAIN txs
           /\ \A h \in DOMAIN txs : h # hash => txs'[h] = txs[h]
           /\ txs'[hash].op = txs[hash].op
           /\ txs'[hash].status = IF ok THEN "ok" ELSE "failed"
           /\ txs[hash].op \in Exposed
           /\ Exposed' = {} /\ Unsent' = Unsent /\ Grows
<1>1. hash \in DOMAIN txs /\ txs[hash].status = "sent"
  BY DEF InFlight
<1> DEFINE row == [txs[hash] EXCEPT !.status = IF ok THEN "ok" ELSE "failed", !.state = Now, !.time = time]
<1>2. row \in TxRows /\ row.op = txs[hash].op /\ row.status = IF ok THEN "ok" ELSE "failed"
  <2>1. txs[hash] \in TxRows /\ Now \in Nat /\ time \in Nat
    BY <1>1, TxTyped DEF Shapes, Now
  <2> QED
    BY <2>1 DEF TxRows
<1>3. txs' = [txs EXCEPT ![hash] = row]
  OBVIOUS
<1> HIDE DEF row
<1>4. /\ txs' \in Seq(TxRows) /\ DOMAIN txs' = DOMAIN txs /\ txs'[hash] = row
      /\ \A h \in DOMAIN txs : h # hash => txs'[h] = txs[h]
  BY <1>1, <1>2, <1>3 DEF Shapes
<1>5. txs[hash].op \in Sending /\ Sending \subseteq Exposed /\ Unsent \subseteq Exposed
  BY DEF Sending, Exposed
<1>6. Unsent = {}
  BY <1>1, <1>5 DEF Ledger
<1>7. Unsent' = Unsent
  BY DEF Unsent, pages
<1>8. Sending' = {}
  <2> SUFFICES ASSUME NEW h \in DOMAIN txs', txs'[h].status = "sent" PROVE FALSE
    BY DEF Sending, InFlight
  <2>1. h # hash /\ h \in DOMAIN txs /\ txs[h].status = "sent"
    BY <1>2, <1>4
  <2>2. txs[h].op \in Sending
    BY <2>1 DEF Sending, InFlight
  <2> QED
    BY <1>1, <1>5, <2>1, <2>2 DEF Ledger
<1>9. Exposed' = {}
  BY <1>6, <1>7, <1>8 DEF Exposed
<1>10. Grows
  <2>1. DOMAIN txs' \subseteq Nat \ {NoHash}
    BY <1>4 DEF Shapes, NoHash
  <2>2. \A h \in DOMAIN txs : txs'[h].op = txs[h].op /\ (txs[h].status # "sent" => txs'[h] = txs[h])
    BY <1>1, <1>2, <1>4
  <2> QED
    BY <1>4, <1>7, <1>9, <2>1, <2>2 DEF Grows, fixed, Ops
<1> QED
  BY <1>2, <1>4, <1>5, <1>7, <1>9, <1>10 DEF Exposed

LEMMA MineLedger ==
    ASSUME Shapes, Ledger, NEW hash \in InFlight, NEW ok \in BOOLEAN,
           UNCHANGED <<fixed, intents, journal, pages, orphans, time>>,
           txs' \in Seq(TxRows), DOMAIN txs' = DOMAIN txs,
           \A h \in DOMAIN txs : h # hash => txs'[h] = txs[h],
           txs'[hash].op = txs[hash].op,
           txs'[hash].status = IF ok THEN "ok" ELSE "failed",
           Unsent' = Unsent, Grows,
           chain' = IF ok THEN Append(chain, hash) ELSE chain,
           ok => Action(txs[hash].op) \notin Did(Now)
    PROVE  Shapes' /\ Ledger'
<1>2. PICK op : op = txs[hash].op
  OBVIOUS
<1>3. hash \in DOMAIN txs /\ txs[hash].status = "sent"
  BY DEF InFlight
<1>4. UNCHANGED <<fixed, intents, journal, pages, orphans, time>>
  OBVIOUS
<1>5. /\ txs' \in Seq(TxRows) /\ DOMAIN txs' = DOMAIN txs
      /\ \A h \in DOMAIN txs : h # hash => txs'[h] = txs[h]
      /\ txs'[hash].op = op /\ txs'[hash].status = IF ok THEN "ok" ELSE "failed"
      /\ Unsent' = Unsent /\ Grows
  BY <1>2
<1>6. op \in Ops
  BY <1>2, <1>3 DEF Ledger
<1>7. \A h \in DOMAIN txs : TxAction(h)' = TxAction(h)
  BY TxStays
<1>8. ok => Action(op) \notin Did(Now) /\ TxAction(hash) = Action(op)
  BY <1>2 DEF TxAction
<1>9. ~ok => chain' = chain
  OBVIOUS
<1>10. ok => /\ chain' \in Seq(Nat) /\ DOMAIN chain' = DOMAIN chain \cup {Len(chain) + 1}
             /\ \A i \in DOMAIN chain : chain'[i] = chain[i]
             /\ chain'[Len(chain) + 1] = hash
  <2> SUFFICES ASSUME ok PROVE /\ chain' \in Seq(Nat) /\ DOMAIN chain' = DOMAIN chain \cup {Len(chain) + 1}
                               /\ \A i \in DOMAIN chain : chain'[i] = chain[i]
                               /\ chain'[Len(chain) + 1] = hash
    OBVIOUS
  <2>1. chain \in Seq(Nat) /\ hash \in Nat /\ chain' = Append(chain, hash)
    BY <1>3 DEF Shapes
  <2> QED
    BY ONLY <2>1, AppendElements
<1>11. Shapes'
  BY <1>4, <1>5, <1>9, <1>10 DEF Shapes, fixed, pages, Ops
<1>12. Ledger'
  <2>1. \A h \in DOMAIN txs' : txs'[h].op \in Ops' \ Unsent'
    BY <1>2, <1>4, <1>5 DEF Ledger, Ops
  <2>2. \A h, k \in DOMAIN txs' : txs'[h].op = txs'[k].op => h = k
    <3>1. \A h \in DOMAIN txs : txs'[h].op = txs[h].op
      BY <1>2, <1>5
    <3> QED
      BY <1>5, <3>1 DEF Ledger
  <2>3. \A u \in Tabs : tabs'[u].step \in Asking => tabs'[u].op \in Ops' \ orphans'
    BY <1>4 DEF Ledger, Ops, pages
  <2>4. \A i \in DOMAIN chain : chain[i] \in DOMAIN txs /\ chain[i] # hash /\ txs'[chain[i]].status = "ok"
    BY <1>3, <1>5 DEF Ledger
  <2>5. \A i \in DOMAIN chain' : chain'[i] \in DOMAIN txs' /\ txs'[chain'[i]].status = "ok"
    BY <1>3, <1>5, <1>9, <1>10, <2>4
  <2>6. \A h \in DOMAIN txs' : txs'[h].status = "ok" => \E i \in DOMAIN chain' : chain'[i] = h
    <3> SUFFICES ASSUME NEW h \in DOMAIN txs', txs'[h].status = "ok"
                 PROVE  \E i \in DOMAIN chain' : chain'[i] = h
      OBVIOUS
    <3>1. CASE h = hash
      BY <1>5, <1>10, <3>1
    <3>2. CASE h # hash
      <4>1. PICK i \in DOMAIN chain : chain[i] = h
        BY <1>5, <3>2 DEF Ledger
      <4> QED
        BY <1>9, <1>10, <4>1
    <3> QED
      BY <3>1, <3>2
  <2>8. \A i, j \in DOMAIN chain' : TxAction(chain[i])' = TxAction(chain[j])' => i = j
    <3> DEFINE A(i) == intents[txs[chain[i]].op].action
               B(i) == intents'[txs'[chain'[i]].op].action
    <3>1. \A i \in DOMAIN chain : B(i) = A(i)
      <4> SUFFICES ASSUME NEW i \in DOMAIN chain PROVE B(i) = A(i)
        OBVIOUS
      <4>1. chain'[i] = chain[i] /\ chain[i] \in DOMAIN txs
        BY <1>9, <1>10 DEF Ledger
      <4>2. txs'[chain[i]].op = txs[chain[i]].op /\ intents' = intents
        BY <1>4, <1>5, <2>4
      <4> QED
        BY <4>1, <4>2
    <3>2. \A i, j \in DOMAIN chain : A(i) = A(j) => i = j
      BY DEF Ledger, TxAction, Action
    <3>3. ok => \A i \in DOMAIN chain : A(i) # intents[op].action
      <4>1. \A i \in DOMAIN chain : i \in 1..Len(chain)
        BY DEF Shapes
      <4> QED
        BY <1>8, <4>1 DEF Did, Now, TxAction, Action
    <3>4. ok => B(Len(chain) + 1) = intents[op].action
      BY <1>4, <1>5, <1>10
    <3>5. \A i, j \in DOMAIN chain' : B(i) = B(j) => i = j
      <4> HIDE DEF A, B
      <4> QED
        BY <1>9, <1>10, <3>1, <3>2, <3>3, <3>4
    <3> QED
      BY <3>5 DEF TxAction, Action
  <2> QED
    BY <2>1, <2>2, <2>3, <2>5, <2>6, <2>8 DEF Ledger
<1> QED
  BY <1>11, <1>12

LEMMA MineKeeps ==
    ASSUME JournalInv, JournalAssumption, Mine
    PROVE  JournalInv'
<1>0. Shapes /\ Ledger /\ JournalTrue /\ Careful
  BY DEF JournalInv
<1>1. PICK hash \in InFlight, ok \in BOOLEAN :
        /\ ~ok => ~Succeeds(txs[hash].op) \/ milestone \in Reverting
        /\ txs' = [txs EXCEPT ![hash] =
              [@ EXCEPT !.status = IF ok THEN "ok" ELSE "failed", !.state = Now, !.time = time]]
        /\ chain' = IF ok THEN Append(chain, hash) ELSE chain
  BY DEF Mine
<1>2. PICK op : op = txs[hash].op
  OBVIOUS
<1>3. hash \in DOMAIN txs /\ txs[hash].status = "sent"
  BY DEF InFlight
<1>4. UNCHANGED <<fixed, intents, journal, pages, orphans, time>>
  BY DEF Mine
<1>5. /\ txs' \in Seq(TxRows) /\ DOMAIN txs' = DOMAIN txs
      /\ \A h \in DOMAIN txs : h # hash => txs'[h] = txs[h]
      /\ txs'[hash].op = op /\ txs'[hash].status = IF ok THEN "ok" ELSE "failed"
      /\ op \in Exposed /\ Exposed' = {} /\ Unsent' = Unsent /\ Grows
  <2>0. \A x, y \in Exposed : x = y
    BY <1>0 DEF JournalTrue, OneClaim, Claimed
  <2>1. txs' = [txs EXCEPT ![hash] =
              [@ EXCEPT !.status = IF ok THEN "ok" ELSE "failed", !.state = Now, !.time = time]]
    BY <1>1
  <2> QED
    BY <1>0, <1>2, <1>4, <2>1, <2>0, MineSettles
<1>6. op \in Ops
  BY <1>0, <1>5, ExposedOps
<1>7. \A h \in DOMAIN txs : TxAction(h)' = TxAction(h)
  BY <1>0, <1>5, TxStays
<1>8. Action(op) \notin Did(Now) /\ TxAction(hash) = Action(op)
  BY <1>0, <1>2, <1>5 DEF JournalTrue, ExposedNew, TxAction
<1>9. Shapes' /\ Ledger'
  <2>1. chain' = IF ok THEN Append(chain, hash) ELSE chain
    BY <1>1
  <2>2. Action(txs[hash].op) \notin Did(Now)
    BY <1>2, <1>8
  <2>3. txs'[hash].op = txs[hash].op
    BY <1>2, <1>5
  <2> QED
    BY <1>0, <1>4, <1>5, <2>1, <2>2, <2>3, MineLedger
<1>13. JournalTrue'
  <2>1. ASSUME InT04, NEW h \in DOMAIN txs', txs'[h].status = "failed"
        PROVE  time' >= intents'[txs'[h].op].expiry
    <3>1. CASE h = hash
      <4>1. ~ok
        BY <1>5, <2>1, <3>1
      <4>2. ~HoldSucceeds(op)
        <5>2. ~Succeeds(op)
          BY <1>0, <1>1, <1>2, <2>1, <4>1 DEF Careful, InT04
        <5>3. HoldSucceeds(op) => Succeeds(op)
          <6>1. ~InT02 /\ ~InT03 /\ ~InT05
            BY <2>1 DEF InT02, InT03, InT04, InT05
          <6> QED
            BY <2>1, <6>1 DEF Succeeds
        <5> QED
          BY <5>2, <5>3
      <4>3. HoldReady(op)
        BY <1>0, <1>5, <2>1 DEF JournalTrue, HoldsTrue
      <4> QED
        BY <1>0, <1>4, <1>5, <1>6, <1>8, <3>1, <4>2, <4>3, FailsLate
    <3>2. CASE h # hash
      BY <1>0, <1>4, <1>5, <2>1, <3>2 DEF JournalTrue, HoldsTrue
    <3> QED
      BY <3>1, <3>2
  <2>2. journal' = journal
    BY <1>4
  <2> QED
    BY <1>0, <1>5, <2>1, <2>2, JournalFollows
<1> QED
  BY <1>4, <1>5, <1>9, <1>13, OutsideKeeps

-----------------------------------------------------------------------------
(***************************************************************************)
(* A new operation.                                                        *)
(***************************************************************************)
(* It is the only one exposed.                                             *)
LEMMA AskedNew ==
    ASSUME JournalInv, TabsAssumption, JournalAssumption, NEW t \in Tabs,
           tabs[t].step \in {"running", "probed"}, Settled(journal),
           NEW row \in IntentRows, row.action \notin Did(Now),
           intents' = Append(intents, row),
           NEW op, op = Len(intents) + 1, NEW c, c.step \in {"intended", "asked"}, c.op = op,
           Goto(t, c), UNCHANGED <<fixed, lock, reviews, orphans, ledger>>
    PROVE  /\ Exposed' = {op} /\ op \notin Ops /\ op \in Ops' /\ op \in Nat /\ Ops' = Ops \cup {op}
           /\ intents'[op] = row /\ intents' \in Seq(IntentRows)
           /\ Grows /\ Ledger' /\ tabs'[t] = c
           /\ InFlight = {}
<1>0. Shapes /\ Ledger /\ JournalTrue /\ Locks /\ ~InT02
  BY DEF JournalInv
<1>1. Exposed = {}
  BY <1>0 DEF JournalTrue, ExposedKnown, Settled
<1>2. /\ Unsent = {} /\ Sending = {} /\ InFlight = {} /\ orphans = {}
      /\ \A u \in Tabs : tabs[u].step \notin Asking
  <2>1. Unsent = {} /\ Sending = {}
    BY <1>1 DEF Exposed
  <2>2. \A h \in InFlight : txs[h].op \in Sending
    BY DEF Sending
  <2>3. orphans \subseteq Unsent /\ \A u \in Tabs : tabs[u].step \in Asking => tabs[u].op \in Unsent
    BY DEF Unsent
  <2> QED
    BY <2>1, <2>2, <2>3
<1>3. /\ intents' \in Seq(IntentRows) /\ DOMAIN intents' = DOMAIN intents \cup {op}
      /\ (\A o \in DOMAIN intents : intents'[o] = intents[o]) /\ intents'[op] = row
  <2>1. intents \in Seq(IntentRows)
    BY <1>0 DEF Shapes
  <2> QED
    BY ONLY <2>1, row \in IntentRows, intents' = Append(intents, row), op = Len(intents) + 1, AppendElements
<1>4. op \notin Ops /\ op \in Nat
  BY <1>0 DEF Shapes, Ops
<1>5. Unsent' = {op}
  <2>1. tabs[t].step \notin Asking /\ c.step \in Asking /\ tabs' = [tabs EXCEPT ![t] = c]
    BY DEF Asking, Goto
  <2> QED
    BY <1>0, <1>2, <2>1, UnsentStep
<1>6. Sending' = {}
  BY <1>2 DEF Sending, InFlight, ledger
<1>7. Grows
  <2>1. \A o \in Ops : o \in Unsent' => o \in Unsent
    BY <1>4, <1>5
  <2> QED
    BY <1>0, <2>1, GrowsHere DEF ledger
<1>8. tabs'[t] = c /\ \A u \in Tabs : u # t => tabs'[u] = tabs[u]
  BY <1>0 DEF Shapes, Goto
<1>9. Ledger'
  <2>1. \A u \in Tabs : tabs'[u].step \in Asking => tabs'[u].op \in Ops' \ orphans'
    BY <1>2, <1>3, <1>8 DEF Ops
  <2> QED
    BY <1>0, <1>7, <2>1, LedgerHere DEF ledger
<1> QED
  BY <1>2, <1>3, <1>4, <1>5, <1>6, <1>7, <1>8, <1>9 DEF Exposed, Ops

LEMMA AskedTrue ==
    ASSUME NEW t \in Tabs, tabs'[t] \in AskRows, AskTrue(t)'
    PROVE  HandlerTrue(t)'
<1>1. /\ tabs'[t] \notin RunRows /\ tabs'[t] \notin SentRows /\ tabs'[t] \notin RecheckRows
      /\ tabs'[t] \notin RecoverRows /\ tabs'[t] \notin RestoreRows
  BY DEF AskRows, RunRows, SentRows, RecheckRows, RecoverRows, RestoreRows
<1> QED
  BY <1>1 DEF HandlerTrue

(* A page saves its intent, or saves it and asks, with a settled journal.  *)
LEMMA AsksKeeps ==
    ASSUME JournalInv, TabsAssumption, JournalAssumption, NEW t \in Tabs,
           tabs[t].step \in {"running", "probed"}, Settled(journal),
           NEW row \in IntentRows, row.action \notin Did(Now),
           InT04 => /\ row.action \in {"create-hold", "buyer-kyc", "execute", "release"}
                    /\ row.action \in {"execute", "release"} =>
                          row.hold \in HashOf("create-hold", Now) /\ "buyer-kyc" \in Did(Now)
                    /\ row.action = "release" => "execute" \in Did(Now)
                    /\ time < row.expiry,
           intents' = Append(intents, row),
           NEW step \in {"intended", "asked"},
           Publish(t, Record(Len(intents) + 1, "awaiting-signature", NoHash),
                   [step |-> step, op |-> Len(intents) + 1, records |-> <<>>]),
           UNCHANGED <<fixed, lock, reviews, orphans, ledger>>
    PROVE  JournalInv'
<1>0. Shapes /\ Ledger /\ JournalTrue /\ Locks /\ ~InT02
  BY DEF JournalInv
<1>1. tabs[t].records = journal /\ lock = t /\ \A u \in Tabs : u # t => Unread(u)
  BY RecordsRead DEF Exclusive
<1>2. PICK op : op = Len(intents) + 1
  OBVIOUS
<1>3. PICK r : r = Record(op, "awaiting-signature", NoHash)
  OBVIOUS
<1>4. op \in Nat
  BY <1>0, <1>2 DEF Shapes
<1>5. /\ r \in RecordRows /\ r.op = op /\ r.hash = NoHash /\ ~Resolved(r) /\ Claims(r)
      /\ r.status # "mismatch"
  BY <1>3, <1>4 DEF Record, RecordRows, Hashes, NoHash, Statuses, Resolved, Claims
<1>6. PICK records : records = Put(journal, r)
  OBVIOUS
<1>7. records \in Seq(RecordRows) /\ Written(journal, records, {op}, r) /\ (Single(journal) => Single(records))
  BY <1>0, <1>5, <1>6, PutWrites DEF Shapes
<1> DEFINE c == [step |-> step, op |-> op, records |-> records]
<1>8. /\ journal' = records /\ Goto(t, c) /\ c \in AskRows /\ c.step = step /\ c.op = op /\ c.records = records
  <2>1. [[step |-> step, op |-> op, records |-> <<>>] EXCEPT !.records = records] = c
    OBVIOUS
  <2> QED
    BY <1>1, <1>2, <1>3, <1>4, <1>6, <1>7, <2>1 DEF Publish, AskRows
<1> HIDE DEF c
<1>9. /\ Exposed' = {op} /\ op \notin Ops /\ op \in Ops' /\ Ops' = Ops \cup {op}
      /\ intents'[op] = row /\ intents' \in Seq(IntentRows)
      /\ Grows /\ Ledger' /\ tabs'[t] = c /\ InFlight = {}
  BY <1>2, <1>8, AskedNew
<1>10. Members(journal') = Members(journal) \cup {r} /\ (\A q \in Members(journal) : q.op # op)
  <2>1. \A q \in Members(journal) : q.op # op
    BY <1>0, <1>9 DEF JournalTrue, RecordsTrue, RecordTrue
  <2> QED
    BY <1>7, <1>8, <2>1 DEF Written
<1>11. RecordTrue(r)'
  <2>1. r.op \in Ops' /\ r.hash = NoHash /\ NoHash \notin DOMAIN txs'
    BY <1>5, <1>9 DEF Grows
  <2>2. ~Resolved(r)'
    BY <1>5 DEF Resolved
  <2> QED
    BY <1>5, <2>1, <2>2 DEF RecordTrue
<1>12. Claimed' = {op}
  <2>1. \A q \in Members(journal') : Claims(q) => q.op = op
    BY <1>5, <1>10 DEF Settled, Claims
  <2> QED
    BY <1>9, <2>1 DEF Claimed, Claims, Resolved
<1>13. JournalTrue'
  <2>1. RecordsTrue'
    <3> SUFFICES ASSUME NEW q \in Members(journal')
                 PROVE  RecordTrue(q)' /\ (InT03' => q.hash \notin WrongHashes)
      BY DEF RecordsTrue, Members
    <3>1. CASE q = r
      <4>1. NoHash \notin WrongHashes
        BY <1>0, HashKinds
      <4> QED
        BY <1>5, <1>11, <3>1, <4>1
    <3>2. CASE q \in Members(journal)
      <4>1. RecordTrue(q) /\ (InT03 => q.hash \notin WrongHashes)
        BY <1>0, <3>2 DEF JournalTrue, RecordsTrue
      <4> QED
        BY <1>0, <1>9, <4>1, RecordTrueStays DEF Grows, InT03
    <3> QED
      BY <1>10, <3>1, <3>2
  <2>2. OneClaim'
    BY <1>12 DEF OneClaim
  <2>3. ExposedKnown'
    BY <1>5, <1>9, <1>10 DEF ExposedKnown, Resolved
  <2>4. chain' = chain /\ Did(Now)' = Did(Now) /\ (\A action : HashOf(action, Now)' = HashOf(action, Now))
    BY <1>0, <1>9, ChainStays DEF ledger
  <2>5. Action(op)' = row.action /\ intents'[op].hold = row.hold
    BY <1>9 DEF Action
  <2>6. ExposedNew'
    BY <1>9, <2>4, <2>5 DEF ExposedNew
  <2>7. OneRecord'
    BY <1>0, <1>7, <1>8, <1>9 DEF JournalTrue, OneRecord, Grows, InT04, Single
  <2>8. ExportsTrue'
    BY <1>0, <1>9, ExportsStay DEF JournalTrue
  <2>9. HoldsTrue'
    <3> SUFFICES ASSUME InT04
                 PROVE  /\ \A h \in DOMAIN txs : Call(txs[h].op)' # Call(op)'
                        /\ \A h \in DOMAIN txs : txs[h].status = "failed" =>
                              time >= intents'[txs[h].op].expiry
                        /\ HoldReady(op)'
      BY <1>9, <1>12 DEF HoldsTrue, Grows, InT04, ledger
    <3>1. ASSUME NEW h \in DOMAIN txs, txs[h].status = "failed"
          PROVE  time >= intents'[txs[h].op].expiry /\ intents'[txs[h].op].expiry # row.expiry
      <4>1. time >= intents[txs[h].op].expiry /\ txs[h].op \in Ops
        BY <1>0, <3>1 DEF JournalTrue, HoldsTrue, Ledger
      <4>2. intents'[txs[h].op] = intents[txs[h].op]
        BY <1>9, <4>1, CallStays
      <4>3. intents[txs[h].op].expiry \in Nat /\ time \in Nat /\ row.expiry \in Nat
        BY <1>0, <4>1, IntentTyped DEF Shapes, IntentRows
      <4> QED
        BY <4>1, <4>2, <4>3
    <3>2. ASSUME NEW h \in DOMAIN txs PROVE Call(txs[h].op)' # Call(op)'
      <4>1. Call(op)' = <<row.action, row.hold, row.expiry>>
        BY <1>9 DEF Call
      <4>2. txs' = txs
        BY DEF ledger
      <4>3. txs[h].status \in {"ok", "failed"}
        BY <1>0, <1>9, TxTyped DEF InFlight
      <4>4. CASE txs[h].status = "failed"
        BY <3>1, <4>1, <4>2, <4>4 DEF Call
      <4>5. CASE txs[h].status = "ok"
        <5>1. PICK i \in DOMAIN chain : chain[i] = h
          BY <1>0, <4>5 DEF Ledger
        <5>2. Action(txs[h].op) \in Did(Now)
          <6>1. i \in 1..Now /\ TxAction(chain[i]) = Action(txs[h].op)
            BY <1>0, <5>1 DEF Now, TxAction, Shapes
          <6> QED
            BY <6>1 DEF Did
        <5>3. intents'[txs[h].op].action # row.action
          BY <1>0, <1>9, <5>2, CallStays DEF Ledger, Action
        <5> QED
          BY <4>1, <4>2, <5>3 DEF Call
      <4> QED
        BY <4>3, <4>4, <4>5
    <3>3. HoldReady(op)'
      BY <2>4, <2>5 DEF HoldReady
    <3> QED
      BY <3>1, <3>2, <3>3
  <2> QED
    BY <2>1, <2>2, <2>3, <2>6, <2>7, <2>8, <2>9 DEF JournalTrue
<1>14. HandlerTrue(t)'
  <2>1. Awaits(op)'
    <3> SUFFICES ASSUME NEW q \in Members(journal')
                 PROVE  IF q.op = op THEN Claims(q) ELSE Resolved(q)
      BY DEF Awaits, Claims, Resolved, Members
    <3> QED
      BY <1>5, <1>10 DEF Settled
  <2>2. \A o : o = tabs'[t].op => Awaits(o)'
    BY <1>8, <1>9, <2>1
  <2>3. AskTrue(t)'
    BY <1>8, <1>9, <2>2 DEF AskTrue, Awaits
  <2> QED
    BY <1>8, <1>9, <2>3, AskedTrue
<1>15. Shapes'
  <2>1. c \in Handlers
    BY <1>8 DEF Handlers
  <2>2. tabs' \in [Tabs -> Handlers] /\ orphans' \subseteq Ops'
    BY <1>0, <1>8, <1>9, <2>1 DEF Shapes, Goto
  <2> QED
    BY <1>0, <1>7, <1>8, <1>9, <2>2 DEF Shapes, fixed, ledger
<1>16. LockMove(t, c)
  BY <1>0, <1>1, <1>8, KeepMoves DEF Exclusive
<1>17. HashesStay
  BY <1>10 DEF HashesStay
<1>18. ReviewTrue(t)'
  BY <1>9, ReviewStays DEF JournalInv, PagesTrue
<1> QED
  BY <1>1, <1>8, <1>9, <1>13, <1>14, <1>15, <1>16, <1>17, <1>18, PageStep DEF Goto

-----------------------------------------------------------------------------
LEMMA NoneNamed == "none" \notin AllActions
<1>1. LifecycleActions[1] = "issuer-role" /\ LifecycleActions[2] = "ssi-role" /\ LifecycleActions[3] = "kyc-role"
      /\ LifecycleActions[4] = "register-issuer" /\ LifecycleActions[5] = "seller-kyc"
      /\ LifecycleActions[6] = "issue" /\ DOMAIN LifecycleActions = 1..6
  BY DEF LifecycleActions, RoleActions
<1>2. \A i \in DOMAIN LifecycleActions : LifecycleActions[i] # "none"
  BY <1>1
<1>3. \A i \in DOMAIN HoldActions : HoldActions[i] # "none"
  BY DEF HoldActions
<1>4. "none" \notin TradeNames
  BY DEF TradeNames, TradeEnds, TradeSimulations
<1> QED
  BY <1>2, <1>3, <1>4 DEF AllActions, CreateNova

LEMMA LifecycleAsksKeeps ==
    ASSUME JournalInv, TabsAssumption, JournalAssumption, NEW t \in Tabs, LifecycleAsks(t)
    PROVE  JournalInv'
<1>1. InT03 /\ tabs[t].step = "probed" /\ ~InT04
  BY DEF LifecycleAsks, InT03, InT04
<1>2. /\ reviews[t] \in ReviewRows /\ reviews[t].action \in AllActions /\ reviews[t].state \in Nat
      /\ tabs[t].records = journal
  BY <1>1, ReviewRead
<1>3. PICK action : action = reviews[t].action
  OBVIOUS
<1>4. action \in AllActions /\ action # "none"
  BY <1>2, <1>3, NoneNamed
<1>5. Settled(journal) /\ action \notin Did(Now)
  <2>1. action = LifecycleNext(Now, journal)
    BY <1>2, <1>3 DEF LifecycleAsks, LifecycleIsCurrent
  <2> QED
    BY <1>4, <2>1, LifecycleNextNew
<1> DEFINE row == LifecycleIntent(reviews[t])
<1>6. row \in IntentRows /\ row.action = action
  BY <1>2, <1>3, <1>4 DEF LifecycleIntent, Intent, IntentRows, Hashes, NoHash
<1>7. intents' = Append(intents, row) /\ Len(intents') = Len(intents) + 1
  <2>1. intents \in Seq(IntentRows) /\ intents' = Append(intents, row)
    BY DEF LifecycleAsks, JournalInv, Shapes
  <2> HIDE DEF row
  <2>2. Len(intents') = Len(intents) + 1
    BY ONLY <1>6, <2>1, AppendElements
  <2> QED
    BY <2>1, <2>2
<1> HIDE DEF row
<1> QED
  BY <1>1, <1>5, <1>6, <1>7, AsksKeeps DEF LifecycleAsks, Asks

LEMMA HoldAsksKeeps ==
    ASSUME JournalInv, TabsAssumption, JournalAssumption, NEW t \in Tabs, HoldAsks(t)
    PROVE  JournalInv'
<1>1. InT04 /\ tabs[t].step = "probed"
  BY DEF HoldAsks
<1>2. /\ reviews[t] \in ReviewRows /\ reviews[t].action \in AllActions /\ reviews[t].expiry \in Nat
      /\ Intent(reviews[t].action, reviews[t].hold, reviews[t].expiry, reviews[t].state, TRUE) \in IntentRows
      /\ RunTrue(t)
  BY <1>1, ReviewRead
<1>3. PICK action : action = reviews[t].action
  OBVIOUS
<1>4. action \in AllActions /\ action # "none" /\ action \notin HoldSimulations
  BY <1>1, <1>2, <1>3, NoneNamed DEF RunTrue
<1>5. action = HoldNext(Now, time, journal) /\ journal = reviews[t].journal /\ time < reviews[t].expiry
  BY <1>3 DEF HoldAsks, HoldIsCurrent
<1>6. /\ Settled(journal) /\ action \notin Did(Now)
      /\ HashOf("create-hold", Now) = HoldHash(journal)
      /\ action \in {"execute", "release"} => "buyer-kyc" \in Did(Now)
      /\ action = "release" => "execute" \in Did(Now)
      /\ action \in {"create-hold", "buyer-kyc", "execute", "release"}
  BY <1>4, <1>5, HoldNextNew
<1>7. action # "create-hold" => reviews[t].hold \in HashOf("create-hold", Now)
  <2>1. ReviewTrue(t) /\ reviews[t] # NoReview
    BY <1>2 DEF JournalInv, PagesTrue, RunTrue
  <2> QED
    BY <1>1, <1>3, <1>5, <1>6, <2>1 DEF ReviewTrue
<1> DEFINE row == HoldIntent(reviews[t])
<1>8. row \in IntentRows /\ row.action = action /\ row.hold = reviews[t].hold /\ row.expiry = reviews[t].expiry
  BY <1>2, <1>3 DEF HoldIntent, Intent
<1>9. intents' = Append(intents, row) /\ Len(intents') = Len(intents) + 1
  <2>1. intents \in Seq(IntentRows) /\ intents' = Append(intents, row)
    BY DEF HoldAsks, JournalInv, Shapes
  <2> HIDE DEF row
  <2>2. Len(intents') = Len(intents) + 1
    BY ONLY <1>8, <2>1, AppendElements
  <2> QED
    BY <2>1, <2>2
<1> HIDE DEF row
<1>10. /\ row.action \in {"create-hold", "buyer-kyc", "execute", "release"}
       /\ row.action \in {"execute", "release"} =>
             row.hold \in HashOf("create-hold", Now) /\ "buyer-kyc" \in Did(Now)
       /\ row.action = "release" => "execute" \in Did(Now)
       /\ time < row.expiry /\ row.action \notin Did(Now)
  BY <1>5, <1>6, <1>7, <1>8
<1> QED
  BY <1>1, <1>6, <1>8, <1>9, <1>10, AsksKeeps DEF HoldAsks, Asks

(* What T05 offers for the wallet has not been done either.                *)
LEMMA TradeOfferedNew ==
    ASSUME NEW state, NEW now, NEW records, NEW action \in TradeOffered(state, now, records),
           action \notin TradeSimulations
    PROVE  Settled(records) /\ action \notin Did(state)
<1> DEFINE done == {Action(r.op) : r \in {q \in Members(records) : q.status = "complete"}}
           did == Did(state)
           over == \/ ~Settled(records)
                   \/ \E name \in done : Cardinality(Completed(records, name)) > 1
                   \/ done # {} /\ "deploy" \notin done
                   \/ "lock" \notin done /\ ~(done \subseteq {"deploy"})
                   \/ "settle" \in done /\ done \cap {"cancel", "reclaim"} # {}
                   \/ Unrecorded(state, records)
                   \/ done \cap TradeEnds # did \cap TradeEnds
           ended == done \cap TradeEnds # {}
           last == IF "settle" \in done /\ "duplicate-negative" \notin done
                   THEN "duplicate-negative" ELSE "complete"
           late == now >= TradeExpiry(records, now)
           next == TradeNext(state, now, records)
<1>1. next = IF over THEN "none"
             ELSE IF ended THEN last
             ELSE IF late THEN (IF "lock" \in done THEN "reclaim" ELSE "none")
             ELSE IF "deploy" \notin done THEN "deploy"
             ELSE IF "lock" \notin done THEN "lock"
             ELSE IF "purchase-negative" \notin done THEN "purchase-negative" ELSE "settle"
  BY DEF TradeNext
<1>2. /\ next \in {"reclaim", "deploy", "lock", "settle", "purchase-negative"} \/ next \in {"none", last}
      /\ \/ action = next /\ action \notin {"none", "complete"}
         \/ action = "cancel" /\ next \in {"purchase-negative", "settle"}
  <2>1. next \in {"reclaim", "deploy", "lock", "settle", "purchase-negative"} \/ next \in {"none", last}
    <3> HIDE DEF over, ended, late, last, next, done
    <3> QED
      BY <1>1
  <2>2. \/ action = next /\ action \notin {"none", "complete"}
        \/ action = "cancel" /\ next \in {"purchase-negative", "settle"}
    <3> HIDE DEF over, ended, late, last, done
    <3>1. action \in ({next} \ {"none", "complete"}) \cup IF next \in Cancellable THEN {"cancel"} ELSE {}
      BY DEF TradeOffered
    <3> HIDE DEF next
    <3> QED
      BY <3>1 DEF Cancellable
  <2> QED
    BY <2>1, <2>2
<1>3. last \in {"duplicate-negative", "complete"}
  OBVIOUS
<1>4. ~over /\ ~ended
  <2>1. action \notin {"duplicate-negative", "purchase-negative"}
    BY DEF TradeSimulations
  <2>2. next # "none" /\ next # last
    BY <1>2, <1>3, <2>1
  <2> HIDE DEF over, ended, late, last, next, done
  <2> QED
    BY <1>1, <2>2
<1>5. Settled(records) /\ ~Unrecorded(state, records) /\ did \cap TradeEnds = {}
  BY <1>4
<1>6. \A name \in {"deploy", "lock"} : name \notin done => name \notin Did(state)
  <2> SUFFICES ASSUME NEW name \in {"deploy", "lock"}, name \notin done, name \in Did(state) PROVE FALSE
    OBVIOUS
  <2>1. Completed(records, name) = {}
    BY DEF Completed
  <2>2. TradeHash(records, name) = {}
    BY <2>1 DEF TradeHash
  <2>3. HashOf(name, state) = {}
    BY <1>5, <2>2 DEF Unrecorded
  <2> QED
    BY <2>3 DEF HashOf, Did
<1>7. action \in TradeEnds \/ (action \in {"deploy", "lock"} /\ action \notin done)
  <2>1. action \notin {"duplicate-negative", "purchase-negative"}
    BY DEF TradeSimulations
  <2>2. next = "deploy" => "deploy" \notin done
    <3> HIDE DEF over, ended, late, last, next, done
    <3> QED
      BY <1>1, <1>4
  <2>3. next = "lock" => "lock" \notin done
    <3> HIDE DEF over, ended, late, last, next, done
    <3> QED
      BY <1>1, <1>4
  <2> QED
    BY <1>2, <1>3, <2>1, <2>2, <2>3 DEF TradeEnds
<1> QED
  BY <1>5, <1>6, <1>7

LEMMA TradeIntendsKeeps ==
    ASSUME JournalInv, TabsAssumption, JournalAssumption, NEW t \in Tabs, TradeIntends(t)
    PROVE  JournalInv'
<1>1. InT05 /\ tabs[t].step = "running" /\ ~InT04
  BY DEF TradeIntends, InT04, InT05
<1>2. Intent(reviews[t].action, reviews[t].hold, reviews[t].expiry, reviews[t].state, TRUE) \in IntentRows
  BY <1>1, ReviewRead
<1>3. PICK action : action = reviews[t].action
  OBVIOUS
<1>4. Settled(journal) /\ action \notin Did(Now)
  <2>1. action \in TradeOffered(Now, time, journal) /\ action \notin TradeSimulations
    BY <1>3 DEF TradeIntends, TradeIsCurrent
  <2> QED
    BY <2>1, TradeOfferedNew
<1> DEFINE row == TradeIntent(reviews[t])
<1>5. row \in IntentRows /\ row.action = action
  BY <1>2, <1>3 DEF TradeIntent, Intent
<1>6. intents' = Append(intents, row)
  BY DEF TradeIntends
<1> HIDE DEF row
<1> QED
  BY <1>1, <1>4, <1>5, <1>6, AsksKeeps DEF TradeIntends

(* The intent was saved before: it is saved again, and asked for.          *)
LEMMA TradeAsksKeeps ==
    ASSUME JournalInv, TabsAssumption, JournalAssumption, NEW t \in Tabs, TradeAsks(t)
    PROVE  JournalInv'
<1>0. Shapes /\ Ledger /\ JournalTrue /\ Locks /\ ~InT02
  BY DEF JournalInv
<1>1. tabs[t].step = "intended" /\ tabs[t] \in AskRows /\ InT05 /\ ~InT04 /\ ~InT03
  BY <1>0, HandlerRows DEF TradeAsks, Shapes, InT03, InT04, InT05
<1>2. tabs[t].records = journal /\ lock = t /\ \A u \in Tabs : u # t => Unread(u)
  BY <1>1, RecordsRead DEF Exclusive
<1>3. PICK op : op = tabs[t].op
  OBVIOUS
<1>4. PICK r : r = Record(op, "awaiting-signature", NoHash)
  OBVIOUS
<1>5. op \in Unsent /\ op \in Exposed /\ op \in Ops /\ op \in Nat
  <2>1. op \in Unsent
    BY <1>1, <1>3 DEF Unsent, Asking
  <2> QED
    BY <1>0, <2>1, ExposedOps, IntentTyped DEF Exposed
<1>6. /\ r \in RecordRows /\ r.op = op /\ r.hash = NoHash /\ ~Resolved(r) /\ Claims(r)
      /\ r.status # "mismatch"
  BY <1>4, <1>5 DEF Record, RecordRows, Hashes, NoHash, Statuses, Resolved, Claims
<1>7. PICK records : records = Put(journal, r)
  OBVIOUS
<1>8. records \in Seq(RecordRows) /\ Written(journal, records, {op}, r) /\ (Single(journal) => Single(records))
  BY <1>0, <1>6, <1>7, PutWrites DEF Shapes
<1> DEFINE c == [step |-> "asked", op |-> op, records |-> records]
<1>9. /\ journal' = records /\ Goto(t, c) /\ c \in AskRows /\ c.step = "asked" /\ c.op = op /\ c.records = records
      /\ UNCHANGED <<fixed, intents, lock, reviews, orphans, ledger>>
  <2>1. [[step |-> "asked", op |-> op, records |-> <<>>] EXCEPT !.records = records] = c
    OBVIOUS
  <2> QED
    BY <1>2, <1>3, <1>4, <1>5, <1>7, <1>8, <2>1 DEF TradeAsks, Asks, Publish, AskRows
<1> HIDE DEF c
<1>10. tabs'[t] = c /\ tabs' = [tabs EXCEPT ![t] = c] /\ \A u \in Tabs : u # t => tabs'[u] = tabs[u]
  BY <1>0, <1>9 DEF Shapes, Goto
<1>11. Unsent' = Unsent
  <2>1. tabs[t].step \in Asking /\ c.step \in Asking
    BY <1>1, <1>9 DEF Asking
  <2> QED
    BY <1>0, <1>3, <1>9, <1>10, <2>1, UnsentStep
<1>12. Grows
  BY <1>0, <1>9, <1>11, GrowsHere DEF ledger
<1>13. Ledger'
  <2>1. \A u \in Tabs : tabs'[u].step \in Asking => tabs'[u].op \in Ops' \ orphans'
    BY <1>0, <1>1, <1>3, <1>9, <1>10 DEF Ledger, Ops, Asking
  <2> QED
    BY <1>0, <1>9, <1>12, <2>1, LedgerHere DEF ledger
<1>14. Addable(r)
  <2>1. NoHash \notin DOMAIN txs /\ NoHash \notin WrongHashes
    BY <1>0, HashKinds
  <2>2. RecordTrue(r)
    BY <1>5, <1>6, <2>1 DEF RecordTrue
  <2> QED
    BY <1>0, <1>5, <1>6, <1>12, <2>1, <2>2, RecordAddable DEF Claimed
<1>15. JournalTrue'
  <2>1. \A o \in {op} : o \in Exposed' => o = r.op /\ ~Resolved(r)
    BY <1>6
  <2>2. txs' = txs /\ chain' = chain /\ time' = time
    BY <1>9 DEF ledger
  <2> QED
    BY <1>0, <1>8, <1>9, <1>11, <1>12, <1>14, <2>1, <2>2, WriteKeeps
<1>16. HandlerTrue(t)'
  <2>1. AskTrue(t)
    BY <1>1 DEF JournalInv, PagesTrue, HandlerTrue
  <2>2. Awaits(op)
    <3>1. \A o : o = tabs[t].op => Awaits(o)
      BY <2>1 DEF AskTrue
    <3> QED
      BY <1>3, <3>1
  <2>3. Awaits(op)'
    <3> SUFFICES ASSUME NEW q \in Members(journal')
                 PROVE  IF q.op = op THEN Claims(q) ELSE Resolved(q)
      BY DEF Awaits, Claims, Resolved, Members
    <3>1. q = r \/ (q \in Members(journal) /\ q.op # op)
      BY <1>8, <1>9 DEF Written
    <3> QED
      BY <1>6, <2>2, <3>1 DEF Awaits
  <2>4. \A o : o = tabs'[t].op => Awaits(o)'
    BY <1>9, <1>10, <2>3
  <2>5. AskTrue(t)'
    BY <1>9, <1>10, <2>4 DEF AskTrue, Awaits
  <2> QED
    BY <1>9, <1>10, <2>5, AskedTrue
<1>17. Shapes'
  <2>1. c \in Handlers
    BY <1>9 DEF Handlers
  <2>2. tabs' \in [Tabs -> Handlers]
    BY <1>0, <1>10, <2>1 DEF Shapes
  <2> QED
    BY <1>0, <1>8, <1>9, <2>2 DEF Shapes, fixed, ledger, Ops
<1>18. LockMove(t, c)
  BY <1>0, <1>1, <1>9, KeepMoves DEF Exclusive
<1>19. HashesStay
  BY <1>1 DEF HashesStay
<1>20. ReviewTrue(t)'
  BY <1>9, <1>12, ReviewStays DEF JournalInv, PagesTrue
<1> QED
  BY <1>2, <1>9, <1>10, <1>12, <1>13, <1>15, <1>16, <1>17, <1>18, <1>19, <1>20, PageStep

-----------------------------------------------------------------------------
(***************************************************************************)
(* Every step.                                                             *)
(***************************************************************************)
LEMMA EndsPage ==
    ASSUME JournalInv, TabsAssumption, JournalAssumption, NEW t \in Tabs, Fails(t) \/ Close(t)
    PROVE  JournalInv'
<1>1. CASE Fails(t)
  <2>1. Prompted(t)
    BY <1>1 DEF Fails, Prompted, Asking
  <2> QED
    BY <1>1, <2>1, FailsKeeps DEF Fails
<1>2. CASE Close(t)
  <2>1. tabs[t].step \in Asking => tabs[t].step \in {"intended", "connected", "asked"}
    BY DEF Asking
  <2>2. Prompted(t)
    BY <1>2, <2>1 DEF Close, Prompted
  <2> QED
    BY <1>2, <2>2, FailsKeeps DEF Close
<1> QED
  BY <1>1, <1>2

LEMMA SubmitsKeeps ==
    ASSUME JournalInv, TabsAssumption, JournalAssumption, NEW t \in Tabs, Submits(t)
    PROVE  JournalInv'
<1>0. ~InT02
  BY DEF JournalInv
<1>1. CASE LifecycleRuns(t) \/ HoldRuns(t) \/ TradeRuns(t)
  BY <1>1, RunsKeeps DEF LifecycleRuns, HoldRuns, TradeRuns
<1>2. CASE LifecycleProbes(t)
  <2>1. ~InT04
    BY <1>2 DEF LifecycleProbes, InT03, InT04
  <2> QED
    BY <1>2, <2>1, ProbesKeeps DEF LifecycleProbes
<1>3. CASE HoldProbes(t)
  <2>1. tabs[t].records = journal
    BY <1>3, ReviewRead DEF HoldProbes
  <2>2. reviews[t].action \notin HoldSimulations
    BY <1>3 DEF HoldProbes, HoldTransactions
  <2> QED
    BY <1>3, <2>1, <2>2, ProbesKeeps DEF HoldProbes
<1>4. CASE HoldSimulating(t)
  BY <1>4, ProbesKeeps DEF HoldSimulating
<1>5. CASE TradeStops(t)
  BY <1>5, RefusedKeeps DEF TradeStops, Asking
<1> QED
  BY <1>0, <1>1, <1>2, <1>3, <1>4, <1>5, LifecycleAsksKeeps, HoldAsksKeeps, HoldSimulatedKeeps,
     TradeIntendsKeeps, TradeAsksKeeps, TradeSimulatesKeeps
  DEF Submits, NovaStarts, NovaReviews, NovaIntends, NovaConnects, NovaAsks, NovaStops

LEMMA AnswersKeeps ==
    ASSUME JournalInv, TabsAssumption, JournalAssumption, NEW t \in Tabs, Answers(t)
    PROVE  JournalInv'
<1>0. ~InT02
  BY DEF JournalInv
<1>1. CASE Refused(t)
  BY <1>1, RefusedKeeps DEF Refused, Asking
<1>2. CASE PollConfirms(t)
  BY <1>2, PollEndsKeeps DEF PollConfirms
<1>3. CASE PollStops(t)
  BY <1>3, PollEndsKeeps DEF PollStops
<1> QED
  BY <1>0, <1>1, <1>2, <1>3, WalletSendsKeeps, UnknownKeeps, LifecycleHashKeeps, HoldHashKeeps, TradeHashKeeps
  DEF Answers, NovaHash, NovaPolled

LEMMA QueriesKeeps ==
    ASSUME JournalInv, TabsAssumption, JournalAssumption, NEW t \in Tabs, Queries(t)
    PROVE  JournalInv'
BY LifecycleQueryKeeps, HoldQueryKeeps, TradeQueryKeeps DEF Queries, NovaQuery, JournalInv

LEMMA RecoversKeeps ==
    ASSUME JournalInv, TabsAssumption, JournalAssumption, NEW t \in Tabs, Recovers(t)
    PROVE  JournalInv'
<1>0. ~InT02
  BY DEF JournalInv
<1>1. CASE TradeMisses(t) \/ MirrorLags(t)
  <2>1. tabs[t].step \in {"recovering", "confirmed"}
    BY <1>1 DEF TradeMisses, MirrorLags
  <2>2. tabs[t] \in RecoverRows
    BY <2>1, RecoverFacts
  <2> QED
    BY <1>1, <2>2, GoesOnKeeps DEF TradeMisses, MirrorLags
<1>2. CASE LifecycleVerifies(t) \/ HoldVerifies(t) \/ TradeVerifies(t)
  BY <1>2, VerifiesKeeps DEF LifecycleVerifies, HoldVerifies, TradeVerifies
<1>3. CASE LifecycleSettles(t) \/ HoldSettles(t) \/ TradeSettles(t)
  BY <1>3, SettlesKeeps DEF LifecycleSettles, HoldSettles, TradeSettles
<1>4. ~NovaMisses(t) /\ ~NovaRecovers(t)
  BY <1>0 DEF NovaMisses, NovaRecovers, NovaSaves
<1> QED
  BY <1>1, <1>2, <1>3, <1>4, LifecycleMissesKeeps, HoldMissesKeeps DEF Recovers

LEMMA ReviewsKeeps ==
    ASSUME JournalInv, TabsAssumption, JournalAssumption, NEW t \in Tabs, Reviews(t)
    PROVE  JournalInv'
<1>1. CASE LifecycleReview(t)
  BY <1>1, ReviewKeeps DEF LifecycleReview, InT03, InT05
<1>2. CASE HoldReview(t)
  BY <1>2, ReviewKeeps DEF HoldReview, InT04, InT05
<1>3. CASE TradeReview(t)
  BY <1>3, ReviewKeeps DEF TradeReview
<1> QED
  BY <1>1, <1>2, <1>3, LifecycleRechecksKeeps, HoldRechecksKeeps, TradeRechecksKeeps, ReadsKeeps,
     LifecycleOffersKeeps, HoldOffersKeeps, TradeOffersKeeps DEF Reviews

LEMMA RestoresKeeps ==
    ASSUME JournalInv, TabsAssumption, JournalAssumption, NEW t \in Tabs, Restores(t)
    PROVE  JournalInv'
BY RestoreWritesKeeps, RestoreReadsKeeps, TradeRestoresKeeps DEF Restores

LEMMA JournalNext ==
    ASSUME JournalInv, TabsAssumption, JournalAssumption, [Next]_vars
    PROVE  JournalInv'
<1>1. ASSUME NEW t \in Tabs, Page(t) PROVE JournalInv'
  BY <1>1, SubmitsKeeps, AnswersKeeps, QueriesKeeps, RecoversKeeps, ReviewsKeeps, RestoresKeeps, EndsPage
  DEF Page
<1>2. CASE Tick \/ UNCHANGED vars
  <2>1. time \in Nat
    BY DEF JournalInv, Shapes
  <2>2. /\ time' \in Nat /\ time <= time'
        /\ UNCHANGED <<fixed, intents, journal, pages, orphans, txs, chain>>
    BY <1>2, <2>1 DEF Tick, vars, fixed, pages
  <2> QED
    BY <2>2, WaitsKeeps
<1> QED
  BY <1>1, <1>2, OrphanSendsKeeps, MineKeeps DEF Next

-----------------------------------------------------------------------------
(***************************************************************************)
(* The starts.                                                             *)
(***************************************************************************)
LEMMA PathNames ==
    ASSUME NEW m \in {"t02", "t03", "t04", "t05"}
    PROVE  /\ Len(Path(m)) \in Nat
           /\ \A i \in 1..Len(Path(m)) : Path(m)[i] \in AllActions
           /\ \A i, j \in 1..Len(Path(m)) : Path(m)[i] = Path(m)[j] => i = j
           /\ m \in {"t02", "t03"} => \A i \in 1..Len(Path(m)) : Path(m)[i] \notin Simulations
           /\ m = "t04" => \A i \in 1..Len(Path(m)) : Path(m)[i] \in Simulations => Path(m)[i] \in HoldSimulations
           /\ m = "t05" => \A i \in 1..Len(Path(m)) : Path(m)[i] \in Simulations => Path(m)[i] \in TradeSimulations
           /\ m = "t02" => Len(Path(m)) = 1 /\ Path(m)[1] = CreateNova
<1>0. Simulations = {"kyc-negative", "permission-negative", "purchase-negative", "duplicate-negative"}
  BY DEF Simulations, HoldSimulations, TradeSimulations
<1>1. CASE m = "t02"
  <2>1. Len(Path(m)) = 1 /\ Path(m)[1] = CreateNova
    BY <1>1 DEF Path
  <2>2. CreateNova \in AllActions /\ CreateNova \notin Simulations
    BY <1>0 DEF AllActions, CreateNova
  <2> QED
    BY <1>1, <2>1, <2>2
<1>2. CASE m = "t03"
  <2>1. /\ LifecycleActions[1] = "issuer-role" /\ LifecycleActions[2] = "ssi-role"
        /\ LifecycleActions[3] = "kyc-role" /\ LifecycleActions[4] = "register-issuer"
        /\ LifecycleActions[5] = "seller-kyc" /\ LifecycleActions[6] = "issue"
        /\ Len(LifecycleActions) = 6 /\ DOMAIN LifecycleActions = 1..6
    BY DEF LifecycleActions, RoleActions
  <2>2. Path(m) = LifecycleActions
    BY <1>2 DEF Path
  <2>3. \A i \in 1..6 : LifecycleActions[i] \in AllActions
    BY <2>1 DEF AllActions
  <2>4. \A i \in 1..6 : LifecycleActions[i] \notin Simulations
    BY <1>0, <2>1
  <2>5. \A i, j \in 1..6 : LifecycleActions[i] = LifecycleActions[j] => i = j
    BY <2>1
  <2>6. Len(Path(m)) = 6
    BY <2>1, <2>2
  <2> QED
    BY <1>2, <2>2, <2>3, <2>4, <2>5, <2>6
<1>3. CASE m = "t04"
  <2>1. /\ HoldActions[1] = "create-hold" /\ HoldActions[2] = "kyc-negative" /\ HoldActions[3] = "buyer-kyc"
        /\ HoldActions[4] = "permission-negative" /\ HoldActions[5] = "execute" /\ HoldActions[6] = "release"
        /\ Len(HoldActions) = 6 /\ DOMAIN HoldActions = 1..6
    BY DEF HoldActions
  <2>2. Path(m) = HoldActions
    BY <1>3 DEF Path
  <2>3. \A i \in 1..6 : HoldActions[i] \in AllActions
    BY <2>1 DEF AllActions
  <2>4. \A i \in 1..6 : HoldActions[i] \in Simulations => HoldActions[i] \in HoldSimulations
    BY <1>0, <2>1 DEF HoldSimulations
  <2>5. \A i, j \in 1..6 : HoldActions[i] = HoldActions[j] => i = j
    BY <2>1
  <2>6. Len(Path(m)) = 6
    BY <2>1, <2>2
  <2> QED
    BY <1>3, <2>2, <2>3, <2>4, <2>5, <2>6
<1>4. CASE m = "t05"
  <2>1. PICK path : path = <<"deploy", "lock", "purchase-negative", "settle", "duplicate-negative">>
    OBVIOUS
  <2>2. /\ path[1] = "deploy" /\ path[2] = "lock" /\ path[3] = "purchase-negative"
        /\ path[4] = "settle" /\ path[5] = "duplicate-negative" /\ Len(path) = 5
    BY <2>1
  <2>3. Path(m) = path
    BY <1>4, <2>1 DEF Path
  <2>4. \A i \in 1..5 : path[i] \in AllActions
    <3>1. \A i \in 1..5 : path[i] \in TradeNames
      BY <2>2 DEF TradeNames, TradeEnds, TradeSimulations
    <3> QED
      BY <3>1 DEF AllActions
  <2>5. \A i \in 1..5 : path[i] \in Simulations => path[i] \in TradeSimulations
    BY <1>0, <2>2 DEF TradeSimulations
  <2>6. \A i, j \in 1..5 : path[i] = path[j] => i = j
    BY <2>2
  <2> QED
    BY <1>4, <2>2, <2>3, <2>4, <2>5, <2>6
<1> QED
  BY <1>1, <1>2, <1>3, <1>4

(* The transactions among the first steps, counted.                        *)
LEMMA SendsCounts ==
    ASSUME NEW m, NEW k \in Nat
    PROVE  /\ Sends(m, k) \in Nat
           /\ Sends(m, 0) = 0
           /\ \A j \in 0..k : Sends(m, j) <= Sends(m, k)
           /\ Path(m)[k + 1] \in Simulations => Sends(m, k + 1) = Sends(m, k)
           /\ Path(m)[k + 1] \notin Simulations => Sends(m, k + 1) = Sends(m, k) + 1
<1> DEFINE T(n) == {i \in 1..n : Path(m)[i] \notin Simulations}
<1>1. \A n \in Nat : IsFiniteSet(T(n))
  <2> SUFFICES ASSUME NEW n \in Nat PROVE IsFiniteSet(T(n))
    OBVIOUS
  <2>1. T(n) \in SUBSET (1..n)
    OBVIOUS
  <2>2. IsFiniteSet(1..n)
    BY ONLY n \in Nat, FS_Interval
  <2> HIDE DEF T
  <2> QED
    BY <2>1, <2>2, FS_Subset
<1>2. \A n : Sends(m, n) = Cardinality(T(n))
  BY DEF Sends
<1>3. T(0) = {}
  OBVIOUS
<1>4. \A j \in 0..k : T(j) \in SUBSET T(k)
  OBVIOUS
<1>5. Path(m)[k + 1] \in Simulations => T(k + 1) = T(k)
  OBVIOUS
<1>6. Path(m)[k + 1] \notin Simulations => T(k + 1) = T(k) \cup {k + 1} /\ k + 1 \notin T(k)
  OBVIOUS
<1> HIDE DEF T
<1>7. Sends(m, k) \in Nat
  BY <1>1, <1>2, FS_CardinalityType
<1>8. Sends(m, 0) = 0
  BY <1>2, <1>3, FS_EmptySet
<1>9. \A j \in 0..k : Sends(m, j) <= Sends(m, k)
  BY <1>1, <1>2, <1>4, FS_Subset
<1>10. Path(m)[k + 1] \notin Simulations => Sends(m, k + 1) = Sends(m, k) + 1
  BY <1>1, <1>2, <1>6, FS_AddElement
<1> QED
  BY <1>2, <1>5, <1>7, <1>8, <1>9, <1>10

(* Each of them has a hash of its own.                                     *)
LEMMA PastHashes ==
    ASSUME NEW m, NEW done \in Nat
    PROVE  /\ \A i \in 1..done : PastHash(m, i) \in 0..Sends(m, done)
           /\ \A i \in 1..done : PastHash(m, i) = NoHash <=> Path(m)[i] \in Simulations
           /\ \A i, j \in 1..done : PastHash(m, i) = PastHash(m, j) /\ PastHash(m, i) # NoHash => i = j
           /\ \A h \in 1..Sends(m, done) : \E i \in 1..done : PastHash(m, i) = h
<1>1. \A k \in Nat : Sends(m, k) \in Nat /\ Sends(m, 0) = 0
  BY SendsCounts
<1>2. \A k \in Nat : \A j \in 0..k : Sends(m, j) <= Sends(m, k)
  BY SendsCounts
<1>3. \A k \in Nat : /\ Path(m)[k + 1] \in Simulations => Sends(m, k + 1) = Sends(m, k)
                     /\ Path(m)[k + 1] \notin Simulations => Sends(m, k + 1) = Sends(m, k) + 1
  BY SendsCounts
<1>4. ASSUME NEW i \in 1..done, Path(m)[i] \notin Simulations
      PROVE  Sends(m, i) = Sends(m, i - 1) + 1 /\ Sends(m, i - 1) \in Nat /\ PastHash(m, i) = Sends(m, i)
  <2>1. i - 1 \in Nat /\ (i - 1) + 1 = i
    OBVIOUS
  <2>2. Sends(m, i) = Sends(m, i - 1) + 1
    BY <1>3, <1>4, <2>1
  <2> QED
    BY <1>1, <1>4, <2>1, <2>2 DEF PastHash
<1>5. \A i \in 1..done : Sends(m, i) <= Sends(m, done)
  BY <1>2
<1>6. \A i \in 1..done : PastHash(m, i) \in 0..Sends(m, done)
  <2> SUFFICES ASSUME NEW i \in 1..done PROVE PastHash(m, i) \in 0..Sends(m, done)
    OBVIOUS
  <2>1. Sends(m, i) \in Nat /\ Sends(m, done) \in Nat
    BY <1>1
  <2> QED
    BY <1>4, <1>5, <2>1 DEF PastHash, NoHash
<1>7. \A i \in 1..done : PastHash(m, i) = NoHash <=> Path(m)[i] \in Simulations
  BY <1>4 DEF PastHash, NoHash
<1>8. ASSUME NEW i \in 1..done, NEW j \in 1..done, i < j, Path(m)[j] \notin Simulations
      PROVE  Sends(m, i) < Sends(m, j)
  <2>1. j - 1 \in Nat /\ i \in 0..(j - 1)
    BY <1>8
  <2>2. Sends(m, i) <= Sends(m, j - 1) /\ Sends(m, i) \in Nat
    BY <1>1, <1>2, <2>1
  <2> QED
    BY <1>4, <1>8, <2>2
<1>9. ASSUME NEW i \in 1..done, NEW j \in 1..done, PastHash(m, i) = PastHash(m, j), PastHash(m, i) # NoHash
      PROVE  i = j
  <2>1. Path(m)[i] \notin Simulations /\ Path(m)[j] \notin Simulations
    BY <1>7, <1>9
  <2>2. Sends(m, i) = Sends(m, j) /\ Sends(m, i) \in Nat
    BY <1>1, <1>4, <1>9, <2>1
  <2>3. ~(i < j) /\ ~(j < i)
    BY <1>8, <2>1, <2>2
  <2> QED
    BY <2>3
<1>10. ASSUME NEW h \in 1..Sends(m, done) PROVE \E i \in 1..done : PastHash(m, i) = h
  <2> DEFINE T == {k \in 0..done : h <= Sends(m, k)}
  <2>1. T \in SUBSET Nat /\ done \in T
    BY <1>1
  <2> HIDE DEF T
  <2>2. PICK k \in T : \A n \in T : k <= n
    BY <2>1, LeastPosition
  <2> USE DEF T
  <2>3. k \in 1..done /\ k - 1 \in 0..done /\ k - 1 \notin T
    BY <1>1, <2>2
  <2>4. Sends(m, k - 1) < h /\ h <= Sends(m, k) /\ Sends(m, k - 1) \in Nat
    <3>1. k - 1 \in Nat
      BY <2>3
    <3> QED
      BY <1>1, <2>2, <2>3, <3>1
  <2>5. Path(m)[k] \notin Simulations
    <3>1. (k - 1) + 1 = k /\ k - 1 \in Nat
      BY <2>3
    <3> QED
      BY <1>3, <2>4, <3>1
  <2>6. Sends(m, k) = Sends(m, k - 1) + 1 /\ PastHash(m, k) = Sends(m, k)
    BY <1>4, <2>3, <2>5
  <2> QED
    BY <2>3, <2>4, <2>6
<1> QED
  BY <1>6, <1>7, <1>9, <1>10

-----------------------------------------------------------------------------
(* What a start has.                                                       *)
Begun(m, done) ==
    /\ Ops = 1..done /\ DOMAIN txs = 1..Sends(m, done) /\ DOMAIN chain = 1..Sends(m, done)
    /\ Sends(m, done) \in Nat
    /\ \A i \in 1..done : Action(i) = Path(m)[i]
    /\ \A h \in DOMAIN txs : /\ txs[h].op \in 1..done /\ PastHash(m, txs[h].op) = h
                             /\ txs[h].status = "ok" /\ chain[h] = h
    /\ \A e \in Members(journal) \cup exports :
          \E i \in 1..done : e = Record(i, "complete", PastHash(m, i))
    /\ Single(journal)

(* A start is typed.                                                       *)
LEMMA StartShapes ==
    ASSUME JournalAssumption, TabsAssumption,
           NEW m \in {"t02", "t03", "t04", "t05"}, NEW done \in Nat, done <= Len(Path(m)),
           NEW further \in Nat, NEW lost \in BOOLEAN, InitAt(m, done, further, lost)
    PROVE  Shapes /\ Begun(m, done)
<1>1. Len(Path(m)) \in Nat /\ \A i \in 1..done : Path(m)[i] \in AllActions
  BY PathNames
<1>2. /\ \A i \in 1..done : PastHash(m, i) \in 0..Sends(m, done)
      /\ \A h \in 1..Sends(m, done) : \E i \in 1..done : PastHash(m, i) = h
  BY PastHashes
<1>3. \A k \in Nat : Sends(m, k) \in Nat
  BY SendsCounts
<1>4. intents \in Seq(IntentRows) /\ Ops = 1..done /\ \A i \in 1..done : Action(i) = Path(m)[i]
  <2> DEFINE row(i) == IF m \in {"t02", "t03"} THEN Intent(Path(m)[i], NoHash, 0, -1, FALSE)
                       ELSE Intent(Path(m)[i], PastHold(m, i), Validity, Sends(m, i - 1), TRUE)
  <2>1. intents = [i \in 1..done |-> row(i)]
    BY DEF InitAt
  <2>2. ASSUME NEW i \in 1..done PROVE row(i) \in IntentRows /\ row(i).action = Path(m)[i]
    <3>1. PastHold(m, i) \in {NoHash, 1, 2}
      BY DEF PastHold
    <3>2. PastHold(m, i) \in Hashes /\ NoHash \in Hashes
      BY <3>1 DEF Hashes, NoHash
    <3>3. i - 1 \in Nat
      OBVIOUS
    <3>4. Sends(m, i - 1) \in Nat /\ Validity \in Nat
      BY <1>3, <3>3 DEF JournalAssumption
    <3> QED
      BY <1>1, <3>2, <3>4 DEF Intent, IntentRows
  <2> HIDE DEF row
  <2> QED
    BY <2>1, <2>2 DEF Ops, Action
<1> DEFINE op(h) == CHOOSE i \in 1..done : PastHash(m, i) = h
<1>5. txs = [h \in 1..Sends(m, done) |->
               [op |-> op(h), status |-> "ok", state |-> h - 1, time |-> 0]]
  BY DEF InitAt
<1>6. \A h \in 1..Sends(m, done) : op(h) \in 1..done /\ PastHash(m, op(h)) = h
  BY <1>2
<1> HIDE DEF op
<1>7. txs \in Seq(TxRows)
  <2>1. \A h \in 1..Sends(m, done) : [op |-> op(h), status |-> "ok", state |-> h - 1, time |-> 0] \in TxRows
    BY <1>3, <1>6 DEF TxRows
  <2>2. PICK n \in Nat : n = Sends(m, done)
    BY <1>3
  <2> DEFINE row(h) == [op |-> op(h), status |-> "ok", state |-> h - 1, time |-> 0]
  <2>3. txs = [h \in 1..n |-> row(h)] /\ \A h \in 1..n : row(h) \in TxRows
    BY <1>5, <2>1, <2>2
  <2> HIDE DEF row
  <2> QED
    BY <2>3
<1>8. chain = [h \in 1..Sends(m, done) |-> h]
  BY DEF InitAt
<1>9. chain \in Seq(Nat) /\ DOMAIN chain = 1..Sends(m, done) /\ \A h \in 1..Sends(m, done) : chain[h] = h
  BY <1>3, <1>8
<1> DEFINE all == [i \in 1..done |-> Record(i, "complete", PastHash(m, i))]
           keep == {i \in 1..done : HasEvidence(m, i)}
           records == Pick(all, keep)
<1>10. all \in Seq(RecordRows) /\ DOMAIN all = 1..done /\ keep \in SUBSET (DOMAIN all)
  <2>1. \A i \in 1..done : Record(i, "complete", PastHash(m, i)) \in RecordRows
    BY <1>2, <1>3 DEF Record, RecordRows, Statuses, Hashes
  <2> QED
    BY <2>1
<1>11. \A i \in 1..done : all[i] = Record(i, "complete", PastHash(m, i)) /\ all[i].op = i
  BY DEF Record
<1>12. journal = (IF lost THEN <<>> ELSE records) /\ exports = (IF lost THEN Members(records) ELSE {})
  BY DEF InitAt
<1> HIDE DEF all, keep
<1>13. /\ records \in Seq(RecordRows)
       /\ Members(records) = {all[i] : i \in keep}
       /\ \A x, y \in DOMAIN records : x # y =>
             \E i, j \in keep : i # j /\ records[x] = all[i] /\ records[y] = all[j]
  BY <1>10, PickKeeps
<1>14. Single(records)
  BY <1>10, <1>11, <1>13 DEF Single
<1> HIDE DEF records
<1>15. <<>> \in Seq(RecordRows) /\ Single(<<>>) /\ Members(<<>>) = {}
  BY EmptySeq DEF Single, Members
<1>16. journal \in Seq(RecordRows) /\ exports \subseteq RecordRows /\ Single(journal)
       /\ Members(journal) \cup exports \subseteq {all[i] : i \in keep}
  <2>1. \A e \in Members(records) : e \in RecordRows
    BY <1>13, MembersRows
  <2> QED
    BY <1>12, <1>13, <1>14, <1>15, <2>1
<1>17. Shapes
  <2>1. tabs \in [Tabs -> Handlers] /\ reviews \in [Tabs -> {NoReview} \cup ReviewRows]
    BY DEF InitAt, Handlers
  <2>2. milestone \in {"t02", "t03", "t04", "t05"} /\ maxOps \in Nat /\ time \in Nat
        /\ lock \in Tabs \cup {NoTab} /\ orphans \subseteq Ops
    BY DEF InitAt
  <2> QED
    BY <1>4, <1>7, <1>9, <1>16, <2>1, <2>2 DEF Shapes
<1>18. DOMAIN txs = 1..Sends(m, done) /\ \A h \in 1..Sends(m, done) : txs[h].op = op(h) /\ txs[h].status = "ok"
  BY <1>5
<1>19. \A e \in Members(journal) \cup exports :
          \E i \in 1..done : e = Record(i, "complete", PastHash(m, i))
  BY <1>10, <1>11, <1>16
<1>20. /\ Ops = 1..done /\ DOMAIN txs = 1..Sends(m, done) /\ DOMAIN chain = 1..Sends(m, done)
       /\ Sends(m, done) \in Nat /\ \A i \in 1..done : Action(i) = Path(m)[i]
  BY <1>3, <1>4, <1>9, <1>18
<1>21. ASSUME NEW h \in DOMAIN txs
       PROVE  txs[h].op \in 1..done /\ PastHash(m, txs[h].op) = h /\ txs[h].status = "ok" /\ chain[h] = h
  BY <1>6, <1>9, <1>18
<1> QED
  BY <1>16, <1>17, <1>19, <1>20, <1>21 DEF Begun

(* What was done before is as the records say, and no page does anything.  *)
LEMMA StartTrue ==
    ASSUME JournalAssumption, TabsAssumption,
           NEW m \in {"t02", "t03", "t04", "t05"}, NEW done \in Nat, done <= Len(Path(m)),
           NEW further \in Nat, NEW lost \in BOOLEAN, InitAt(m, done, further, lost)
    PROVE  /\ Shapes /\ Locks /\ Ledger /\ Exposed = {} /\ Unsent = {} /\ Single(journal)
           /\ \A t \in Tabs : tabs[t] = Idle /\ reviews[t] = NoReview
           /\ \A h \in DOMAIN txs : txs[h].status = "ok"
           /\ \A e \in Members(journal) \cup exports :
                 /\ e.status = "complete" /\ RecordTrue(e) /\ e.hash \notin WrongHashes
                 /\ e.hash # NoHash => e.hash \in DOMAIN txs /\ txs[e.hash].op = e.op
                 /\ e.hash = NoHash => Action(e.op) \in Simulations /\ e.op \in 1..Len(Path(m))
                                       /\ Action(e.op) = Path(m)[e.op]
<1>0. Shapes /\ Begun(m, done)
  BY StartShapes
<1>1. /\ Shapes
      /\ Ops = 1..done /\ DOMAIN txs = 1..Sends(m, done) /\ DOMAIN chain = 1..Sends(m, done)
      /\ Sends(m, done) \in Nat
      /\ \A i \in 1..done : Action(i) = Path(m)[i]
      /\ \A h \in DOMAIN txs : /\ txs[h].op \in 1..done /\ PastHash(m, txs[h].op) = h
                               /\ txs[h].status = "ok" /\ chain[h] = h
      /\ \A e \in Members(journal) \cup exports :
            \E i \in 1..done : e = Record(i, "complete", PastHash(m, i))
      /\ Single(journal)
  BY <1>0 DEF Begun
<1>2. /\ lock = NoTab /\ orphans = {} /\ milestone = m
      /\ \A t \in Tabs : tabs[t] = Idle /\ tabs[t].step = "idle" /\ reviews[t] = NoReview
  BY DEF InitAt, Idle
<1>3. Unsent = {}
  BY <1>2 DEF Unsent, Asking
<1>4. Exposed = {}
  BY <1>1, <1>3 DEF Exposed, Sending, InFlight
<1>5. Locks
  BY <1>2 DEF Locks, LockHeld, Exclusive
<1>6. /\ \A i \in 1..done : i \in 1..Len(Path(m))
      /\ \A i, j \in 1..done : Path(m)[i] = Path(m)[j] => i = j
  <2>1. /\ Len(Path(m)) \in Nat
        /\ \A i, j \in 1..Len(Path(m)) : Path(m)[i] = Path(m)[j] => i = j
    BY PathNames
  <2>2. PICK n : n = Len(Path(m))
    OBVIOUS
  <2>3. \A i \in 1..done : i \in 1..n
    BY <2>1, <2>2
  <2> QED
    BY <2>1, <2>2, <2>3
<1>7. /\ \A i \in 1..done : PastHash(m, i) \in 0..Sends(m, done)
      /\ \A i \in 1..done : PastHash(m, i) = NoHash <=> Path(m)[i] \in Simulations
      /\ \A i, j \in 1..done : PastHash(m, i) = PastHash(m, j) /\ PastHash(m, i) # NoHash => i = j
  BY PastHashes
<1>8. \A h, k \in DOMAIN txs : txs[h].op = txs[k].op => h = k
  BY <1>1
<1>9. Ledger
  <2>1. \A i, j \in DOMAIN chain : TxAction(chain[i]) = TxAction(chain[j]) => i = j
    <3> SUFFICES ASSUME NEW i \in DOMAIN chain, NEW j \in DOMAIN chain,
                        TxAction(chain[i]) = TxAction(chain[j])
                 PROVE  i = j
      OBVIOUS
    <3>1. chain[i] = i /\ chain[j] = j /\ i \in DOMAIN txs /\ j \in DOMAIN txs
      BY <1>1
    <3>2. Path(m)[txs[i].op] = Path(m)[txs[j].op]
      BY <1>1, <3>1 DEF TxAction
    <3>3. txs[i].op = txs[j].op
      BY <1>1, <1>6, <3>1, <3>2
    <3> QED
      BY <1>8, <3>1, <3>3
  <2>2. \A h \in DOMAIN txs : txs[h].op \in Ops \ Unsent
    BY <1>1, <1>3
  <2>3. \A i \in DOMAIN chain : chain[i] \in DOMAIN txs /\ txs[chain[i]].status = "ok"
    BY <1>1
  <2>4. \A h \in DOMAIN txs : \E i \in DOMAIN chain : chain[i] = h
    BY <1>1
  <2> QED
    BY <1>2, <1>8, <2>1, <2>2, <2>3, <2>4 DEF Ledger, Asking
<1>10. ASSUME NEW e \in Members(journal) \cup exports
       PROVE  /\ e.status = "complete" /\ RecordTrue(e) /\ e.hash \notin WrongHashes
              /\ e.hash # NoHash => e.hash \in DOMAIN txs /\ txs[e.hash].op = e.op
              /\ e.hash = NoHash => Action(e.op) \in Simulations /\ e.op \in 1..Len(Path(m))
                                    /\ Action(e.op) = Path(m)[e.op]
  <2>1. PICK i \in 1..done : e = Record(i, "complete", PastHash(m, i))
    BY <1>1
  <2>2. e.op = i /\ e.status = "complete" /\ e.hash = PastHash(m, i)
    BY <2>1 DEF Record
  <2>3. e.hash \in 0..Sends(m, done) /\ e.hash \notin WrongHashes
    <3>1. e.hash \in 0..Sends(m, done)
      BY <1>7, <2>2
    <3> QED
      BY <1>1, <3>1 DEF JournalAssumption
  <2>4. e.hash # NoHash => e.hash \in DOMAIN txs
    BY <1>1, <2>3 DEF NoHash
  <2>5. NoHash \notin DOMAIN txs
    BY <1>1 DEF NoHash
  <2>6. e.hash # NoHash => txs[e.hash].op = i
    <3> SUFFICES ASSUME e.hash # NoHash PROVE txs[e.hash].op = i
      OBVIOUS
    <3>1. txs[e.hash].op \in 1..done /\ PastHash(m, txs[e.hash].op) = e.hash
      BY <1>1, <2>4
    <3> QED
      BY <1>7, <2>2, <3>1
  <2>7. Own(i, e.hash)
    BY <1>1, <1>3, <2>2 DEF Own
  <2>8. e.hash # NoHash => Mined(e.hash) /\ Outcome(e.hash) = "complete"
    BY <1>1, <2>4 DEF Mined, Outcome
  <2>9. RecordTrue(e)
    BY <1>1, <2>2, <2>4, <2>5, <2>6, <2>7, <2>8 DEF RecordTrue
  <2>10. e.hash = NoHash => Action(e.op) \in Simulations /\ e.op \in 1..Len(Path(m)) /\ Action(e.op) = Path(m)[e.op]
    <3>1. Action(i) = Path(m)[i] /\ i \in 1..Len(Path(m))
      BY <1>1, <1>6
    <3>2. e.hash = NoHash => Path(m)[i] \in Simulations
      BY <1>7, <2>2
    <3> QED
      BY <2>2, <3>1, <3>2
  <2> QED
    BY <2>2, <2>3, <2>4, <2>6, <2>9, <2>10
<1> QED
  BY <1>1, <1>2, <1>3, <1>4, <1>5, <1>9, <1>10

LEMMA InitJournal ==
    ASSUME JournalAssumption, TabsAssumption, StartsAssumption, CarefulStarts, Init, ~InT02
    PROVE  JournalInv
<1>1. PICK start \in Starts : InitAt(start[1], start[2], start[3], start[4])
  BY DEF Init
<1>2. PICK m, done, further, lost : m = start[1] /\ done = start[2] /\ further = start[3] /\ lost = start[4]
  OBVIOUS
<1>3. /\ m \in {"t02", "t03", "t04", "t05"} /\ done \in Nat /\ done <= Len(Path(m))
      /\ further \in Nat /\ lost \in BOOLEAN
  BY <1>2 DEF StartsAssumption
<1>4. InitAt(m, done, further, lost)
  BY <1>1, <1>2
<1>5. milestone = m
  BY <1>4 DEF InitAt
<1>6. /\ Shapes /\ Locks /\ Ledger /\ Exposed = {} /\ Unsent = {} /\ Single(journal)
      /\ \A t \in Tabs : tabs[t] = Idle /\ reviews[t] = NoReview
      /\ \A h \in DOMAIN txs : txs[h].status = "ok"
      /\ \A e \in Members(journal) \cup exports :
            /\ e.status = "complete" /\ RecordTrue(e) /\ e.hash \notin WrongHashes
            /\ e.hash # NoHash => e.hash \in DOMAIN txs /\ txs[e.hash].op = e.op
            /\ e.hash = NoHash => Action(e.op) \in Simulations /\ e.op \in 1..Len(Path(m))
                                  /\ Action(e.op) = Path(m)[e.op]
  BY <1>3, <1>4, StartTrue
<1>7. Claimed = {}
  BY <1>6 DEF Claimed, Claims, Resolved
<1>8. JournalTrue
  <2>1. RecordsTrue
    BY <1>6 DEF RecordsTrue
  <2>2. OneClaim /\ ExposedKnown /\ ExposedNew /\ OneRecord
    BY <1>6, <1>7 DEF OneClaim, ExposedKnown, ExposedNew, OneRecord
  <2>3. HoldsTrue
    BY <1>6, <1>7 DEF HoldsTrue
  <2>4. ExportsTrue
    <3>1. \A i \in 1..Len(Path(m)) : Path(m)[i] \in Simulations =>
             \/ InT04 /\ Path(m)[i] \in HoldSimulations
             \/ InT05 /\ Path(m)[i] \in TradeSimulations
      BY <1>3, <1>5, PathNames DEF InT02, InT04, InT05
    <3> QED
      BY <1>6, <3>1 DEF ExportsTrue
  <2> QED
    BY <2>1, <2>2, <2>3, <2>4 DEF JournalTrue
<1>9. PagesTrue
  <2> SUFFICES ASSUME NEW t \in Tabs PROVE HandlerTrue(t) /\ ReviewTrue(t)
    BY DEF PagesTrue
  <2>1. tabs[t] = Idle /\ reviews[t] = NoReview
    BY <1>6
  <2>2. /\ Idle \notin RunRows /\ Idle \notin AskRows /\ Idle \notin SentRows /\ Idle \notin RecheckRows
        /\ Idle \notin RecoverRows /\ Idle \notin RestoreRows
    BY DEF Idle, RunRows, AskRows, SentRows, RecheckRows, RecoverRows, RestoreRows
  <2> QED
    BY <2>1, <2>2 DEF HandlerTrue, ReviewTrue
<1>10. Careful
  BY <1>2, <1>5 DEF CarefulStarts, Careful, InT04
<1> QED
  BY <1>6, <1>8, <1>9, <1>10 DEF JournalInv

-----------------------------------------------------------------------------
(***************************************************************************)
(* T02, whose journal is one record and whose recovery is without the      *)
(* lock: all that is ever asked for and not refused is one operation.      *)
(***************************************************************************)
Touched == Unsent \cup {txs[h].op : h \in DOMAIN txs}

NovaTrue(r) ==
    /\ r.op \in Ops /\ r.hash \in {NoHash} \cup DOMAIN txs
    /\ Resolved(r) \/ r.status = "mismatch" =>
         /\ Own(r.op, r.hash)
         /\ r.hash # NoHash => Mined(r.hash) /\ (Outcome(r.hash) = "complete") = (r.status = "complete")

NovaSteps == {"idle", "running", "probed", "intended", "connected", "asked", "sent", "polling", "recovering"}
NovaPage(t) ==
    LET c == tabs[t]
    IN  /\ c.step \in NovaSteps
        /\ c.step \in {"running", "probed"} => c.records = <<>>
        /\ c.step \in {"running", "probed"} \cup Asking => orphans = {} /\ txs = <<>>
        /\ c.step \in Asking \cup {"sent", "polling"} =>
              Single(c.records) /\ \A r \in Members(c.records) : r.op = c.op
        /\ c.step \in {"sent", "polling"} => c.hash \in DOMAIN txs /\ txs[c.hash].op = c.op
        /\ c.step = "recovering" =>
              /\ c.hash \in DOMAIN txs
              /\ \A o, p \in c.found : o = p
              /\ \A op \in c.found : op \in Ops /\ Own(op, c.hash)

NovaJournal ==
    /\ \A op \in Ops : Call(op) = <<CreateNova, NoHash, 0>> /\ intents[op].state = -1
    /\ \A x, y \in Touched : x = y
    /\ Touched # {} => ~CanCreateNova(journal)
    /\ Single(journal) /\ exports = {}
    /\ \A r \in Members(journal) : NovaTrue(r)
CreationInv ==
    InT02 /\ Shapes /\ Locks /\ Ledger /\ NovaJournal /\ \A t \in Tabs : NovaPage(t)

(* T02 is at most one transaction.                                         *)
LEMMA NovaSendsOnce ==
    ASSUME CreationInv
    PROVE  /\ \A h, k \in DOMAIN txs : h = k
           /\ Exposed \subseteq Touched /\ Unsent \subseteq Touched
           /\ \A x, y \in Exposed : x = y
           /\ \A h \in DOMAIN txs : txs[h].op \in Touched
<1>1. \A h \in DOMAIN txs : txs[h].op \in Touched
  BY DEF Touched
<1>2. Exposed \subseteq Touched /\ Unsent \subseteq Touched
  BY DEF Touched, Exposed, Sending, InFlight
<1> QED
  BY <1>1, <1>2 DEF CreationInv, NovaJournal, Ledger

LEMMA NovaTrueStays ==
    ASSUME Grows, Ledger, NEW r, NovaTrue(r)
    PROVE  NovaTrue(r)'
<1>1. r.op \in Ops' /\ r.hash \in {NoHash} \cup DOMAIN txs'
  BY DEF NovaTrue, Grows
<1>2. CASE Resolved(r) \/ r.status = "mismatch"
  <2>1. PICK op, hash : op = r.op /\ hash = r.hash
    OBVIOUS
  <2>2. op \in Ops /\ Own(op, hash)
    BY <1>2, <2>1 DEF NovaTrue
  <2>3. Own(op, hash)'
    BY <2>2, OwnStays
  <2>4. hash # NoHash => Mined(hash)' /\ Outcome(hash)' = Outcome(hash)
    BY <1>2, <2>1, MinedStays DEF NovaTrue
  <2>5. hash # NoHash => (Outcome(hash) = "complete") = (r.status = "complete")
    BY <1>2, <2>1 DEF NovaTrue
  <2>6. /\ Own(r.op, r.hash)'
        /\ r.hash # NoHash => Mined(r.hash)' /\ (Outcome(r.hash)' = "complete") = (r.status = "complete")
    <3> HIDE DEF Own, Mined, Outcome
    <3> QED
      BY <2>1, <2>3, <2>4, <2>5
  <2> QED
    BY <1>1, <2>6 DEF NovaTrue
<1>3. CASE ~(Resolved(r) \/ r.status = "mismatch")
  BY <1>1, <1>3 DEF NovaTrue, Resolved
<1> QED
  BY <1>2, <1>3

LEMMA NovaPageStays ==
    ASSUME Grows, Ledger, NEW t \in Tabs, tabs'[t] = tabs[t], NovaPage(t),
           tabs[t].step \in {"running", "probed"} \cup Asking => orphans' = orphans /\ txs' = txs
    PROVE  NovaPage(t)'
<1> PICK c : c = tabs[t]
  OBVIOUS
<1>1. tabs'[t] = c
  OBVIOUS
<1>2. c.step = "recovering" => \A op \in c.found : op \in Ops' /\ Own(op, c.hash)'
  <2> SUFFICES ASSUME c.step = "recovering", NEW op \in c.found PROVE op \in Ops' /\ Own(op, c.hash)'
    OBVIOUS
  <2>1. PICK hash : hash = c.hash
    OBVIOUS
  <2>2. op \in Ops /\ Own(op, hash)
    BY <2>1 DEF NovaPage
  <2>3. Own(op, hash)'
    BY <2>2, OwnStays
  <2> QED
    BY <2>1, <2>2, <2>3 DEF Grows, Own
<1>3. c.step \in {"sent", "polling"} => c.hash \in DOMAIN txs' /\ txs'[c.hash].op = c.op
  BY DEF NovaPage, Grows
<1>4. c.step = "recovering" => c.hash \in DOMAIN txs'
  BY DEF NovaPage, Grows
<1> QED
  BY <1>1, <1>2, <1>3, <1>4 DEF NovaPage

(* What every step of T02 does to the operations.                          *)
NovaIntent == intents' = intents \/ intents' = Append(intents, Intent(CreateNova, NoHash, 0, -1, FALSE))
                  \/ intents' = Append(intents, Intent(CreateNova, NoHash, 0, -1, TRUE))

LEMMA NovaIntentTyped ==
    ASSUME NEW digest \in BOOLEAN
    PROVE  Intent(CreateNova, NoHash, 0, -1, digest) \in IntentRows
<1>1. CreateNova \in AllActions
  BY DEF AllActions
<1>2. NoHash \in Hashes
  BY DEF Hashes, NoHash
<1> QED
  BY <1>1, <1>2 DEF Intent, IntentRows

LEMMA NovaGrows ==
    ASSUME Shapes, Ledger, NovaJournal, UNCHANGED <<fixed, ledger>>, NovaIntent,
           \A op \in Ops : op \in Unsent' => op \in Unsent,
           \A u \in Tabs : tabs'[u].step \in Asking => tabs'[u].op \in Ops' \ orphans'
    PROVE  /\ Grows /\ Ledger' /\ intents' \in Seq(IntentRows)
           /\ Len(intents) + 1 \notin Ops /\ Len(intents) + 1 \in Nat
           /\ intents' # intents => Ops' = Ops \cup {Len(intents) + 1}
           /\ \A op \in Ops' : Call(op)' = <<CreateNova, NoHash, 0>> /\ intents'[op].state = -1
<1>0. /\ intents \in Seq(IntentRows) /\ txs' = txs /\ chain' = chain /\ UNCHANGED <<fixed, txs>>
  BY DEF Shapes, ledger
<1>1. intents' = intents \/ \E row \in IntentRows : intents' = Append(intents, row) /\ row.action = CreateNova
                              /\ row.hold = NoHash /\ row.expiry = 0 /\ row.state = -1
  BY NovaIntentTyped DEF NovaIntent, Intent
<1>2. Grows /\ intents' \in Seq(IntentRows) /\ (intents' # intents => Ops' = Ops \cup {Len(intents) + 1})
  BY <1>0, <1>1, GrowsHere
<1>3. Ledger'
  BY <1>0, <1>2, LedgerHere
<1>4. Len(intents) + 1 \notin Ops /\ Len(intents) + 1 \in Nat
  BY <1>0 DEF Ops
<1>5. \A op \in Ops' : /\ intents'[op].action = CreateNova /\ intents'[op].hold = NoHash
                       /\ intents'[op].expiry = 0 /\ intents'[op].state = -1
  <2>0. \A op \in Ops : /\ intents[op].action = CreateNova /\ intents[op].hold = NoHash
                        /\ intents[op].expiry = 0 /\ intents[op].state = -1
    BY DEF NovaJournal, Call
  <2>1. CASE intents' = intents
    BY <2>0, <2>1 DEF Ops
  <2>2. CASE \E row \in IntentRows : intents' = Append(intents, row) /\ row.action = CreateNova
                              /\ row.hold = NoHash /\ row.expiry = 0 /\ row.state = -1
    <3>1. PICK row \in IntentRows : intents' = Append(intents, row) /\ row.action = CreateNova
                              /\ row.hold = NoHash /\ row.expiry = 0 /\ row.state = -1
      BY <2>2
    <3>2. /\ DOMAIN intents' = DOMAIN intents \cup {Len(intents) + 1}
          /\ \A x \in DOMAIN intents : intents'[x] = intents[x]
          /\ intents'[Len(intents) + 1] = row
      BY ONLY <1>0, <3>1, AppendElements
    <3> QED
      BY <2>0, <3>1, <3>2 DEF Ops
  <2> QED
    BY <1>1, <2>1, <2>2
<1>6. \A op \in Ops' : Call(op)' = <<CreateNova, NoHash, 0>> /\ intents'[op].state = -1
  BY <1>5 DEF Call
<1> QED
  BY <1>2, <1>3, <1>4, <1>6

NovaMove(t, c) ==
    /\ \/ lock' = lock
       \/ lock = NoTab /\ lock' = t
       \/ lock = t /\ lock' = NoTab
    /\ c.step \in Exclusive => lock' = t \/ c.step = "recovering"
    /\ c.step # "restoring"

LEMMA NovaLocks ==
    ASSUME CreationInv, TabsAssumption, NEW t \in Tabs, NEW c,
           tabs' = [tabs EXCEPT ![t] = c], milestone' = milestone, exports' = exports,
           NovaMove(t, c)
    PROVE  Locks' /\ lock' \in Tabs \cup {NoTab}
<1>0. Shapes /\ Locks /\ InT02 /\ ~InT05 /\ InT02' /\ ~InT05'
  BY DEF CreationInv, InT02, InT05
<1>1. tabs'[t] = c /\ \A u \in Tabs : u # t => tabs'[u] = tabs[u]
  BY <1>0 DEF Shapes
<1>2. lock' \in Tabs \cup {NoTab} /\ t # NoTab
  BY <1>0 DEF Shapes, NovaMove, TabsAssumption
<1>3. LockHeld'
  BY <1>0, <1>1, <1>2 DEF LockHeld, NovaMove, Locks, TabsAssumption
<1>4. \A u \in Tabs : tabs'[u].step # "restoring"
  BY <1>0, <1>1 DEF Locks, NovaMove, CreationInv, NovaPage, NovaSteps
<1> QED
  BY <1>2, <1>3, <1>4 DEF Locks

(* A page goes to c; the others that run or ask see no other operation.    *)
LEMMA NovaStep ==
    ASSUME CreationInv, TabsAssumption, NEW t \in Tabs, NEW c,
           tabs' = [tabs EXCEPT ![t] = c], NovaMove(t, c),
           Shapes', Grows, Ledger', NovaJournal', NovaPage(t)',
           (orphans' = orphans /\ txs' = txs) \/ tabs[t].step \in Asking
    PROVE  CreationInv'
<1>0. Shapes /\ Locks /\ Ledger /\ InT02 /\ \A u \in Tabs : NovaPage(u)
  BY DEF CreationInv
<1>1. tabs'[t] = c /\ \A u \in Tabs : u # t => tabs'[u] = tabs[u]
  BY <1>0 DEF Shapes
<1>2. Locks'
  BY NovaLocks DEF Grows
<1>3. ASSUME NEW u \in Tabs PROVE NovaPage(u)'
  <2>1. CASE u = t
    BY <2>1
  <2>2. CASE u # t
    <3>1. tabs[u].step \in {"running", "probed"} \cup Asking => tabs[t].step \notin Asking
      BY <1>0, <2>2 DEF Locks, LockHeld, Exclusive, Asking
    <3> QED
      BY <1>0, <1>1, <2>2, <3>1, NovaPageStays
  <2> QED
    BY <2>1, <2>2
<1>4. InT02'
  BY <1>0 DEF InT02, Grows
<1> QED
  BY <1>2, <1>3, <1>4 DEF CreationInv

-----------------------------------------------------------------------------
(***************************************************************************)
(* The steps of a page of T02.                                             *)
(***************************************************************************)
NovaGoes(t, c) ==
    /\ tabs' = [tabs EXCEPT ![t] = c] /\ c \in Handlers /\ NovaMove(t, c)
    /\ Prompted(t)
    /\ c.step \in Asking => tabs[t].step \in Asking /\ c.op = tabs[t].op /\ orphans' = orphans
    /\ reviews' \in [Tabs -> {NoReview} \cup ReviewRows]
    /\ NovaIntent /\ UNCHANGED <<fixed, ledger>>

(* A record that is saved is the only one.                                 *)
Saved(r) ==
    /\ r \in RecordRows /\ journal' \in Seq(RecordRows) /\ Members(journal') = {r} /\ Single(journal')
    /\ NovaTrue(r)'
    /\ r.status = "rejected" => Touched' = {}

LEMMA NovaGoesStep ==
    ASSUME CreationInv, TabsAssumption, NEW t \in Tabs, NEW c, NovaGoes(t, c)
    PROVE  /\ Grows /\ Ledger' /\ tabs'[t] = c /\ Touched' \subseteq Touched
           /\ Len(intents) + 1 \in Nat /\ Len(intents) + 1 \notin Ops
           /\ intents' # intents => Ops' = Ops \cup {Len(intents) + 1}
           /\ NovaPage(t)' /\ (journal' = journal \/ \E r : Saved(r)) => CreationInv'
<1>0. Shapes /\ Locks /\ Ledger /\ NovaJournal /\ InT02 /\ \A u \in Tabs : NovaPage(u)
  BY DEF CreationInv
<1>1. tabs'[t] = c /\ \A u \in Tabs : u # t => tabs'[u] = tabs[u]
  BY <1>0 DEF Shapes, NovaGoes
<1>2. Unsent' \subseteq Unsent
  BY <1>0, UnsentStep DEF NovaGoes, Prompted, Asking
<1>3. Grows /\ Ledger' /\ intents' \in Seq(IntentRows)
      /\ Len(intents) + 1 \notin Ops /\ Len(intents) + 1 \in Nat
      /\ (intents' # intents => Ops' = Ops \cup {Len(intents) + 1})
      /\ \A op \in Ops' : Call(op)' = <<CreateNova, NoHash, 0>> /\ intents'[op].state = -1
  <2>1. orphans' \subseteq Ops /\ (\A u \in Tabs : tabs'[u].step \in Asking => tabs'[u].op \in Ops \ orphans')
    <3>1. c.step \in Asking => orphans' \subseteq Ops
      BY <1>0 DEF NovaGoes, Shapes
    <3>2. c.step \notin Asking => orphans' \subseteq Ops
      BY <1>0 DEF NovaGoes, Shapes, Prompted, Ledger, Asking
    <3>3. c.step \in Asking => \A u \in Tabs : tabs'[u].step \in Asking => tabs'[u].op \in Ops \ orphans'
      BY <1>0, <1>1 DEF Ledger, NovaGoes
    <3>4. c.step \notin Asking => \A u \in Tabs : tabs'[u].step \in Asking => tabs'[u].op \in Ops \ orphans'
      <4>1. CASE orphans' = orphans
        BY <1>0, <1>1, <4>1 DEF Ledger
      <4>2. CASE tabs[t].step = "asked"
        BY <1>0, <1>1, <4>2 DEF Locks, LockHeld, Exclusive, Asking
      <4> QED
        BY <4>1, <4>2 DEF NovaGoes, Prompted
    <3> QED
      BY <3>1, <3>2, <3>3, <3>4
  <2>2. Ops \subseteq Ops'
    <3>1. UNCHANGED <<fixed, txs>>
      BY DEF NovaGoes, ledger
    <3>2. intents' = intents \/ (\E row \in IntentRows : intents' = Append(intents, row))
      BY NovaIntentTyped DEF NovaGoes, NovaIntent
    <3> QED
      BY <1>0, <1>2, <3>1, <3>2, GrowsHere
  <2> QED
    BY <1>0, <1>2, <2>1, <2>2, NovaGrows DEF NovaGoes
<1>4. Touched' \subseteq Touched
  BY <1>2 DEF Touched, NovaGoes, ledger
<1>5. ASSUME NovaPage(t)', journal' = journal \/ \E r : Saved(r) PROVE CreationInv'
  <2>1. exports' = exports /\ txs' = txs
    BY DEF NovaGoes, fixed, ledger
  <2>2. \A x, y \in Touched' : x = y
    BY <1>0, <1>4 DEF NovaJournal
  <2>3. /\ journal' \in Seq(RecordRows) /\ Single(journal') /\ \A r \in Members(journal') : NovaTrue(r)'
        /\ Touched' # {} => ~CanCreateNova(journal')
    <3>1. CASE journal' = journal
      BY <1>0, <1>3, <1>4, <3>1, NovaTrueStays DEF NovaJournal, Shapes
    <3>2. CASE \E r : Saved(r)
      BY <3>2 DEF Saved, CanCreateNova
    <3> QED
      BY <1>5, <3>1, <3>2
  <2>4. NovaJournal'
    BY <1>0, <1>3, <2>1, <2>2, <2>3 DEF NovaJournal
  <2>5. lock' \in Tabs \cup {NoTab} /\ tabs' \in [Tabs -> Handlers]
    BY <1>0 DEF NovaGoes, NovaMove, Shapes
  <2>6. orphans' \subseteq Ops'
    BY <1>0, <1>3 DEF NovaGoes, Prompted, Shapes, Ledger, Asking, Grows
  <2>7. Shapes'
    BY <1>0, <1>3, <2>3, <2>5, <2>6 DEF NovaGoes, Shapes, fixed, ledger
  <2>8. (orphans' = orphans /\ txs' = txs) \/ tabs[t].step \in Asking
    BY <2>1 DEF NovaGoes, Prompted, Asking
  <2>9. tabs' = [tabs EXCEPT ![t] = c] /\ NovaMove(t, c)
    BY DEF NovaGoes
  <2> QED
    BY <1>3, <1>5, <2>4, <2>7, <2>8, <2>9, NovaStep
<1> QED
  BY <1>1, <1>3, <1>4, <1>5

-----------------------------------------------------------------------------
LEMMA NovaPut ==
    ASSUME NEW r \in RecordRows, NEW records \in Seq(RecordRows), Single(records),
           \A q \in Members(records) : q.op = r.op
    PROVE  /\ Put(records, r) \in Seq(RecordRows) /\ Members(Put(records, r)) = {r}
           /\ Single(Put(records, r))
BY PutWrites DEF Written

LEMMA NovaIdle ==
    ASSUME NEW t \in Tabs, tabs'[t] = Idle
    PROVE  NovaPage(t)'
BY DEF NovaPage, Idle, NovaSteps, Asking

LEMMA NovaReleases ==
    ASSUME CreationInv, NEW t \in Tabs, Release(t), NEW c, c.step # "restoring",
           c.step \in Exclusive => c.step = "recovering"
    PROVE  NovaMove(t, c)
BY DEF NovaMove, Release, CreationInv, Shapes

LEMMA NovaStays ==
    ASSUME CreationInv, NEW t \in Tabs, lock' = lock, NEW c, c.step # "restoring",
           tabs[t].step \in Exclusive \ {"recovering"} \/ c.step \notin Exclusive \/ c.step = "recovering"
    PROVE  NovaMove(t, c)
BY DEF NovaMove, CreationInv, Locks, LockHeld

LEMMA NovaFinishes ==
    ASSUME CreationInv, NEW t \in Tabs, Finish(t), Prompted(t), DropReview(t) \/ reviews' = reviews,
           NovaIntent, UNCHANGED <<fixed, ledger>>
    PROVE  NovaGoes(t, Idle)
<1>1. NovaMove(t, Idle)
  BY NovaReleases DEF Finish, Idle, Exclusive
<1>2. reviews' \in [Tabs -> {NoReview} \cup ReviewRows]
  BY DEF DropReview, CreationInv, Shapes
<1> QED
  BY <1>1, <1>2 DEF NovaGoes, Finish, Goto, Handlers, Idle, Asking

(* A handler ends, and saves nothing.                                      *)
LEMMA NovaFails ==
    ASSUME CreationInv, TabsAssumption, NEW t \in Tabs, Fails(t) \/ Close(t)
    PROVE  CreationInv'
<1>1. NovaGoes(t, Idle) /\ journal' = journal
  BY NovaFinishes DEF Fails, Close, NovaIntent, Prompted
<1> QED
  BY <1>1, NovaGoesStep, NovaIdle

(* A handler ends, and saves a record.                                     *)
LEMMA NovaEnds ==
    ASSUME CreationInv, TabsAssumption, NEW t \in Tabs, NEW r \in RecordRows,
           tabs[t].step \in Asking \cup {"sent"}, r.op = tabs[t].op,
           Ends(t, r), Prompted(t), UNCHANGED <<fixed, intents, ledger>>,
           Grows => NovaTrue(r)', r.status = "rejected" => Touched' = {}
    PROVE  CreationInv'
<1>1. NovaGoes(t, Idle)
  BY NovaFinishes DEF Ends, NovaIntent
<1>2. PICK records : records = tabs[t].records
  OBVIOUS
<1>3. records \in Seq(RecordRows) /\ Single(records) /\ \A q \in Members(records) : q.op = r.op
  <2>1. tabs[t] \in AskRows \cup SentRows
    BY HandlerRows DEF CreationInv, Shapes, Asking
  <2> QED
    BY <1>2, <2>1 DEF AskRows, SentRows, CreationInv, NovaPage
<1>4. Saved(r)
  BY <1>1, <1>2, <1>3, NovaPut, NovaGoesStep DEF Saved, Ends
<1> QED
  BY <1>1, <1>4, NovaGoesStep, NovaIdle

LEMMA NovaStopsKeeps ==
    ASSUME CreationInv, TabsAssumption, NEW t \in Tabs, NovaStops(t)
    PROVE  CreationInv'
<1>0. Shapes /\ Locks /\ Ledger /\ InT02 /\ NovaPage(t)
  BY DEF CreationInv
<1>1. PICK op : op = tabs[t].op
  OBVIOUS
<1>2. PICK r : r = Record(op, "mismatch", NoHash)
  OBVIOUS
<1>3. op \in Ops /\ op \in Nat /\ orphans = {} /\ txs = <<>> /\ tabs[t].step \in Asking
      /\ \A u \in Tabs : u # t => tabs[u].step \notin Asking
  BY <1>0, <1>1, IntentTyped DEF NovaStops, Asking, NovaPage, Ledger, Locks, LockHeld, Exclusive
<1>4. r \in RecordRows /\ r.op = op /\ r.hash = NoHash /\ r.status = "mismatch"
  BY <1>2, <1>3 DEF Record, RecordRows, Hashes, NoHash, Statuses
<1>5. Unsent' = {} /\ Ops' = Ops /\ txs' = <<>> /\ orphans' = orphans
  <2>1. tabs' = [tabs EXCEPT ![t] = Idle] /\ orphans' = orphans
    BY DEF NovaStops, Ends, Finish, Goto
  <2>2. \A u \in Tabs : tabs'[u].step \notin Asking
    BY <1>0, <1>3, <2>1 DEF Shapes, Idle, Asking
  <2> QED
    BY <1>3, <2>1, <2>2 DEF Unsent, NovaStops, Ops, ledger
<1>6. NovaTrue(r)'
  BY <1>3, <1>4, <1>5 DEF NovaTrue, Own
<1>7. Ends(t, r) /\ Prompted(t)
  BY <1>1, <1>2, <1>5 DEF NovaStops, Prompted
<1> QED
  BY <1>1, <1>3, <1>4, <1>6, <1>7, NovaEnds DEF NovaStops

LEMMA NovaAnswered ==
    ASSUME CreationInv, TabsAssumption, NEW t \in Tabs, Refused(t) \/ Unknown(t)
    PROVE  CreationInv'
<1>0. Shapes /\ Locks /\ Ledger /\ InT02 /\ NovaPage(t) /\ NovaJournal
  BY DEF CreationInv
<1>1. PICK op : op = tabs[t].op
  OBVIOUS
<1>2. op \in Ops /\ op \in Nat
  <2>1. CASE tabs[t].step = "asked"
    BY <1>0, <1>1, <2>1, IntentTyped DEF Ledger, Asking
  <2>2. CASE tabs[t].step = "sent"
    BY <1>0, <1>1, <2>2, IntentTyped DEF Ledger, NovaPage
  <2> QED
    BY <2>1, <2>2 DEF Refused, Unknown
<1>3. CASE Refused(t)
  <2>1. PICK r : r = Record(op, "rejected", NoHash)
    OBVIOUS
  <2>2. r \in RecordRows /\ r.op = op /\ r.hash = NoHash /\ r.status = "rejected"
    BY <1>2, <2>1 DEF Record, RecordRows, Hashes, NoHash, Statuses
  <2>3. tabs[t].step \in Asking /\ orphans = {} /\ txs = <<>>
        /\ \A u \in Tabs : u # t => tabs[u].step \notin Asking
    BY <1>0, <1>3 DEF Refused, Asking, NovaPage, Locks, LockHeld, Exclusive
  <2>4. Unsent' = {} /\ Ops' = Ops /\ txs' = <<>> /\ Prompted(t)
    <3>1. tabs' = [tabs EXCEPT ![t] = Idle] /\ orphans' = orphans
      BY <1>3 DEF Refused, Ends, Finish, Goto
    <3>2. \A u \in Tabs : tabs'[u].step \notin Asking
      BY <1>0, <2>3, <3>1 DEF Shapes, Idle, Asking
    <3> QED
      BY <1>3, <2>3, <3>1, <3>2 DEF Unsent, Refused, Ops, ledger, Prompted
  <2>5. NovaTrue(r)' /\ Touched' = {}
    BY <1>2, <2>2, <2>4 DEF NovaTrue, Own, Touched
  <2> QED
    BY <1>1, <1>3, <2>1, <2>2, <2>3, <2>4, <2>5, NovaEnds DEF Refused
<1>4. CASE Unknown(t)
  <2>1. PICK r : r = Record(op, "unknown", NoHash)
    OBVIOUS
  <2>2. r \in RecordRows /\ r.op = op /\ r.hash = NoHash /\ r.status = "unknown"
    BY <1>2, <2>1 DEF Record, RecordRows, Hashes, NoHash, Statuses
  <2>3. tabs[t].step \in Asking \cup {"sent"} /\ Prompted(t)
    BY <1>4 DEF Unknown, Asking, Prompted
  <2>4. NovaTrue(r)'
    BY <1>2, <1>4, <2>2 DEF NovaTrue, Resolved, Unknown, Ops
  <2> QED
    BY <1>1, <1>4, <2>1, <2>2, <2>3, <2>4, NovaEnds DEF Unknown
<1> QED
  BY <1>3, <1>4

-----------------------------------------------------------------------------
LEMMA NovaStartsKeeps ==
    ASSUME CreationInv, TabsAssumption, NEW t \in Tabs, NovaStarts(t) \/ NovaReviews(t)
    PROVE  CreationInv'
<1>0. Shapes /\ Locks /\ Ledger /\ InT02 /\ NovaPage(t) /\ NovaJournal
  BY DEF CreationInv
<1>1. CASE NovaStarts(t)
  <2> DEFINE c == [step |-> "running", records |-> <<>>]
  <2>1. c \in Handlers /\ c.step = "running" /\ c.records = <<>> /\ tabs' = [tabs EXCEPT ![t] = c]
    BY <1>1, EmptySeq DEF NovaStarts, Goto, Handlers, RunRows
  <2> HIDE DEF c
  <2>2. NovaMove(t, c)
    BY <1>1, <2>1 DEF NovaStarts, Take, NovaMove
  <2>3. NovaGoes(t, c) /\ journal' = journal
    BY <1>0, <1>1, <2>1, <2>2 DEF NovaGoes, NovaStarts, Prompted, Asking, Shapes, NovaIntent
  <2>4. orphans = {} /\ txs = <<>>
    <3>1. Touched = {}
      BY <1>0, <1>1 DEF NovaStarts, NovaJournal
    <3>2. DOMAIN txs = {}
      BY <3>1 DEF Touched
    <3> QED
      BY <1>0, <3>1, <3>2 DEF Touched, Unsent, Shapes
  <2>5. orphans' = {} /\ txs' = <<>>
    BY <1>1, <2>4 DEF NovaStarts, ledger
  <2>6. tabs'[t] = c
    BY <2>3, NovaGoesStep
  <2>7. NovaPage(t)'
    BY <2>1, <2>5, <2>6 DEF NovaPage, NovaSteps, Asking
  <2> QED
    BY <2>3, <2>7, NovaGoesStep
<1>2. CASE NovaReviews(t)
  <2>1. tabs[t] \in RunRows /\ tabs[t].step = "running"
    BY <1>0, <1>2, HandlerRows DEF Shapes, NovaReviews
  <2>2. PICK c : c = [tabs[t] EXCEPT !.step = "probed"]
    OBVIOUS
  <2>3. c \in Handlers /\ c.step = "probed" /\ c.records = <<>> /\ tabs' = [tabs EXCEPT ![t] = c]
    BY <1>0, <1>2, <2>1, <2>2 DEF NovaReviews, Goto, Handlers, RunRows, NovaPage
  <2>4. NovaMove(t, c)
    BY <1>2, <2>1, <2>3, NovaStays DEF NovaReviews, Exclusive
  <2>5. NovaGoes(t, c) /\ journal' = journal
    BY <1>0, <1>2, <2>3, <2>4 DEF NovaGoes, NovaReviews, Prompted, Asking, Shapes, NovaIntent
  <2>6. orphans' = {} /\ txs' = <<>>
    BY <1>0, <1>2, <2>1 DEF NovaReviews, ledger, NovaPage
  <2>7. tabs'[t] = c
    BY <2>5, NovaGoesStep
  <2>8. NovaPage(t)'
    BY <2>3, <2>6, <2>7 DEF NovaPage, NovaSteps, Asking
  <2> QED
    BY <2>5, <2>8, NovaGoesStep
<1> QED
  BY <1>1, <1>2

LEMMA NovaConnectsKeeps ==
    ASSUME CreationInv, TabsAssumption, NEW t \in Tabs, NovaConnects(t)
    PROVE  CreationInv'
<1>0. Shapes /\ Locks /\ Ledger /\ InT02 /\ NovaPage(t) /\ NovaJournal
  BY DEF CreationInv
<1>1. tabs[t] \in AskRows /\ tabs[t].step \in Asking
  BY <1>0, HandlerRows DEF Shapes, NovaConnects, Asking
<1>2. PICK c : c = [tabs[t] EXCEPT !.step = "connected"]
  OBVIOUS
<1>3. c \in Handlers /\ c.step = "connected" /\ c.records = tabs[t].records /\ c.op = tabs[t].op
      /\ tabs' = [tabs EXCEPT ![t] = c]
  BY <1>0, <1>1, <1>2 DEF NovaConnects, Goto, Handlers, AskRows
<1>4. NovaMove(t, c)
  BY <1>1, <1>3, NovaStays DEF NovaConnects, Exclusive, Asking
<1>5. NovaGoes(t, c) /\ journal' = journal
  BY <1>0, <1>1, <1>3, <1>4 DEF NovaGoes, NovaConnects, Prompted, Shapes, NovaIntent
<1>6. orphans' = {} /\ txs' = <<>>
  BY <1>0, <1>1 DEF NovaConnects, ledger, NovaPage
<1>7. tabs'[t] = c
  BY <1>5, NovaGoesStep
<1>8. Single(c.records) /\ \A r \in Members(c.records) : r.op = c.op
  BY <1>0, <1>1, <1>3 DEF NovaPage
<1>9. NovaPage(t)'
  BY <1>3, <1>6, <1>7, <1>8 DEF NovaPage, NovaSteps, Asking
<1> QED
  BY <1>5, <1>9, NovaGoesStep

(* A page that publishes goes on with what it saved.                       *)
LEMMA NovaAsksKeeps ==
    ASSUME CreationInv, TabsAssumption, NEW t \in Tabs, NovaAsks(t)
    PROVE  CreationInv'
<1>0. Shapes /\ Locks /\ Ledger /\ InT02 /\ NovaPage(t) /\ NovaJournal
  BY DEF CreationInv
<1>1. tabs[t] \in AskRows /\ tabs[t].step \in Asking
  BY <1>0, HandlerRows DEF Shapes, NovaAsks, Asking
<1>2. PICK op : op = tabs[t].op
  OBVIOUS
<1>3. PICK r : r = Record(op, "awaiting-signature", NoHash)
  OBVIOUS
<1>4. op \in Ops /\ op \in Nat
  BY <1>0, <1>1, <1>2, IntentTyped DEF Ledger
<1>5. r \in RecordRows /\ r.op = op /\ r.hash = NoHash /\ r.status = "awaiting-signature"
  BY <1>3, <1>4 DEF Record, RecordRows, Hashes, NoHash, Statuses
<1>6. PICK records : records = Put(tabs[t].records, r)
  OBVIOUS
<1>7. records \in Seq(RecordRows) /\ Members(records) = {r} /\ Single(records)
  <2>1. tabs[t].records \in Seq(RecordRows) /\ Single(tabs[t].records)
        /\ \A q \in Members(tabs[t].records) : q.op = r.op
    BY <1>0, <1>1, <1>2, <1>5 DEF AskRows, NovaPage
  <2> QED
    BY <1>5, <1>6, <2>1, NovaPut
<1> DEFINE c == [step |-> "asked", op |-> op, records |-> records]
<1>8. /\ journal' = records /\ tabs' = [tabs EXCEPT ![t] = c] /\ c \in Handlers
      /\ c.step = "asked" /\ c.op = op /\ c.records = records
  <2>1. [[step |-> "asked", op |-> op, records |-> <<>>] EXCEPT !.records = records] = c
    OBVIOUS
  <2> QED
    BY <1>2, <1>3, <1>4, <1>6, <1>7, <2>1 DEF NovaAsks, Asks, Publish, Goto, AskRows, Handlers
<1> HIDE DEF c
<1>9. NovaMove(t, c)
  BY <1>1, <1>8, NovaStays DEF NovaAsks, Asks, Exclusive, Asking
<1>10. NovaGoes(t, c)
  BY <1>0, <1>1, <1>2, <1>8, <1>9 DEF NovaGoes, NovaAsks, Asks, Prompted, Shapes, NovaIntent
<1>11. orphans' = {} /\ txs' = <<>>
  BY <1>0, <1>1 DEF NovaAsks, Asks, ledger, NovaPage
<1>12. tabs'[t] = c /\ Grows
  BY <1>10, NovaGoesStep
<1>13. NovaPage(t)'
  BY <1>5, <1>7, <1>8, <1>11, <1>12 DEF NovaPage, NovaSteps, Asking
<1>14. Saved(r)
  BY <1>4, <1>5, <1>7, <1>8, <1>12 DEF Saved, NovaTrue, Resolved, Grows
<1> QED
  BY <1>10, <1>13, <1>14, NovaGoesStep

LEMMA NovaQueryKeeps ==
    ASSUME CreationInv, TabsAssumption, NEW t \in Tabs, NEW hash \in DOMAIN txs, NovaQuery(t, hash)
    PROVE  CreationInv'
<1>0. Shapes /\ Locks /\ Ledger /\ InT02 /\ NovaPage(t) /\ NovaJournal
  BY DEF CreationInv
<1> DEFINE c == Recovering({}, hash, CreateNova, <<>>, <<>>, NotForReview)
<1>1. c \in Handlers /\ c.step = "recovering" /\ c.found = {} /\ c.hash = hash
      /\ tabs' = [tabs EXCEPT ![t] = c]
  <2>1. hash \in Hashes /\ CreateNova \in AllActions /\ {} \in SUBSET Nat
    BY <1>0, TxTyped DEF Hashes, AllActions
  <2> QED
    BY <2>1, EmptySeq DEF NovaQuery, Goto, Recovering, RecoverRows, Handlers
<1> HIDE DEF c
<1>2. NovaMove(t, c)
  BY <1>1, NovaStays DEF NovaQuery
<1>3. NovaGoes(t, c) /\ journal' = journal /\ txs' = txs
  BY <1>0, <1>1, <1>2 DEF NovaGoes, NovaQuery, Prompted, Asking, Shapes, NovaIntent, ledger
<1>4. tabs'[t] = c
  BY <1>3, NovaGoesStep
<1>5. NovaPage(t)'
  BY <1>1, <1>3, <1>4 DEF NovaPage, NovaSteps, Asking
<1> QED
  BY <1>3, <1>5, NovaGoesStep

LEMMA NovaHashKeeps ==
    ASSUME CreationInv, TabsAssumption, NEW t \in Tabs, NovaHash(t)
    PROVE  CreationInv'
<1>0. Shapes /\ Locks /\ Ledger /\ InT02 /\ NovaPage(t) /\ NovaJournal
  BY DEF CreationInv
<1>1. tabs[t] \in SentRows /\ tabs[t].step = "sent"
  BY <1>0, HandlerRows DEF Shapes, NovaHash, HashReturned
<1>2. PICK op, hash : op = tabs[t].op /\ hash = tabs[t].hash
  OBVIOUS
<1>3. PICK r : r = Record(op, "pending", hash)
  OBVIOUS
<1>4. op \in Ops /\ op \in Nat /\ hash \in DOMAIN txs /\ txs[hash].op = op /\ hash \in Nat
  BY <1>0, <1>1, <1>2, IntentTyped, TxTyped DEF Ledger, NovaPage
<1>5. r \in RecordRows /\ r.op = op /\ r.hash = hash /\ r.status = "pending"
  BY <1>3, <1>4 DEF Record, RecordRows, Hashes, Statuses
<1>6. PICK records : records = Put(tabs[t].records, r)
  OBVIOUS
<1>7. records \in Seq(RecordRows) /\ Members(records) = {r} /\ Single(records)
  <2>1. tabs[t].records \in Seq(RecordRows) /\ Single(tabs[t].records)
        /\ \A q \in Members(tabs[t].records) : q.op = r.op
    BY <1>0, <1>1, <1>2, <1>5 DEF SentRows, NovaPage
  <2> QED
    BY <1>5, <1>6, <2>1, NovaPut
<1>8. PICK c : c = [[tabs[t] EXCEPT !.step = "polling"] EXCEPT !.records = records]
  OBVIOUS
<1>9. /\ journal' = records /\ tabs' = [tabs EXCEPT ![t] = c] /\ c \in Handlers
      /\ c.step = "polling" /\ c.op = op /\ c.records = records /\ c.hash = hash
  <2>1. c \in SentRows /\ c.step = "polling" /\ c.op = op /\ c.records = records /\ c.hash = hash
    BY <1>1, <1>2, <1>7, <1>8 DEF SentRows
  <2> QED
    BY <1>2, <1>3, <1>6, <1>8, <2>1 DEF NovaHash, HashReturned, Publish, Goto, Handlers
<1>10. NovaMove(t, c)
  BY <1>1, <1>9, NovaStays DEF NovaHash, HashReturned, Exclusive
<1>11. NovaGoes(t, c) /\ txs' = txs
  BY <1>0, <1>1, <1>2, <1>9, <1>10
     DEF NovaGoes, NovaHash, HashReturned, Prompted, Shapes, NovaIntent, Asking, DropReview, ledger
<1>12. tabs'[t] = c /\ Grows
  BY <1>11, NovaGoesStep
<1>13. NovaPage(t)'
  BY <1>4, <1>5, <1>7, <1>9, <1>11, <1>12 DEF NovaPage, NovaSteps, Asking
<1>14. Saved(r)
  BY <1>4, <1>5, <1>7, <1>9, <1>11, <1>12 DEF Saved, NovaTrue, Resolved, Grows
<1> QED
  BY <1>11, <1>13, <1>14, NovaGoesStep

LEMMA NovaPolledKeeps ==
    ASSUME CreationInv, TabsAssumption, NEW t \in Tabs, NovaPolled(t)
    PROVE  CreationInv'
<1>0. Shapes /\ Locks /\ Ledger /\ InT02 /\ NovaPage(t) /\ NovaJournal
  BY DEF CreationInv
<1>1. tabs[t] \in SentRows /\ tabs[t].step = "polling"
  BY <1>0, HandlerRows DEF Shapes, NovaPolled
<1>2. PICK op, hash, read : op = tabs[t].op /\ hash = tabs[t].hash /\ read = tabs[t].records
  OBVIOUS
<1>3. PICK status \in {"unknown", "confirmed"} :
        /\ journal' = Put(read, Record(op, status, hash))
        /\ Goto(t, Recovering({op}, hash, CreateNova, journal', <<>>, NotForReview))
  BY <1>2 DEF NovaPolled
<1>4. op \in Ops /\ op \in Nat /\ hash \in DOMAIN txs /\ txs[hash].op = op /\ hash \in Nat
  BY <1>0, <1>1, <1>2, IntentTyped, TxTyped DEF Ledger, NovaPage
<1>5. PICK r : r = Record(op, status, hash)
  OBVIOUS
<1>6. r \in RecordRows /\ r.op = op /\ r.hash = hash /\ r.status = status
  BY <1>4, <1>5 DEF Record, RecordRows, Hashes, Statuses
<1>7. PICK records : records = Put(read, r)
  OBVIOUS
<1>8. records \in Seq(RecordRows) /\ Members(records) = {r} /\ Single(records)
  <2>1. read \in Seq(RecordRows) /\ Single(read) /\ \A q \in Members(read) : q.op = r.op
    BY <1>0, <1>1, <1>2, <1>6 DEF SentRows, NovaPage
  <2> QED
    BY <1>6, <1>7, <2>1, NovaPut
<1> DEFINE c == Recovering({op}, hash, CreateNova, records, <<>>, NotForReview)
<1>9. c \in Handlers /\ c.step = "recovering" /\ c.found = {op} /\ c.hash = hash
      /\ tabs' = [tabs EXCEPT ![t] = c] /\ journal' = records
  <2>1. hash \in Hashes /\ CreateNova \in AllActions /\ {op} \in SUBSET Nat
    BY <1>4 DEF Hashes, AllActions
  <2> QED
    BY <1>3, <1>5, <1>7, <1>8, <2>1, EmptySeq DEF Goto, Recovering, RecoverRows, Handlers
<1> HIDE DEF c
<1>10. NovaMove(t, c)
  BY <1>9, NovaReleases DEF NovaPolled
<1>11. NovaGoes(t, c) /\ txs' = txs
  BY <1>0, <1>9, <1>10 DEF NovaGoes, NovaPolled, Prompted, Asking, Shapes, NovaIntent, ledger
<1>12. tabs'[t] = c /\ Grows
  BY <1>11, NovaGoesStep
<1>13. Own(op, hash)'
  <2>1. Own(op, hash)
    BY <1>0, <1>4 DEF Own, Ledger
  <2> QED
    BY <1>4, <1>12, <2>1, OwnStays
<1>14. NovaPage(t)'
  <2>1. \A o \in c.found : o \in Ops' /\ Own(o, c.hash)'
    BY <1>4, <1>9, <1>12, <1>13 DEF Grows, Own
  <2> QED
    BY <1>4, <1>9, <1>11, <1>12, <2>1 DEF NovaPage, NovaSteps, Asking
<1>15. Saved(r)
  BY <1>4, <1>6, <1>8, <1>9, <1>11, <1>12 DEF Saved, NovaTrue, Resolved, Grows
<1> QED
  BY <1>11, <1>14, <1>15, NovaGoesStep

-----------------------------------------------------------------------------
LEMMA NovaSavesKeeps ==
    ASSUME CreationInv, TabsAssumption, NEW t \in Tabs,
           NEW status \in {"pending", "complete", "confirmed", "mismatch"}, NovaSaves(t, status),
           status \in {"complete", "mismatch"} =>
              Mined(tabs[t].hash) /\ (Outcome(tabs[t].hash) = "complete") = (status = "complete")
    PROVE  CreationInv'
<1>0. Shapes /\ Locks /\ Ledger /\ InT02 /\ NovaPage(t) /\ NovaJournal
  BY DEF CreationInv
<1>1. tabs[t] \in RecoverRows /\ tabs[t].step = "recovering"
  BY <1>0, HandlerRows DEF Shapes, NovaSaves
<1>2. PICK hash, found : hash = tabs[t].hash /\ found = tabs[t].found
  OBVIOUS
<1>3. PICK op : op = IF found = {} THEN Len(intents) + 1 ELSE CHOOSE o \in found : TRUE
  OBVIOUS
<1>4. /\ intents' = IF found = {} THEN Append(intents, Intent(CreateNova, NoHash, 0, -1, FALSE)) ELSE intents
      /\ journal' = <<Record(op, status, hash)>>
      /\ Finish(t) /\ UNCHANGED <<fixed, reviews, orphans, ledger>>
  BY <1>2, <1>3 DEF NovaSaves
<1>5. NovaGoes(t, Idle)
  BY <1>4, NovaFinishes DEF NovaIntent, Prompted
<1>6. /\ Grows /\ Len(intents) + 1 \in Nat /\ Len(intents) + 1 \notin Ops
      /\ (intents' # intents => Ops' = Ops \cup {Len(intents) + 1})
      /\ Touched' \subseteq Touched /\ tabs'[t] = Idle
  BY <1>5, NovaGoesStep
<1>7. hash \in DOMAIN txs /\ hash \in Nat /\ DOMAIN txs' = DOMAIN txs
      /\ (found # {} => op \in found) /\ \A o \in found : o \in Ops /\ Own(o, hash)
  BY <1>0, <1>1, <1>2, <1>3, <1>4, TxTyped DEF NovaPage, ledger
<1>8. op \in Ops' /\ op \in Nat
  <2>1. CASE found = {}
    <3>1. Ops' = Ops \cup {Len(intents) + 1}
      <4>1. intents' = Append(intents, Intent(CreateNova, NoHash, 0, -1, FALSE)) /\ intents \in Seq(IntentRows)
            /\ Intent(CreateNova, NoHash, 0, -1, FALSE) \in IntentRows
        BY <1>0, <1>4, <2>1, NovaIntentTyped DEF Shapes
      <4>2. DOMAIN intents' = DOMAIN intents \cup {Len(intents) + 1}
        BY ONLY <4>1, AppendElements
      <4> QED
        BY <4>2 DEF Ops
    <3> QED
      BY <1>3, <1>6, <2>1, <3>1
  <2>2. CASE found # {}
    <3>1. op \in Ops
      BY <1>7, <2>2
    <3> QED
      BY <1>0, <1>6, <3>1, IntentTyped DEF Grows
  <2> QED
    BY <2>1, <2>2
<1>9. Own(op, hash)'
  <2>1. CASE found = {}
    <3>1. op \notin Ops
      BY <1>3, <1>6, <2>1
    <3>2. Touched \subseteq Ops
      BY <1>0, ExposedOps DEF Touched, Ledger
    <3>3. op \notin Touched'
      BY <1>6, <3>1, <3>2
    <3> QED
      BY <3>3 DEF Own, Touched
  <2>2. CASE found # {}
    <3>1. op \in Ops /\ Own(op, hash)
      BY <1>7, <2>2
    <3> QED
      BY <1>6, <3>1, OwnStays
  <2> QED
    BY <2>1, <2>2
<1>10. PICK r : r = Record(op, status, hash)
  OBVIOUS
<1>11. r \in RecordRows /\ r.op = op /\ r.hash = hash /\ r.status = status
  BY <1>7, <1>8, <1>10 DEF Record, RecordRows, Hashes, Statuses
<1>12. PICK records : records = <<r>>
  OBVIOUS
<1>13. records \in Seq(RecordRows) /\ DOMAIN records = {1} /\ records[1] = r
  BY <1>11, <1>12
<1>14. Members(records) = {r} /\ Single(records) /\ journal' = records
  BY <1>4, <1>10, <1>12, <1>13 DEF Members, Single
<1>15. status \in {"complete", "mismatch"} =>
         Mined(hash)' /\ (Outcome(hash)' = "complete") = (status = "complete")
  BY <1>2, <1>4, <1>6, MinedStays
<1>16. NovaTrue(r)'
  BY <1>7, <1>8, <1>9, <1>11, <1>15 DEF NovaTrue, Resolved, Own, Mined, Outcome
<1>17. Saved(r)
  BY <1>11, <1>13, <1>14, <1>16 DEF Saved
<1> QED
  BY <1>5, <1>6, <1>17, NovaGoesStep, NovaIdle

LEMMA NovaRecoversKeeps ==
    ASSUME CreationInv, TabsAssumption, NEW t \in Tabs, NovaMisses(t) \/ NovaRecovers(t)
    PROVE  CreationInv'
<1>1. CASE NovaMisses(t)
  <2>1. NovaSaves(t, "pending")
    BY <1>1 DEF NovaMisses
  <2> QED
    BY <2>1, NovaSavesKeeps
<1>2. CASE NovaRecovers(t)
  <2>1. CASE txs[tabs[t].hash].status = "ok"
    <3>1. PICK status \in {"complete", "confirmed"} : NovaSaves(t, status)
      BY <1>2, <2>1 DEF NovaRecovers
    <3>2. Mined(tabs[t].hash) /\ Outcome(tabs[t].hash) = "complete"
      BY <1>2, <2>1 DEF NovaRecovers, Outcome
    <3> QED
      BY <3>1, <3>2, NovaSavesKeeps
  <2>2. CASE txs[tabs[t].hash].status # "ok"
    <3>1. NovaSaves(t, "mismatch")
      BY <1>2, <2>2 DEF NovaRecovers
    <3>2. Mined(tabs[t].hash) /\ Outcome(tabs[t].hash) = "failed"
      BY <1>2, <2>2 DEF NovaRecovers, Outcome
    <3> QED
      BY <3>1, <3>2, NovaSavesKeeps
  <2> QED
    BY <2>1, <2>2
<1> QED
  BY <1>1, <1>2

LEMMA NovaIntendsKeeps ==
    ASSUME CreationInv, TabsAssumption, NEW t \in Tabs, NovaIntends(t)
    PROVE  CreationInv'
<1>0. Shapes /\ Locks /\ Ledger /\ InT02 /\ NovaPage(t) /\ NovaJournal
  BY DEF CreationInv
<1>1. tabs[t] \in RunRows /\ tabs[t].step = "probed" /\ tabs[t].records = <<>> /\ orphans = {} /\ txs = <<>>
  BY <1>0, HandlerRows DEF Shapes, NovaIntends, NovaPage
<1>2. lock = t /\ \A u \in Tabs : u # t => tabs[u].step \notin Asking
  BY <1>0, <1>1 DEF Locks, LockHeld, Exclusive, Asking
<1>3. PICK op : op = Len(intents) + 1
  OBVIOUS
<1>4. op \in Nat /\ op \notin Ops
  BY <1>0, <1>3 DEF Shapes, Ops
<1>5. PICK r : r = Record(op, "awaiting-signature", NoHash)
  OBVIOUS
<1>6. r \in RecordRows /\ r.op = op /\ r.hash = NoHash /\ r.status = "awaiting-signature"
  BY <1>4, <1>5 DEF Record, RecordRows, Hashes, NoHash, Statuses
<1>7. PICK records : records = Put(<<>>, r)
  OBVIOUS
<1>8. records \in Seq(RecordRows) /\ Members(records) = {r} /\ Single(records)
  <2>1. <<>> \in Seq(RecordRows) /\ Single(<<>>) /\ \A q \in Members(<<>>) : q.op = r.op
    BY EmptySeq DEF Single, Members
  <2> QED
    BY <1>6, <1>7, <2>1, NovaPut
<1> DEFINE c == [step |-> "intended", op |-> op, records |-> records]
<1>9. /\ journal' = records /\ tabs' = [tabs EXCEPT ![t] = c] /\ c \in Handlers
      /\ c.step = "intended" /\ c.op = op /\ c.records = records
  <2>1. [[step |-> "intended", op |-> op, records |-> <<>>] EXCEPT !.records = records] = c
    OBVIOUS
  <2> QED
    BY <1>1, <1>3, <1>4, <1>5, <1>7, <1>8, <2>1 DEF NovaIntends, Publish, Goto, AskRows, Handlers
<1> HIDE DEF c
<1>10. tabs'[t] = c /\ (\A u \in Tabs : u # t => tabs'[u] = tabs[u]) /\ tabs' \in [Tabs -> Handlers]
  BY <1>0, <1>9 DEF Shapes
<1>11. Unsent = {} /\ Unsent' = {op} /\ orphans' = orphans /\ txs' = txs
  <2>1. Unsent = {}
    BY <1>1, <1>2 DEF Unsent, Asking
  <2> QED
    BY <1>0, <1>1, <1>9, <2>1, UnsentStep DEF NovaIntends, ledger, Asking
<1>12. UNCHANGED <<fixed, ledger>> /\ NovaIntent /\ intents' # intents /\ Ops' = Ops \cup {op}
  <2>1. intents' = Append(intents, Intent(CreateNova, NoHash, 0, -1, TRUE)) /\ intents \in Seq(IntentRows)
        /\ Intent(CreateNova, NoHash, 0, -1, TRUE) \in IntentRows
    BY <1>0, NovaIntentTyped DEF Shapes, NovaIntends
  <2>2. DOMAIN intents' = DOMAIN intents \cup {Len(intents) + 1}
    BY ONLY <2>1, AppendElements
  <2> QED
    BY <1>3, <1>4, <2>1, <2>2 DEF Ops, NovaIntends, NovaIntent
<1>13. /\ Grows /\ Ledger' /\ intents' \in Seq(IntentRows)
       /\ \A o \in Ops' : Call(o)' = <<CreateNova, NoHash, 0>> /\ intents'[o].state = -1
  <2>1. \A o \in Ops : o \in Unsent' => o \in Unsent
    BY <1>4, <1>11
  <2>2. \A u \in Tabs : tabs'[u].step \in Asking => tabs'[u].op \in Ops' \ orphans'
    BY <1>1, <1>2, <1>9, <1>10, <1>11, <1>12
  <2> QED
    BY <1>0, <1>12, <2>1, <2>2, NovaGrows
<1>14. NovaMove(t, c)
  BY <1>1, <1>9, NovaStays DEF NovaIntends, Exclusive
<1>15. NovaPage(t)'
  BY <1>1, <1>6, <1>8, <1>9, <1>10, <1>11 DEF NovaPage, NovaSteps, Asking
<1>16. NovaJournal'
  <2>1. Touched' = {op}
    BY <1>1, <1>11 DEF Touched
  <2>2. NovaTrue(r)'
    BY <1>6, <1>12 DEF NovaTrue, Resolved
  <2>3. exports' = exports
    BY <1>12 DEF fixed
  <2> QED
    BY <1>0, <1>6, <1>8, <1>9, <1>13, <2>1, <2>2, <2>3 DEF NovaJournal, CanCreateNova
<1>17. Shapes'
  <2>1. orphans' \subseteq Ops'
    BY <1>1, <1>11
  <2> QED
    BY <1>0, <1>8, <1>9, <1>10, <1>12, <1>13, <2>1 DEF Shapes, NovaIntends, fixed, ledger
<1> QED
  BY <1>9, <1>11, <1>13, <1>14, <1>15, <1>16, <1>17, NovaStep

(* The wallet and the chain.                                               *)
LEMMA NovaOutside ==
    ASSUME CreationInv, UNCHANGED <<journal, pages, fixed, intents>>, Shapes', Grows, Ledger',
           Touched' \subseteq Touched,
           (orphans' = orphans /\ DOMAIN txs' = DOMAIN txs) \/ orphans # {}
    PROVE  CreationInv'
<1>0. Shapes /\ Locks /\ Ledger /\ InT02 /\ NovaJournal /\ \A u \in Tabs : NovaPage(u)
  BY DEF CreationInv
<1>1. Locks' /\ InT02' /\ tabs' = tabs /\ journal' = journal /\ exports' = exports
  BY <1>0 DEF Locks, LockHeld, pages, fixed, InT02, InT04, InT05
<1>2. ASSUME NEW u \in Tabs PROVE NovaPage(u)'
  <2>1. tabs'[u] = tabs[u] /\ NovaPage(u)
    BY <1>0, <1>1
  <2>2. tabs[u].step \in {"running", "probed"} \cup Asking => orphans' = orphans /\ txs' = txs
    <3> SUFFICES ASSUME tabs[u].step \in {"running", "probed"} \cup Asking
                 PROVE  orphans' = orphans /\ txs' = txs
      OBVIOUS
    <3>1. orphans = {} /\ txs = <<>>
      BY <1>0 DEF NovaPage
    <3>2. orphans' = orphans /\ DOMAIN txs' = {}
      BY <3>1
    <3> QED
      BY <3>1, <3>2 DEF Shapes
  <2> QED
    BY <1>0, <2>1, <2>2, NovaPageStays
<1>3. NovaJournal'
  <2>1. \A op \in Ops' : Call(op)' = <<CreateNova, NoHash, 0>> /\ intents'[op].state = -1
    BY <1>0 DEF NovaJournal, Ops, Call
  <2>2. \A r \in Members(journal') : NovaTrue(r)'
    BY <1>0, <1>1, NovaTrueStays DEF NovaJournal
  <2> QED
    BY <1>0, <1>1, <2>1, <2>2 DEF NovaJournal
<1> QED
  BY <1>1, <1>2, <1>3 DEF CreationInv

-----------------------------------------------------------------------------
LEMMA NovaSendsKeeps ==
    ASSUME CreationInv, TabsAssumption, NEW t \in Tabs, WalletSends(t)
    PROVE  CreationInv'
<1>0. Shapes /\ Locks /\ Ledger /\ InT02 /\ NovaPage(t) /\ NovaJournal
  BY DEF CreationInv
<1>1. tabs[t] \in AskRows /\ tabs[t].step = "asked" /\ tabs[t].step \in Asking
  BY <1>0, HandlerRows DEF Shapes, WalletSends, Asking
<1>2. PICK op : op = tabs[t].op
  OBVIOUS
<1>3. PICK records : records = tabs[t].records
  OBVIOUS
<1> PICK hash : hash = Len(txs) + 1
  OBVIOUS
<1> DEFINE c == [step |-> "sent", op |-> op, hash |-> hash, records |-> records]
<1>4. op \in Unsent /\ op \in Nat /\ op \in Ops \ orphans /\ txs' = Append(txs, Sent(op))
      /\ records \in Seq(RecordRows) /\ Single(records) /\ \A r \in Members(records) : r.op = op
  BY <1>0, <1>1, <1>2, <1>3 DEF Unsent, WalletSends, Ledger, AskRows, NovaPage
<1>5. Len(txs') = hash /\ hash \in Nat
  <2>1. Sent(op) \in TxRows /\ txs \in Seq(TxRows)
    BY <1>0, <1>4 DEF Sent, TxRows, Shapes
  <2> QED
    BY ONLY <2>1, <1>4, AppendElements, hash = Len(txs) + 1
<1>6. /\ tabs' = [tabs EXCEPT ![t] = c] /\ c.step = "sent" /\ lock' = lock /\ orphans' = orphans
      /\ c \in Handlers /\ c.op = op /\ c.hash = hash /\ c.records = records
  BY <1>2, <1>3, <1>4, <1>5 DEF WalletSends, Goto, SentRows, Handlers
<1> HIDE DEF c
<1>7. NovaMove(t, c)
  BY <1>1, <1>6, NovaStays DEF Exclusive
<1>8. tabs'[t] = c /\ (\A u \in Tabs : u # t => tabs'[u] = tabs[u]) /\ tabs' \in [Tabs -> Handlers]
  BY <1>0, <1>6 DEF Shapes
<1>9. Unsent' \subseteq Unsent /\ op \notin Unsent'
  <2>1. c.step \notin Asking
    BY <1>6 DEF Asking
  <2>2. \A u \in Tabs : u # t => tabs[u].step \notin Asking
    BY <1>0, <1>1 DEF Locks, LockHeld, Exclusive, Asking
  <2>3. \A u \in Tabs : tabs'[u].step \notin Asking
    BY <1>8, <2>1, <2>2
  <2> QED
    BY <1>4, <1>6, <2>3 DEF Unsent
<1>10. /\ txs' \in Seq(TxRows) /\ DOMAIN txs' = DOMAIN txs \cup {hash}
       /\ txs'[hash].op = op /\ (\A h \in DOMAIN txs : txs'[h] = txs[h]) /\ Grows /\ Ledger'
  <2>1. \A u \in Tabs : tabs'[u].step \in Asking => tabs'[u].op = tabs[u].op /\ tabs[u].step \in Asking
    BY <1>6, <1>8 DEF Asking
  <2>2. UNCHANGED <<fixed, intents, journal, chain, time>>
    BY DEF WalletSends
  <2> QED
    BY <1>0, <1>4, <1>6, <1>9, <2>1, <2>2, SendsLedger
<1>11. NovaPage(t)'
  BY <1>4, <1>6, <1>8, <1>10 DEF NovaPage, NovaSteps, Asking
<1>12. NovaJournal'
  <2>1. Touched' \subseteq Touched
    BY <1>4, <1>9, <1>10 DEF Touched
  <2>2. \A r \in Members(journal) : NovaTrue(r)'
    BY <1>0, <1>10, NovaTrueStays DEF NovaJournal
  <2> QED
    BY <1>0, <2>1, <2>2 DEF NovaJournal, WalletSends, fixed, Ops, Call, CanCreateNova
<1>13. Shapes'
  BY <1>0, <1>6, <1>8, <1>10 DEF Shapes, WalletSends, fixed, Ops
<1> QED
  BY <1>1, <1>6, <1>7, <1>10, <1>11, <1>12, <1>13, NovaStep

LEMMA NovaOrphanKeeps ==
    ASSUME CreationInv, NEW op \in orphans, OrphanSends(op)
    PROVE  CreationInv'
<1>0. Shapes /\ Ledger
  BY DEF CreationInv
<1>1. op \in Unsent /\ tabs' = tabs /\ orphans' = orphans \ {op} /\ UNCHANGED <<journal, pages, fixed, intents>>
  BY DEF Unsent, OrphanSends, pages
<1>2. Unsent' \subseteq Unsent /\ op \notin Unsent'
  BY <1>0, <1>1 DEF Unsent, Ledger
<1>3. /\ txs' \in Seq(TxRows) /\ Grows /\ Ledger'
      /\ DOMAIN txs' = DOMAIN txs \cup {Len(txs) + 1} /\ txs'[Len(txs) + 1].op = op
      /\ \A h \in DOMAIN txs : txs'[h] = txs[h]
  BY <1>0, <1>1, <1>2, SendsLedger DEF OrphanSends
<1>4. Shapes'
  BY <1>0, <1>1, <1>3 DEF Shapes, OrphanSends, fixed, pages, Ops
<1>5. Touched' \subseteq Touched
  BY <1>1, <1>2, <1>3 DEF Touched
<1> QED
  BY <1>1, <1>3, <1>4, <1>5, NovaOutside

LEMMA NovaMineKeeps ==
    ASSUME CreationInv, Mine
    PROVE  CreationInv'
<1>0. Shapes /\ Ledger
  BY DEF CreationInv
<1>1. PICK hash \in InFlight, ok \in BOOLEAN :
        /\ txs' = [txs EXCEPT ![hash] =
              [@ EXCEPT !.status = IF ok THEN "ok" ELSE "failed", !.state = Now, !.time = time]]
        /\ chain' = IF ok THEN Append(chain, hash) ELSE chain
  BY DEF Mine
<1>2. UNCHANGED <<fixed, intents, journal, pages, orphans, time>>
  BY DEF Mine
<1>3. /\ txs' \in Seq(TxRows) /\ DOMAIN txs' = DOMAIN txs
      /\ \A h \in DOMAIN txs : h # hash => txs'[h] = txs[h]
      /\ txs'[hash].op = txs[hash].op
      /\ txs'[hash].status = IF ok THEN "ok" ELSE "failed"
      /\ Exposed' = {} /\ Unsent' = Unsent /\ Grows
  <2>1. \A x, y \in Exposed : x = y
    BY NovaSendsOnce
  <2> QED
    BY <1>0, <1>1, <1>2, <2>1, MineSettles
<1>4. Did(Now) = {}
  <2>1. \A h \in DOMAIN txs : txs[h].status # "ok"
    BY <1>1, NovaSendsOnce DEF InFlight
  <2>2. DOMAIN chain = {}
    BY <1>0, <2>1 DEF Ledger
  <2>3. DOMAIN chain = 1..Now
    BY <1>0 DEF Shapes, Now
  <2> QED
    BY <2>2, <2>3 DEF Did
<1>5. Shapes' /\ Ledger'
  BY <1>0, <1>1, <1>2, <1>3, <1>4, MineLedger
<1>6. Touched' \subseteq Touched
  <2>1. \A h \in DOMAIN txs : txs'[h].op = txs[h].op
    BY <1>3
  <2> QED
    BY <1>3, <2>1 DEF Touched
<1> QED
  BY <1>2, <1>3, <1>5, <1>6, NovaOutside

-----------------------------------------------------------------------------
LEMMA CreationNext ==
    ASSUME CreationInv, TabsAssumption, [Next]_vars
    PROVE  CreationInv'
<1>0. Shapes /\ Ledger /\ InT02 /\ ~InT03 /\ ~InT04 /\ ~InT05 /\ milestone \notin {"t04", "t05"}
  BY DEF CreationInv, InT02, InT03, InT04, InT05
<1>1. CASE UNCHANGED vars
  <2>1. Unsent' = Unsent /\ Touched' = Touched
    BY <1>1 DEF Unsent, Touched, vars
  <2>2. Grows
    BY <1>0, <1>1, <2>1, GrowsHere DEF vars, fixed
  <2>3. Shapes' /\ Ledger'
    BY <1>0, <1>1, <2>1 DEF vars, Shapes, Ledger, Ops, TxAction, Action
  <2> QED
    BY <1>1, <2>1, <2>2, <2>3, NovaOutside DEF vars, pages, fixed
<1>2. CASE Mine
  BY <1>2, NovaMineKeeps
<1>3. CASE \E op \in orphans : OrphanSends(op)
  BY <1>3, NovaOrphanKeeps
<1>4. ASSUME NEW t \in Tabs, Page(t) PROVE CreationInv'
  <2>0. tabs[t].step \in NovaSteps
    BY DEF CreationInv, NovaPage
  <2>1. CASE Submits(t)
    <3>1. \/ NovaStarts(t) \/ NovaReviews(t) \/ NovaIntends(t) \/ NovaConnects(t)
          \/ NovaAsks(t) \/ NovaStops(t)
      BY <1>0, <2>1 DEF Submits, LifecycleRuns, LifecycleProbes, LifecycleAsks, HoldRuns, HoldProbes,
         HoldAsks, HoldSimulating, HoldSimulated, TradeRuns, TradeIntends, TradeAsks, TradeStops, TradeSimulates
    <3> QED
      BY <3>1, NovaStartsKeeps, NovaIntendsKeeps, NovaConnectsKeeps, NovaAsksKeeps, NovaStopsKeeps
  <2>2. CASE Answers(t)
    <3>1. WalletSends(t) \/ Refused(t) \/ Unknown(t) \/ NovaHash(t) \/ NovaPolled(t)
      BY <1>0, <2>2 DEF Answers, LifecycleHash, PollConfirms, PollStops, HoldHashReturned, TradeHashReturned
    <3> QED
      BY <3>1, NovaSendsKeeps, NovaAnswered, NovaHashKeeps, NovaPolledKeeps
  <2>3. CASE Queries(t)
    <3>1. \E hash \in DOMAIN txs : NovaQuery(t, hash)
      BY <1>0, <2>3 DEF Queries, LifecycleQuery, HoldQuery, TradeQuery
    <3> QED
      BY <3>1, NovaQueryKeeps
  <2>4. CASE Recovers(t)
    <3>1. NovaMisses(t) \/ NovaRecovers(t)
      BY <1>0, <2>0, <2>4 DEF Recovers, LifecycleMisses, LifecycleVerifies, LifecycleSettles, HoldMisses,
         HoldVerifies, HoldSettles, TradeMisses, TradeVerifies, TradeSettles, MirrorLags, NovaSteps
    <3> QED
      BY <3>1, NovaRecoversKeeps
  <2>5. ~Reviews(t) /\ ~Restores(t)
    BY <1>0, <2>0 DEF Reviews, LifecycleReview, HoldReview, TradeReview, LifecycleRechecks, HoldRechecks,
       TradeRechecks, ReadsState, LifecycleOffers, HoldOffers, TradeOffers, NovaSteps,
       Restores, HoldRestoreWrites, HoldRestoreReads, TradeRestores
  <2> QED
    BY <1>4, <2>1, <2>2, <2>3, <2>4, <2>5, NovaFails DEF Page
<1>5. ~Tick
  BY <1>0 DEF Tick
<1> QED
  BY <1>1, <1>2, <1>3, <1>4, <1>5 DEF Next

LEMMA InitCreation ==
    ASSUME JournalAssumption, TabsAssumption, StartsAssumption, Init, InT02
    PROVE  CreationInv
<1>1. PICK start \in Starts : InitAt(start[1], start[2], start[3], start[4])
  BY DEF Init
<1>2. PICK m, done, further, lost : m = start[1] /\ done = start[2] /\ further = start[3] /\ lost = start[4]
  OBVIOUS
<1>3. /\ m \in {"t02", "t03", "t04", "t05"} /\ done \in Nat /\ done <= Len(Path(m))
      /\ further \in Nat /\ lost \in BOOLEAN /\ (m = "t02" => ~lost)
  BY <1>2 DEF StartsAssumption
<1>4. InitAt(m, done, further, lost)
  BY <1>1, <1>2
<1>5. m = "t02" /\ ~lost
  BY <1>3, <1>4 DEF InitAt, InT02
<1>6. Len(Path(m)) = 1 /\ Path(m)[1] = CreateNova /\ done \in 0..1 /\ \A i \in 1..done : i = 1
  BY <1>3, <1>5, PathNames
<1>7. /\ Shapes /\ Locks /\ Ledger /\ Unsent = {} /\ Single(journal)
      /\ \A t \in Tabs : tabs[t] = Idle
      /\ \A e \in Members(journal) : e.status = "complete" /\ RecordTrue(e) /\ e.hash \notin WrongHashes
  BY <1>3, <1>4, StartTrue
<1>8. Begun(m, done)
  BY <1>3, <1>4, StartShapes
<1>9. \A op \in Ops : Call(op) = <<CreateNova, NoHash, 0>> /\ intents[op].state = -1
  <2>1. intents = [i \in 1..done |-> Intent(Path(m)[i], NoHash, 0, -1, FALSE)]
    BY <1>4, <1>5 DEF InitAt
  <2> QED
    BY <1>6, <2>1 DEF Ops, Call, Intent
<1>10. \A op \in Touched : op = 1 /\ done = 1
  BY <1>6, <1>7, <1>8 DEF Touched, Begun
<1>11. done = 1 => \E e \in Members(journal) : e.status = "complete"
  <2> SUFFICES ASSUME done = 1 PROVE \E e \in Members(journal) : e.status = "complete"
    OBVIOUS
  <2> DEFINE all == [i \in 1..done |-> Record(i, "complete", PastHash(m, i))]
             keep == {i \in 1..done : HasEvidence(m, i)}
  <2>1. journal = Pick(all, keep)
    BY <1>4, <1>5 DEF InitAt
  <2>2. 1 \in keep /\ keep \in SUBSET (DOMAIN all)
    BY <1>5 DEF HasEvidence
  <2>3. all \in Seq({all[1]}) /\ all[1].status = "complete"
    BY DEF Record
  <2> HIDE DEF all, keep
  <2>4. all[1] \in Members(journal)
    BY <2>1, <2>2, <2>3, PickKeeps
  <2> QED
    BY <2>3, <2>4
<1>12. exports = {}
  BY <1>4, <1>5 DEF InitAt
<1>13. ASSUME NEW r \in Members(journal) PROVE NovaTrue(r)
  <2>1. r.status = "complete" /\ RecordTrue(r) /\ r.hash \notin WrongHashes
    BY <1>7
  <2> QED
    BY <2>1 DEF RecordTrue, NovaTrue, Resolved
<1>14. NovaJournal
  BY <1>7, <1>9, <1>10, <1>11, <1>12, <1>13 DEF NovaJournal, CanCreateNova
<1>15. \A t \in Tabs : NovaPage(t)
  BY <1>7 DEF NovaPage, Idle, NovaSteps, Asking
<1> QED
  BY <1>7, <1>14, <1>15 DEF CreationInv

-----------------------------------------------------------------------------
(***************************************************************************)
(* What the runs check of the four milestones.                             *)
(***************************************************************************)
MilestonesInv == CreationInv \/ JournalInv

LEMMA MilestonesBasics ==
    ASSUME MilestonesInv
    PROVE  /\ Shapes /\ Locks /\ Ledger /\ \A x, y \in Exposed : x = y
           /\ Prompts \subseteq Unsent /\ Unsent \subseteq Exposed /\ Sending \subseteq Exposed
<1>1. Prompts \subseteq Unsent /\ Unsent \subseteq Exposed /\ Sending \subseteq Exposed
  BY DEF Prompts, Unsent, Asking, Exposed
<1>2. CASE CreationInv
  BY <1>1, <1>2, NovaSendsOnce DEF CreationInv
<1>3. CASE JournalInv
  BY <1>1, <1>3 DEF JournalInv, JournalTrue, OneClaim, Claimed
<1> QED
  BY <1>1, <1>2, <1>3 DEF MilestonesInv

LEMMA InvTypeOK ==
    ASSUME MilestonesInv
    PROVE  TypeOK
<1>0. Shapes /\ Locks /\ Ledger
  BY MilestonesBasics
<1>1. \A t \in Tabs : tabs[t].step \in Steps
  BY <1>0, HandlerRows DEF Shapes
<1>2. ASSUME NEW r \in Members(journal)
      PROVE  r.op \in DOMAIN intents /\ r.status \in Statuses /\ r.hash \in {NoHash} \cup WrongHashes \cup DOMAIN txs
  <2>1. r.status \in Statuses
    BY <1>0, MembersRows DEF Shapes
  <2>2. r.op \in Ops /\ r.hash \in {NoHash} \cup WrongHashes \cup DOMAIN txs
    BY DEF MilestonesInv, CreationInv, NovaJournal, NovaTrue, JournalInv, JournalTrue, RecordsTrue, RecordTrue
  <2> QED
    BY <2>1, <2>2 DEF Ops
<1>3. exports = {} \/ ~InT04 => Single(journal)
  BY DEF MilestonesInv, CreationInv, NovaJournal, JournalInv, JournalTrue, OneRecord
<1>4. \A h \in DOMAIN txs : txs[h].op \in DOMAIN intents /\ txs[h].status \in {"sent", "ok", "failed"}
  BY <1>0, TxTyped DEF Ledger, Ops
<1>5. lock \in Tabs \cup {NoTab} /\ orphans \subseteq DOMAIN intents /\ LockHeld
  BY <1>0 DEF Shapes, Ops, Locks
<1> QED
  BY <1>1, <1>2, <1>3, <1>4, <1>5 DEF TypeOK, Single

LEMMA InvAskedOnce ==
    ASSUME MilestonesInv
    PROVE  AskedOnce
<1>0. Shapes /\ Ledger /\ Prompts \subseteq Unsent
  BY MilestonesBasics
<1> QED
  BY <1>0 DEF AskedOnce, Ledger, Asking

LEMMA InvResolvedIsTrue ==
    ASSUME MilestonesInv
    PROVE  ResolvedIsTrue
<1>0. Shapes /\ Ledger /\ Prompts \subseteq Unsent /\ AskedOnce
  BY MilestonesBasics, InvAskedOnce
<1>1. ASSUME NEW r \in Members(journal), Over(r)
      PROVE  /\ r.op \notin Prompts
             /\ \A h \in DOMAIN txs : txs[h].op = r.op => h = r.hash
             /\ r.hash # NoHash =>
                  /\ Mined(r.hash)
                  /\ (Outcome(r.hash) = "complete") = (r.status = "complete")
                  /\ Call(r.op) = Call(txs[r.hash].op)
  <2>1. CASE CreationInv
    <3>1. NovaTrue(r) /\ (Resolved(r) \/ r.status = "mismatch")
      BY <1>1, <2>1 DEF CreationInv, NovaJournal, Over
    <3>2. PICK op, hash : op = r.op /\ hash = r.hash
      OBVIOUS
    <3>3. op \in Ops /\ Own(op, hash) /\ (hash # NoHash => hash \in DOMAIN txs)
      BY <3>1, <3>2 DEF NovaTrue
    <3>4. hash # NoHash => Call(op) = Call(txs[hash].op)
      BY <1>0, <2>1, <3>3 DEF CreationInv, NovaJournal, Ledger
    <3> QED
      BY <1>0, <3>1, <3>2, <3>3, <3>4 DEF NovaTrue, Own
  <2>2. CASE JournalInv
    <3>1. RecordTrue(r)
      BY <2>2 DEF JournalInv, JournalTrue, RecordsTrue
    <3>2. Resolved(r)
      BY <1>1, <3>1 DEF Over, RecordTrue
    <3> QED
      BY <1>0, <3>1, <3>2 DEF RecordTrue, Own, Mined
  <2> QED
    BY <2>1, <2>2 DEF MilestonesInv
<1> QED
  BY <1>0, <1>1 DEF ResolvedIsTrue

LEMMA InvOneInFlight ==
    ASSUME MilestonesInv
    PROVE  OneInFlight
<1>0. /\ Shapes /\ Ledger /\ \A x, y \in Exposed : x = y
      /\ Prompts \subseteq Unsent /\ Unsent \subseteq Exposed /\ Sending \subseteq Exposed
  BY MilestonesBasics
<1>1. \A h \in InFlight : txs[h].op \in Sending /\ txs[h].op \notin Unsent
  BY <1>0 DEF Sending, InFlight, Ledger
<1>2. \A h, k \in InFlight : h = k
  BY <1>0, <1>1 DEF InFlight, Ledger
<1>3. Prompts = {} \/ InFlight = {}
  BY <1>0, <1>1
<1>4. ASSUME NEW S, \A x, y \in S : x = y
      PROVE  Cardinality(S) \in {0, 1} /\ (S = {} => Cardinality(S) = 0)
  <2>1. CASE S = {}
    BY <2>1, FS_EmptySet
  <2>2. CASE S # {}
    <3>1. PICK x : S = {x}
      BY <1>4, <2>2
    <3> QED
      BY <3>1, FS_Singleton
  <2> QED
    BY <2>1, <2>2
<1>5. \A x, y \in Prompts : x = y
  BY <1>0
<1>6. /\ Cardinality(Prompts) \in {0, 1} /\ (Prompts = {} => Cardinality(Prompts) = 0)
      /\ Cardinality(InFlight) \in {0, 1} /\ (InFlight = {} => Cardinality(InFlight) = 0)
  BY <1>2, <1>4, <1>5
<1> QED
  BY <1>3, <1>6 DEF OneInFlight

LEMMA InvOncePerAction ==
    ASSUME MilestonesInv
    PROVE  OncePerAction
<1>0. Shapes /\ Ledger
  BY MilestonesBasics
<1> PICK n \in Nat : n = Len(chain)
  BY <1>0 DEF Shapes
<1>1. DOMAIN chain = 1..n /\ Now = n
  BY <1>0 DEF Shapes, Now
<1> DEFINE f == [i \in 1..n |-> TxAction(chain[i])]
<1>2. Did(n) = {f[i] : i \in 1..n}
  BY DEF Did
<1>3. \A i, j \in 1..n : f[i] = f[j] => i = j
  BY <1>0, <1>1 DEF Ledger
<1>4. IsFiniteSet(1..n) /\ Cardinality(1..n) = n
  <2>1. 1 \in Int /\ n \in Int
    OBVIOUS
  <2>2. IsFiniteSet(1..n) /\ Cardinality(1..n) = IF 1 > n THEN 0 ELSE n - 1 + 1
    BY ONLY <2>1, FS_Interval
  <2> QED
    BY <2>2
<1> PICK D : D = Did(n)
  OBVIOUS
<1>5. f \in Bijection(1..n, D)
  <2>0. f \in [1..n -> D] /\ \A y \in D : \E i \in 1..n : f[i] = y
    BY <1>2
  <2> HIDE DEF f
  <2> QED
    BY <2>0, <1>3 DEF Bijection, Injection, Surjection, IsInjective
<1>6. Cardinality(D) = n
  BY <1>4, <1>5, FS_Bijection DEF ExistsBijection
<1> QED
  BY <1>1, <1>6 DEF OncePerAction, Once

-----------------------------------------------------------------------------
(***************************************************************************)
(* A behaviour stays in the milestone it starts in, so either              *)
(* invariant is inductive on its own; and under both the journals keep     *)
(* what the runs check, for any number of tabs and operations, and any     *)
(* records to start from that CarefulStarts admits.                        *)
(***************************************************************************)
LEMMA MilestonesInvHolds ==
    ASSUME CarefulStarts
    PROVE  Spec => []MilestonesInv
<1>1. Init => MilestonesInv
  BY TabsAssumption, JournalAssumption, StartsAssumption, InitCreation, InitJournal DEF MilestonesInv
<1>2. MilestonesInv /\ [Next]_vars => MilestonesInv'
  <2>1. CreationInv /\ [Next]_vars => CreationInv'
    BY TabsAssumption, CreationNext
  <2>2. JournalInv /\ [Next]_vars => JournalInv'
    BY TabsAssumption, JournalAssumption, JournalNext
  <2> QED
    BY <2>1, <2>2 DEF MilestonesInv
<1> QED
  BY <1>1, <1>2, PTL DEF Spec

(* Every variable has its type, the lock is with a tab whose handler needs *)
(* it, and every record is of an operation the wallet was asked for        *)
(* (market.ts, lifecycle.ts, hold.ts, trade.ts).                           *)
THEOREM MilestonesTypes == ASSUME CarefulStarts PROVE Spec => []TypeOK
<1>1. MilestonesInv => TypeOK
  BY InvTypeOK
<1> QED
  BY <1>1, MilestonesInvHolds, PTL

(* A record resolved by a poll, a recovery or a restored journal says what *)
(* the chain says: its transaction is that operation's, was mined, and     *)
(* ended as the record has it.                                             *)
THEOREM MilestonesResolved == ASSUME CarefulStarts PROVE Spec => []ResolvedIsTrue
<1>1. MilestonesInv => ResolvedIsTrue
  BY InvResolvedIsTrue
<1> QED
  BY <1>1, MilestonesInvHolds, PTL

(* However many tabs start, poll, recover or restore, in whatever order,   *)
(* no two operations are in flight at once: the lock, the journal and the  *)
(* guards of each milestone together keep the second one out.              *)
THEOREM MilestonesOneInFlight == ASSUME CarefulStarts PROVE Spec => []OneInFlight
<1>1. MilestonesInv => OneInFlight
  BY InvOneInFlight
<1> QED
  BY <1>1, MilestonesInvHolds, PTL

(* No action of a milestone is done twice on the chain: one that may have  *)
(* been sent is not offered again until its record says it failed.         *)
THEOREM MilestonesOncePerAction == ASSUME CarefulStarts PROVE Spec => []OncePerAction
<1>1. MilestonesInv => OncePerAction
  BY InvOncePerAction
<1> QED
  BY <1>1, MilestonesInvHolds, PTL

-----------------------------------------------------------------------------
(***************************************************************************)
(* What the preflights of T03, T04 and T05 find, and recovery asks for.    *)
(***************************************************************************)
(* The state in front of a transaction of op is the one that was reviewed. *)
Fresh(op, state) ==
    intents[op].state >= 0 =>
        intents[op].state <= Now /\ Digest(intents[op].state) = Digest(state)

(* T04 does its transactions in their order.                               *)
HoldBefore(action) ==
    LET i == CHOOSE k \in DOMAIN HoldActions : HoldActions[k] = action
    IN  {HoldActions[k] : k \in 1..(i - 1)} \ HoldSimulations

(* T05: the swap is there and open, its Hold too but for the lock, and its *)
(* expiry is that of the operation.                                        *)
TradeBefore(op, state) ==
    /\ Action(op) \in {"deploy", "lock"} \cup TradeEnds
    /\ IF Action(op) \in {"deploy", "lock"} THEN "lock" \notin Did(state)
       ELSE /\ "lock" \in Did(state) /\ Did(state) \cap TradeEnds = {}
            /\ intents[op].hold \in HashOf("lock", state)
    /\ Action(op) # "deploy" =>
          /\ SwapOpen(SwapOf(op), state)
          /\ intents[txs[SwapOf(op)].op].expiry = intents[op].expiry

Ready(op, state) ==
    /\ Fresh(op, state)
    /\ InT03 => LifecyclePrecedes(Action(op), state)
    /\ InT04 => Did(state) = HoldBefore(Action(op))
    /\ InT05 => TradeBefore(op, state)

InTime(h) ==
    InT05 /\ txs[h].status = "ok" =>
        (TxAction(h) = "reclaim") = (txs[h].time >= intents[txs[h].op].expiry)

MinedReady ==
    \A h \in DOMAIN txs : Mined(h) =>
        txs[h].state <= Now /\ Ready(txs[h].op, txs[h].state) /\ InTime(h)
ExposedReady == \A op \in Exposed : Ready(op, Now)

(* What a page has read is not ahead of the chain, and what it offers in   *)
(* T05 is about the swap and the Hold of the records it was offered for.   *)
PastRead(t) == tabs[t].step = "read" => tabs[t].state <= Now
Founded(review) ==
    LET deploys == Completed(review.journal, "deploy")
        locks == Completed(review.journal, "lock")
    IN  /\ review.action = "lock" => \E r \in deploys : review.hold = r.hash
        /\ review.action \notin {"deploy", "lock"} => \E r \in locks : review.hold = r.hash
        /\ deploys \cup locks # {} =>
              \E r \in deploys \cup locks : review.expiry = intents[r.op].expiry
PastReview(t) ==
    reviews[t] # NoReview => reviews[t].state <= Now /\ (InT05 => Founded(reviews[t]))

Preflights ==
    /\ MinedReady /\ ExposedReady
    /\ \A t \in Tabs : PastRead(t) /\ PastReview(t)

-----------------------------------------------------------------------------
(* The chain only grows: a state that it was in stays what it was.         *)
Extended == Grows /\ Now' \in Nat /\ Now <= Now' /\ \A i \in 1..Now : chain'[i] = chain[i]

LEMMA ChainTyped ==
    ASSUME Shapes, Ledger
    PROVE  /\ Now \in Nat /\ DOMAIN chain = 1..Now
           /\ \A i \in 1..Now : chain[i] \in DOMAIN txs /\ txs[chain[i]].op \in Ops
                                /\ txs[chain[i]].status = "ok"
BY DEF Shapes, Ledger, Now

LEMMA PastStays ==
    ASSUME Shapes, Ledger, Extended, NEW s \in Nat, s <= Now
    PROVE  /\ Did(s)' = Did(s) /\ Digest(s)' = Digest(s)
           /\ \A action : HashOf(action, s)' = HashOf(action, s)
<1>1. \A i \in 1..s : /\ i \in 1..Now /\ chain'[i] = chain[i] /\ chain[i] \in DOMAIN txs
  BY ChainTyped DEF Extended
<1>2. \A i \in 1..s : TxAction(chain[i])' = TxAction(chain[i])
  <2> SUFFICES ASSUME NEW i \in 1..s PROVE TxAction(chain[i])' = TxAction(chain[i])
    OBVIOUS
  <2> PICK h : h = chain[i]
    OBVIOUS
  <2>1. h \in DOMAIN txs /\ chain'[i] = h
    BY <1>1
  <2>2. TxAction(h)' = TxAction(h)
    BY <2>1, TxStays DEF Extended
  <2> QED
    BY <2>1, <2>2 DEF TxAction
<1>3. Did(s)' = Did(s)
  BY <1>2 DEF Did
<1>4. Digest(s)' = Digest(s)
  <2>1. {i \in 1..s : TxAction(chain[i])' # "deploy"} = {i \in 1..s : TxAction(chain[i]) # "deploy"}
    BY <1>2
  <2> QED
    BY <2>1 DEF Digest
<1>5. ASSUME NEW action PROVE HashOf(action, s)' = HashOf(action, s)
  BY <1>1, <1>2 DEF HashOf
<1> QED
  BY <1>3, <1>4, <1>5

LEMMA HashOfTyped ==
    ASSUME Shapes, Ledger, NEW s \in Nat, s <= Now, NEW action, NEW h \in HashOf(action, s)
    PROVE  h \in DOMAIN txs /\ Mined(h) /\ TxAction(h) = action /\ txs[h].status = "ok"
<1>1. PICK i \in 1..s : h = chain[i] /\ TxAction(chain[i]) = action
  BY DEF HashOf
<1>2. i \in 1..Now
  BY ChainTyped
<1> QED
  BY <1>1, <1>2, ChainTyped DEF Mined

(* Which swap an operation is about does not change.                       *)
LEMMA SwapStays ==
    ASSUME Shapes, Ledger, Grows, NEW op \in Ops,
           Action(op) # "lock" => intents[op].hold \in DOMAIN txs
    PROVE  SwapOf(op)' = SwapOf(op)
<1> PICK h : h = intents[op].hold
  OBVIOUS
<1>1. Action(op)' = Action(op) /\ intents'[op].hold = h
  BY CallStays
<1>2. CASE Action(op) = "lock"
  BY <1>1, <1>2 DEF SwapOf
<1>3. CASE Action(op) # "lock"
  <2> PICK o : o = txs[h].op
    OBVIOUS
  <2>1. txs'[h].op = o /\ o \in Ops
    BY <1>3, TxStays
  <2>2. intents'[o].hold = intents[o].hold
    BY <2>1, CallStays
  <2> QED
    BY <1>1, <1>3, <2>1, <2>2 DEF SwapOf
<1> QED
  BY <1>2, <1>3

(* Operations that end a deal name its Hold.                               *)
LEMMA EndsNameHolds ==
    ASSUME Shapes, Ledger, MinedReady, InT05, NEW h \in DOMAIN txs, Mined(h),
           TxAction(h) \in TradeEnds
    PROVE  intents[txs[h].op].hold \in DOMAIN txs
<1> PICK op : op = txs[h].op
  OBVIOUS
<1> PICK s \in Nat : s = txs[h].state
  BY TxTyped
<1>1. s <= Now /\ TradeBefore(op, s) /\ Action(op) \in TradeEnds
  BY DEF MinedReady, Ready, TxAction
<1>2. intents[op].hold \in HashOf("lock", s)
  BY <1>1 DEF TradeBefore, TradeEnds
<1> QED
  BY <1>1, <1>2, HashOfTyped

LEMMA EndsStay ==
    ASSUME Shapes, Ledger, MinedReady, InT05, Extended, NEW s \in Nat, s <= Now, NEW swap
    PROVE  EndsOf(swap, s)' = EndsOf(swap, s) /\ SwapOpen(swap, s)' = SwapOpen(swap, s)
<1>1. ASSUME NEW i \in 1..s
      PROVE  /\ TxAction(chain[i])' = TxAction(chain[i])
             /\ TxAction(chain[i]) \in TradeEnds => SwapOf(txs[chain[i]].op)' = SwapOf(txs[chain[i]].op)
  <2> PICK h : h = chain[i]
    OBVIOUS
  <2> PICK op : op = txs[h].op
    OBVIOUS
  <2>1. i \in 1..Now /\ h \in DOMAIN txs /\ Mined(h) /\ chain'[i] = h /\ op \in Ops
    BY ChainTyped DEF Extended, Mined
  <2>2. TxAction(h)' = TxAction(h) /\ txs'[h].op = op
    BY <2>1, TxStays DEF Extended
  <2>3. ASSUME TxAction(h) \in TradeEnds PROVE SwapOf(op)' = SwapOf(op)
    <3>1. intents[op].hold \in DOMAIN txs
      BY <2>1, <2>3, EndsNameHolds
    <3> QED
      BY <2>1, <3>1, SwapStays DEF Extended
  <2>4. SwapOf(txs[chain[i]].op)' = SwapOf(op)'
    BY <2>1, <2>2 DEF SwapOf, Action
  <2> QED
    BY <2>1, <2>2, <2>3, <2>4 DEF TxAction
<1>2. \A i \in 1..s : chain'[i] = chain[i]
  BY ChainTyped DEF Extended
<1>3. EndsOf(swap, s)' = EndsOf(swap, s)
  BY <1>1 DEF EndsOf
<1>4. HashOf("deploy", s)' = HashOf("deploy", s)
  BY PastStays
<1> QED
  BY <1>3, <1>4 DEF SwapOpen

-----------------------------------------------------------------------------
LEMMA TradeBeforeStays ==
    ASSUME Shapes, Ledger, MinedReady, InT05, Extended, NEW op \in Ops, NEW s \in Nat, s <= Now,
           TradeBefore(op, s)
    PROVE  TradeBefore(op, s)'
<1>1. /\ Did(s)' = Did(s) /\ Action(op)' = Action(op)
      /\ intents'[op] = intents[op] /\ HashOf("lock", s)' = HashOf("lock", s)
  BY PastStays, CallStays DEF Extended
<1>2. CASE Action(op) = "deploy"
  BY <1>1, <1>2 DEF TradeBefore
<1>3. CASE Action(op) # "deploy"
  <2> PICK swap : swap = SwapOf(op)
    OBVIOUS
  <2>1. Action(op) # "lock" => intents[op].hold \in DOMAIN txs
    BY <1>3, HashOfTyped DEF TradeBefore
  <2>2. SwapOf(op)' = swap
    BY <2>1, SwapStays DEF Extended
  <2>3. SwapOpen(swap, s) /\ intents[txs[swap].op].expiry = intents[op].expiry
    BY <1>3 DEF TradeBefore
  <2>4. SwapOpen(swap, s)'
    BY <2>3, EndsStay
  <2>5. swap \in DOMAIN txs
    BY <2>3, HashOfTyped DEF SwapOpen
  <2>6. txs'[swap].op = txs[swap].op /\ txs[swap].op \in Ops
    BY <2>5, TxStays DEF Extended
  <2>7. intents'[txs'[swap].op].expiry = intents'[op].expiry
    BY <1>1, <2>3, <2>6 DEF Extended, Grows
  <2>8. SwapOpen(SwapOf(op), s)'
    BY <2>2, <2>4 DEF SwapOpen
  <2>9. (IF Action(op) \in {"deploy", "lock"} THEN "lock" \notin Did(s)
         ELSE /\ "lock" \in Did(s) /\ Did(s) \cap TradeEnds = {}
              /\ intents[op].hold \in HashOf("lock", s))'
    BY <1>1 DEF TradeBefore
  <2>10. (Action(op) \in {"deploy", "lock"} \cup TradeEnds)'
    BY <1>1 DEF TradeBefore, TradeEnds
  <2> QED
    BY <2>2, <2>7, <2>8, <2>9, <2>10 DEF TradeBefore
<1> QED
  BY <1>2, <1>3

LEMMA FreshStays ==
    ASSUME Shapes, Ledger, Extended, NEW op \in Ops, NEW s \in Nat, s <= Now, Fresh(op, s)
    PROVE  Fresh(op, s)'
<1> PICK row : row = intents[op]
  OBVIOUS
<1> PICK k : k = row.state
  OBVIOUS
<1>1. intents'[op] = row /\ k \in Int
  BY CallStays, IntentTyped DEF Extended
<1>2. CASE k >= 0
  <2>1. k \in Nat /\ k <= Now /\ Digest(k) = Digest(s)
    BY <1>1, <1>2 DEF Fresh
  <2>2. Digest(k)' = Digest(k) /\ Digest(s)' = Digest(s)
    BY <2>1, PastStays
  <2>3. k <= Now'
    BY <2>1, ChainTyped DEF Extended
  <2> QED
    BY <1>1, <2>1, <2>2, <2>3 DEF Fresh
<1>3. CASE ~(k >= 0)
  BY <1>1, <1>3 DEF Fresh
<1> QED
  BY <1>2, <1>3

(* What was found in front of a transaction stays so.                      *)
LEMMA ReadyStays ==
    ASSUME Shapes, Ledger, MinedReady, Extended, NEW op \in Ops, NEW s \in Nat, s <= Now,
           Ready(op, s)
    PROVE  Ready(op, s)'
<1>1. Did(s)' = Did(s) /\ Action(op)' = Action(op) /\ milestone' = milestone
  BY PastStays, CallStays DEF Extended, Grows, fixed
<1>2. (InT03' <=> InT03) /\ (InT04' <=> InT04) /\ (InT05' <=> InT05)
  BY <1>1 DEF InT03, InT04, InT05
<1>3. Fresh(op, s)'
  BY FreshStays DEF Ready
<1>4. ASSUME InT03 PROVE LifecyclePrecedes(Action(op), s)'
  BY <1>1, <1>4 DEF Ready, LifecyclePrecedes
<1>5. ASSUME InT04 PROVE (Did(s) = HoldBefore(Action(op)))'
  <2> PICK action : action = Action(op)
    OBVIOUS
  <2>1. HoldBefore(action)' = HoldBefore(action)
    BY DEF HoldBefore
  <2> QED
    BY <1>1, <1>5, <2>1 DEF Ready, HoldBefore
<1>6. ASSUME InT05 PROVE TradeBefore(op, s)'
  BY <1>6, TradeBeforeStays DEF Ready
<1> QED
  BY <1>2, <1>3, <1>4, <1>5, <1>6 DEF Ready

(* So does what is known of a mined transaction.                           *)
LEMMA MinedStaysReady ==
    ASSUME Shapes, Ledger, MinedReady, Extended, NEW h \in DOMAIN txs, Mined(h)
    PROVE  (txs[h].state <= Now /\ Ready(txs[h].op, txs[h].state) /\ InTime(h))'
<1> PICK tx : tx = txs[h]
  OBVIOUS
<1> PICK op : op = tx.op
  OBVIOUS
<1> PICK s : s = tx.state
  OBVIOUS
<1>1. s \in Nat /\ op \in Ops /\ txs'[h] = tx
  BY TxTyped, MinedStays DEF Ledger, Extended
<1>2. s <= Now /\ Ready(op, s) /\ InTime(h)
  BY DEF MinedReady
<1>3. Ready(op, s)'
  BY <1>1, <1>2, ReadyStays
<1>4. s <= Now'
  BY <1>1, <1>2, ChainTyped DEF Extended
<1>5. Ready(txs[h].op, txs[h].state)'
  BY <1>1, <1>3 DEF Ready, Fresh, TradeBefore
<1>6. InTime(h)'
  <2>1. intents'[op] = intents[op] /\ milestone' = milestone
    BY <1>1, CallStays DEF Extended, Grows
  <2> QED
    BY <1>1, <1>2, <2>1 DEF InTime, InT05, TxAction, Action
<1> QED
  BY <1>1, <1>4, <1>5, <1>6

-----------------------------------------------------------------------------
LEMMA PastReviewStays ==
    ASSUME Shapes, Ledger, Extended, NEW t \in Tabs, reviews'[t] = reviews[t],
           ReviewTrue(t), PastReview(t)
    PROVE  PastReview(t)'
<1> SUFFICES ASSUME reviews[t] # NoReview PROVE PastReview(t)'
  BY DEF PastReview, NoReview
<1> PICK review : review = reviews[t]
  OBVIOUS
<1>1. review \in ReviewRows /\ review.state \in Nat /\ review.journal \in Seq(RecordRows)
  BY DEF Shapes, ReviewRows
<1>2. review.state <= Now'
  BY <1>1, ChainTyped DEF PastReview, Extended
<1>3. \A r \in Members(review.journal) : r.op \in Ops /\ intents'[r.op] = intents[r.op]
  BY DEF ReviewTrue, Extended, Grows
<1>4. ASSUME NEW action PROVE Completed(review.journal, action)' = Completed(review.journal, action)
  BY <1>3 DEF Completed, Action
<1>5. \A action : \A r \in Completed(review.journal, action) : intents'[r.op] = intents[r.op]
  BY <1>3 DEF Completed
<1>6. ASSUME InT05 PROVE Founded(review)'
  <2>1. Founded(review)
    BY <1>6 DEF PastReview
  <2> PICK deploys : deploys = Completed(review.journal, "deploy")
    OBVIOUS
  <2> PICK locks : locks = Completed(review.journal, "lock")
    OBVIOUS
  <2>2. deploys = Completed(review.journal, "deploy")' /\ locks = Completed(review.journal, "lock")'
    BY <1>4
  <2>3. \A r \in deploys \cup locks : intents'[r.op] = intents[r.op]
    BY <1>5
  <2>4. /\ review.action = "lock" => \E r \in deploys : review.hold = r.hash
        /\ review.action \notin {"deploy", "lock"} => \E r \in locks : review.hold = r.hash
        /\ deploys \cup locks # {} =>
              \E r \in deploys \cup locks : review.expiry = intents'[r.op].expiry
    BY <2>1, <2>3 DEF Founded
  <2> QED
    BY <2>2, <2>4 DEF Founded
<1>7. InT05' <=> InT05
  BY DEF InT05, Extended, Grows
<1>8. Founded(reviews[t])' <=> Founded(review)'
  BY DEF Founded, Completed
<1> QED
  BY <1>2, <1>6, <1>7, <1>8 DEF PastReview

(***************************************************************************)
(* A page goes on to c without asking the wallet for anything new.         *)
(***************************************************************************)
Moves(t, c) ==
    /\ tabs' = [tabs EXCEPT ![t] = c]
    /\ c.step \in Asking => tabs[t].step \in Asking /\ c.op = tabs[t].op
    /\ c.step = "read" => c.state = Now
    /\ Prompted(t)
    /\ intents' = intents \/ \E row : intents' = Append(intents, row)
    /\ UNCHANGED <<fixed, ledger>>
    /\ \A u \in Tabs : u # t => reviews'[u] = reviews[u]
    /\ reviews'[t] \in {reviews[t], NoReview} \/ PastReview(t)'

LEMMA MovesGrow ==
    ASSUME Shapes, Ledger, Shapes', NEW t \in Tabs, NEW c, Moves(t, c)
    PROVE  Extended /\ Exposed' \subseteq Exposed /\ tabs'[t] = c /\ txs' = txs /\ Now' = Now
<1>1. tabs' = [tabs EXCEPT ![t] = c] /\ tabs \in [Tabs -> Handlers] /\ txs' = txs /\ chain' = chain
  BY DEF Moves, Shapes, ledger
<1>2. \A u \in Tabs : tabs'[u].step \in Asking => tabs[u].step \in Asking /\ tabs'[u].op = tabs[u].op
  BY <1>1 DEF Moves
<1>3. Unsent' \subseteq Unsent
  <2>1. orphans' \subseteq Unsent
    BY DEF Moves, Prompted, Unsent, Asking
  <2> QED
    BY <1>2, <2>1 DEF Unsent
<1>4. Exposed' \subseteq Exposed
  BY <1>1, <1>3 DEF Exposed, Sending, InFlight
<1>5. intents' = intents \/ \E row \in IntentRows : intents' = Append(intents, row)
  <2> SUFFICES ASSUME NEW row, intents' = Append(intents, row) PROVE row \in IntentRows
    BY DEF Moves
  <2>1. intents \in Seq(IntentRows \cup {row}) /\ row \in IntentRows \cup {row}
    BY DEF Shapes
  <2>2. intents'[Len(intents) + 1] = row /\ Len(intents) + 1 \in DOMAIN intents'
    BY ONLY <2>1, intents' = Append(intents, row), AppendElements
  <2>3. intents' \in Seq(IntentRows)
    BY DEF Shapes
  <2> QED
    BY <2>2, <2>3
<1>6. Grows
  BY <1>1, <1>3, <1>5, GrowsHere DEF Moves
<1>7. Now' = Now
  BY <1>1 DEF Now
<1> QED
  BY <1>1, <1>4, <1>6, <1>7, ChainTyped DEF Extended

LEMMA MovesKeeps ==
    ASSUME JournalInv, JournalInv', Preflights, NEW t \in Tabs, NEW c, Moves(t, c)
    PROVE  Preflights'
<1>0. Shapes /\ Ledger /\ Shapes' /\ MinedReady /\ ExposedReady /\ PagesTrue
  BY DEF JournalInv, Preflights
<1>1. Extended /\ Exposed' \subseteq Exposed /\ tabs'[t] = c /\ txs' = txs /\ Now' = Now
  BY <1>0, MovesGrow
<1>2. MinedReady'
  BY <1>0, <1>1, MinedStaysReady DEF MinedReady, Mined
<1>3. ExposedReady'
  <2> SUFFICES ASSUME NEW op \in Exposed' PROVE Ready(op, Now)'
    BY DEF ExposedReady
  <2> PICK now : now = Now
    OBVIOUS
  <2>1. op \in Exposed /\ op \in Ops /\ now \in Nat /\ now <= Now
    BY <1>0, <1>1, ExposedOps, ChainTyped
  <2>2. Ready(op, now)
    BY <1>0, <2>1 DEF ExposedReady
  <2>3. Ready(op, now)'
    BY <1>0, <1>1, <2>1, <2>2, ReadyStays
  <2> QED
    BY <1>1, <2>3 DEF Ready, Fresh, TradeBefore
<1>4. ASSUME NEW u \in Tabs PROVE PastRead(u)'
  <2>1. CASE u = t
    <3>1. c.step = "read" => c.state = Now
      BY DEF Moves
    <3> QED
      BY <1>0, <1>1, <2>1, <3>1, ChainTyped DEF PastRead
  <2>2. CASE u # t
    <3>1. tabs'[u] = tabs[u]
      BY <1>0, <2>2 DEF Moves, Shapes
    <3> QED
      BY <1>1, <3>1 DEF Preflights, PastRead
  <2> QED
    BY <2>1, <2>2
<1>5. ASSUME NEW u \in Tabs PROVE PastReview(u)'
  <2>1. CASE reviews'[u] = reviews[u]
    BY <1>0, <1>1, <2>1, PastReviewStays DEF Preflights, PagesTrue
  <2>2. CASE reviews'[u] = NoReview
    BY <2>2 DEF PastReview, NoReview
  <2> QED
    BY <2>1, <2>2 DEF Moves
<1> QED
  BY <1>2, <1>3, <1>4, <1>5 DEF Preflights

-----------------------------------------------------------------------------
LEMMA GoesMoves ==
    ASSUME Shapes, NEW t \in Tabs, NEW c, Goto(t, c), c.step \notin Asking \cup {"read"}, Prompted(t),
           intents' = intents \/ \E row : intents' = Append(intents, row),
           DropReview(t) \/ reviews' = reviews, UNCHANGED <<fixed, ledger>>
    PROVE  Moves(t, c)
<1>1. (\A u \in Tabs : u # t => reviews'[u] = reviews[u]) /\ reviews'[t] \in {reviews[t], NoReview}
  BY DEF DropReview, Shapes
<1> QED
  BY <1>1 DEF Moves, Goto

LEMMA FinishesMoves ==
    ASSUME Shapes, NEW t \in Tabs, Finish(t), Prompted(t),
           intents' = intents \/ \E row : intents' = Append(intents, row),
           DropReview(t) \/ reviews' = reviews, UNCHANGED <<fixed, ledger>>
    PROVE  Moves(t, Idle)
BY GoesMoves DEF Finish, Idle, Asking

LEMMA GoesOnMovesOn ==
    ASSUME Shapes, NEW t \in Tabs, NEW status, GoesOn(t, status),
           UNCHANGED <<fixed, intents, reviews, orphans, ledger>>
    PROVE  \E c : Moves(t, c)
<1>0. Prompted(t)
  BY DEF Prompted
<1>1. CASE Finish(t)
  BY <1>0, <1>1, FinishesMoves
<1>2. CASE ~Finish(t)
  <2> PICK c : c = [step |-> "rechecking", left |-> tabs[t].left]
    OBVIOUS
  <2>1. Goto(t, c) /\ c.step \notin Asking \cup {"read"}
    BY <1>2 DEF GoesOn, Asking
  <2> QED
    BY <1>0, <2>1, GoesMoves
<1> QED
  BY <1>1, <1>2

LEMMA RecoveringMoves ==
    ASSUME Shapes, NEW t \in Tabs, NEW found, NEW hash, NEW action, NEW records, NEW left, NEW expects,
           Goto(t, Recovering(found, hash, action, records, left, expects)),
           DropReview(t) \/ reviews' = reviews, UNCHANGED <<fixed, intents, orphans, ledger>>
    PROVE  \E c : Moves(t, c)
<1> PICK c : c = Recovering(found, hash, action, records, left, expects)
  OBVIOUS
<1>1. c.step = "recovering"
  BY DEF Recovering
<1> QED
  BY <1>1, GoesMoves DEF Prompted, Asking

LEMMA RecheckingMoves ==
    ASSUME Shapes, NEW t \in Tabs, NEW left, Goto(t, [step |-> "rechecking", left |-> left]),
           DropReview(t), UNCHANGED <<fixed, intents, orphans, ledger>>
    PROVE  \E c : Moves(t, c)
<1> PICK c : c = [step |-> "rechecking", left |-> left]
  OBVIOUS
<1>1. c.step = "rechecking"
  OBVIOUS
<1> QED
  BY <1>1, GoesMoves DEF Prompted, Asking

LEMMA EndsMove ==
    ASSUME Shapes, NEW t \in Tabs, NEW r, Ends(t, r), Prompted(t),
           intents' = intents \/ \E row : intents' = Append(intents, row), UNCHANGED <<fixed, ledger>>
    PROVE  \E c : Moves(t, c)
BY FinishesMoves DEF Ends

-----------------------------------------------------------------------------
(* Every handler's steps, but for those that ask, send or offer.           *)
LEMMA EndsPageMoves ==
    ASSUME Shapes, NEW t \in Tabs, Fails(t) \/ Close(t)
    PROVE  \E c : Moves(t, c)
<1>1. Prompted(t) /\ Finish(t) /\ (DropReview(t) \/ reviews' = reviews)
      /\ UNCHANGED <<fixed, intents, ledger>>
  BY DEF Fails, Close, Prompted
<1> QED
  BY <1>1, FinishesMoves

LEMMA SubmitsMove ==
    ASSUME JournalInv, TabsAssumption, NEW t \in Tabs, Submits(t),
           ~LifecycleAsks(t), ~HoldAsks(t), ~TradeIntends(t)
    PROVE  \E c : Moves(t, c)
<1>0. Shapes /\ ~InT02
  BY DEF JournalInv
<1>1. ASSUME RunStarts(t) PROVE \E c : Moves(t, c)
  <2> PICK c : c = [step |-> "running", records |-> journal]
    OBVIOUS
  <2>1. c.step = "running"
    OBVIOUS
  <2> QED
    BY <1>0, <1>1, <2>1, GoesMoves DEF RunStarts, Prompted, Asking
<1>2. ASSUME NEW step \in {"probed", "simulating"}, tabs[t].step = "running",
             Goto(t, [tabs[t] EXCEPT !.step = step]),
             UNCHANGED <<fixed, intents, reviews, orphans, ledger>>
      PROVE  \E c : Moves(t, c)
  <2> PICK c : c = [tabs[t] EXCEPT !.step = step]
    OBVIOUS
  <2>1. c.step = step
    BY <1>2, ReviewRead DEF RunRows
  <2> QED
    BY <1>0, <1>2, <2>1, GoesMoves DEF Prompted, Asking
<1>3. CASE LifecycleRuns(t) \/ HoldRuns(t) \/ TradeRuns(t)
  BY <1>1, <1>3 DEF LifecycleRuns, HoldRuns, TradeRuns
<1>4. CASE LifecycleProbes(t)
  BY <1>2, <1>4 DEF LifecycleProbes
<1>5. CASE HoldProbes(t)
  BY <1>2, <1>5 DEF HoldProbes
<1>6. CASE HoldSimulating(t)
  BY <1>2, <1>6 DEF HoldSimulating
<1>7. CASE HoldSimulated(t)
  BY <1>0, <1>7, EndsMove DEF HoldSimulated, Prompted
<1>8. CASE TradeSimulates(t)
  BY <1>0, <1>8, EndsMove DEF TradeSimulates, Prompted
<1>9. CASE TradeStops(t)
  BY <1>0, <1>9, EndsMove DEF TradeStops, Prompted
<1>10. CASE TradeAsks(t)
  <2> PICK op : op = tabs[t].op
    OBVIOUS
  <2> PICK records : records = Put(tabs[t].records, Record(op, "awaiting-signature", NoHash))
    OBVIOUS
  <2> PICK c : c = [[step |-> "asked", op |-> op, records |-> <<>>] EXCEPT !.records = records]
    OBVIOUS
  <2>1. c.step = "asked" /\ c.op = op
    OBVIOUS
  <2>2. Goto(t, c) /\ tabs[t].step = "intended"
    BY <1>10 DEF TradeAsks, Asks, Publish
  <2>3. Moves(t, c)
    BY <1>10, <2>1, <2>2 DEF Moves, TradeAsks, Asks, Asking, Prompted, Goto
  <2> QED
    BY <2>3
<1> QED
  BY <1>0, <1>3, <1>4, <1>5, <1>6, <1>7, <1>8, <1>9, <1>10
  DEF Submits, NovaStarts, NovaReviews, NovaIntends, NovaConnects, NovaAsks, NovaStops

LEMMA AnswersMove ==
    ASSUME JournalInv, TabsAssumption, NEW t \in Tabs, Answers(t), ~WalletSends(t)
    PROVE  \E c : Moves(t, c)
<1>0. Shapes /\ ~InT02
  BY DEF JournalInv
<1>1. CASE Refused(t)
  BY <1>0, <1>1, EndsMove DEF Refused, Prompted
<1>2. CASE Unknown(t)
  BY <1>0, <1>2, EndsMove DEF Unknown, Prompted
<1>3. CASE PollConfirms(t) \/ PollStops(t)
  BY <1>0, <1>3, EndsMove DEF PollConfirms, PollStops, Prompted
<1>4. CASE LifecycleHash(t)
  <2> PICK records : records = Put(tabs[t].records, Record(tabs[t].op, "pending", tabs[t].hash))
    OBVIOUS
  <2> PICK c : c = [[tabs[t] EXCEPT !.step = "polling"] EXCEPT !.records = records]
    OBVIOUS
  <2>0. tabs[t] \in SentRows
    BY <1>0, <1>4, HandlerRows DEF LifecycleHash, HashReturned, Shapes
  <2>1. c.step = "polling"
    BY <2>0 DEF SentRows
  <2> QED
    BY <1>0, <1>4, <2>1, GoesMoves DEF LifecycleHash, HashReturned, Publish, Prompted, Asking
<1>5. ASSUME NEW found, NEW hash, NEW action, NEW left, NEW expects, NEW old,
             HashReturned(t, Recovering(found, hash, action, old, left, expects))
      PROVE  \E c : Moves(t, c)
  <2> PICK records : records = Put(tabs[t].records, Record(tabs[t].op, "pending", tabs[t].hash))
    OBVIOUS
  <2> PICK c : c = [Recovering(found, hash, action, old, left, expects) EXCEPT !.records = records]
    OBVIOUS
  <2>1. c.step = "recovering"
    BY DEF Recovering
  <2> QED
    BY <1>0, <1>5, <2>1, GoesMoves DEF HashReturned, Publish, Prompted, Asking
<1>6. CASE HoldHashReturned(t)
  BY <1>5, <1>6 DEF HoldHashReturned, HoldRecovering
<1>7. CASE TradeHashReturned(t)
  BY <1>5, <1>7 DEF TradeHashReturned
<1> QED
  BY <1>0, <1>1, <1>2, <1>3, <1>4, <1>6, <1>7 DEF Answers, NovaHash, NovaPolled

-----------------------------------------------------------------------------
LEMMA QueriesMove ==
    ASSUME JournalInv, NEW t \in Tabs, Queries(t)
    PROVE  \E c : Moves(t, c)
<1>0. Shapes /\ ~InT02
  BY DEF JournalInv
<1>1. ASSUME NEW hash, NEW action, LifecycleQuery(t, hash, action) PROVE \E c : Moves(t, c)
  BY <1>0, <1>1, RecoveringMoves DEF LifecycleQuery, LifecycleRecovers
<1>2. ASSUME NEW hash, NEW action, HoldQuery(t, hash, action) PROVE \E c : Moves(t, c)
  BY <1>0, <1>2, RecoveringMoves DEF HoldQuery, HoldRecovers, HoldRecovering
<1>3. ASSUME NEW op, NEW hash, TradeQuery(t, op, hash) PROVE \E c : Moves(t, c)
  BY <1>0, <1>3, RecoveringMoves DEF TradeQuery, TradeRecovers
<1> QED
  BY <1>0, <1>1, <1>2, <1>3 DEF Queries, NovaQuery

LEMMA VerifiesMoves ==
    ASSUME JournalInv, NEW t \in Tabs, Verifies(t)
    PROVE  \E c : Moves(t, c)
<1>0. Shapes
  BY DEF JournalInv
<1> PICK op : op = IF tabs[t].found = {} THEN Len(intents) + 1 ELSE CHOOSE o \in tabs[t].found : TRUE
  OBVIOUS
<1> PICK records : records = Place(tabs[t].records, Record(op, "confirmed", tabs[t].hash))
  OBVIOUS
<1> PICK c : c = [tabs[t] EXCEPT !.step = "confirmed", !.found = {op}, !.records = records]
  OBVIOUS
<1>1. tabs[t] \in RecoverRows
  BY <1>0, HandlerRows DEF Verifies, Shapes
<1>2. c.step = "confirmed"
  BY <1>1 DEF RecoverRows
<1>3. Goto(t, c)
  BY DEF Verifies
<1>4. intents' = intents \/ \E row : intents' = Append(intents, row)
  BY DEF Verifies
<1> QED
  BY <1>0, <1>2, <1>3, <1>4, GoesMoves DEF Verifies, Prompted, Asking

LEMMA RecoversMove ==
    ASSUME JournalInv, NEW t \in Tabs, Recovers(t)
    PROVE  \E c : Moves(t, c)
<1>0. Shapes /\ ~InT02
  BY DEF JournalInv
<1>1. CASE LifecycleMisses(t)
  BY <1>0, <1>1, GoesOnMovesOn DEF LifecycleMisses
<1>2. CASE HoldMisses(t)
  BY <1>0, <1>2, GoesOnMovesOn DEF HoldMisses
<1>3. CASE TradeMisses(t)
  BY <1>0, <1>3, GoesOnMovesOn DEF TradeMisses
<1>4. CASE MirrorLags(t)
  BY <1>0, <1>4, GoesOnMovesOn DEF MirrorLags
<1>5. CASE Settles(t)
  BY <1>0, <1>5, GoesOnMovesOn DEF Settles
<1>6. CASE Verifies(t)
  BY <1>6, VerifiesMoves
<1> QED
  BY <1>0, <1>1, <1>2, <1>3, <1>4, <1>5, <1>6
  DEF Recovers, NovaMisses, NovaRecovers, NovaSaves, LifecycleSettles, HoldSettles, TradeSettles,
      LifecycleVerifies, HoldVerifies, TradeVerifies

LEMMA ReviewsMove ==
    ASSUME JournalInv, NEW t \in Tabs, Reviews(t), tabs[t].step # "read"
    PROVE  \E c : Moves(t, c)
<1>0. Shapes
  BY DEF JournalInv
<1>1. CASE LifecycleReview(t)
  BY <1>0, <1>1, RecheckingMoves DEF LifecycleReview
<1>2. CASE HoldReview(t)
  BY <1>0, <1>2, RecheckingMoves DEF HoldReview
<1>3. CASE TradeReview(t)
  BY <1>0, <1>3, RecheckingMoves DEF TradeReview
<1>4. CASE LifecycleRechecks(t)
  BY <1>0, <1>4, RecoveringMoves DEF LifecycleRechecks, LifecycleRecovers
<1>5. CASE HoldRechecks(t)
  BY <1>0, <1>5, RecoveringMoves DEF HoldRechecks, HoldRecovers, HoldRecovering
<1>6. CASE TradeRechecks(t)
  BY <1>0, <1>6, RecoveringMoves DEF TradeRechecks, TradeRecovers
<1>7. CASE ReadsState(t)
  <2> PICK c : c = [step |-> "read", state |-> Now, time |-> time]
    OBVIOUS
  <2>1. c.step = "read" /\ c.state = Now
    OBVIOUS
  <2>2. Goto(t, c)
    BY <1>7 DEF ReadsState
  <2>3. Moves(t, c)
    BY <1>7, <2>1, <2>2 DEF ReadsState, Moves, Goto, Prompted, Asking
  <2> QED
    BY <2>3
<1> QED
  BY <1>1, <1>2, <1>3, <1>4, <1>5, <1>6, <1>7
  DEF Reviews, LifecycleOffers, HoldOffers, TradeOffers

LEMMA RestoresMove ==
    ASSUME JournalInv, TabsAssumption, NEW t \in Tabs, Restores(t)
    PROVE  \/ \E c : Moves(t, c)
           \/ \E e \in exports : TradeRestores(t, e)
<1>0. Shapes
  BY DEF JournalInv
<1>1. CASE HoldRestoreWrites(t)
  BY <1>0, <1>1, FinishesMoves DEF HoldRestoreWrites, Prompted
<1>2. ASSUME NEW e \in exports, HoldRestoreReads(t, e) PROVE \E c : Moves(t, c)
  <2> PICK c : c.step = "restoring" /\ Goto(t, c)
    BY <1>2 DEF HoldRestoreReads
  <2> QED
    BY <1>0, <1>2, GoesMoves DEF HoldRestoreReads, Prompted, Asking
<1> QED
  BY <1>1, <1>2 DEF Restores

-----------------------------------------------------------------------------
(* A review that is offered is founded on the records it is offered for.   *)
LEMMA OffersMove ==
    ASSUME JournalInv, Preflights, NEW t \in Tabs, tabs[t].step = "read",
           NEW action, NEW hold, NEW expiry, Offers(t, action, hold, expiry),
           InT05 => \E now : /\ expiry = TradeExpiry(journal, now)
                             /\ action = "lock" => hold \in TradeHash(journal, "deploy")
                             /\ action \notin {"deploy", "lock"} => hold \in TradeHash(journal, "lock")
    PROVE  Moves(t, Idle)
<1>0. Shapes /\ PastRead(t)
  BY DEF JournalInv, Preflights
<1> PICK review : review = [action |-> action, hold |-> hold, expiry |-> expiry,
                            state |-> tabs[t].state, journal |-> journal]
  OBVIOUS
<1>1. /\ review.action = action /\ review.hold = hold /\ review.expiry = expiry
      /\ review.state = tabs[t].state /\ review.journal = journal
  OBVIOUS
<1>2. reviews'[t] = review /\ \A u \in Tabs : u # t => reviews'[u] = reviews[u]
  BY <1>0 DEF Offers, Shapes
<1>3. UNCHANGED <<fixed, intents, journal, orphans, ledger>> /\ Finish(t)
  BY DEF Offers
<1>4. \A a : Completed(review.journal, a)' = Completed(journal, a)
  BY <1>1, <1>3 DEF Completed, Action
<1>5. review.state <= Now'
  BY <1>0, <1>1, <1>3 DEF PastRead, Now, ledger
<1>6. ASSUME InT05 PROVE Founded(review)'
  <2> PICK deploys : deploys = Completed(journal, "deploy")
    OBVIOUS
  <2> PICK locks : locks = Completed(journal, "lock")
    OBVIOUS
  <2>1. PICK now : /\ expiry = TradeExpiry(journal, now)
                   /\ action = "lock" => hold \in TradeHash(journal, "deploy")
                   /\ action \notin {"deploy", "lock"} => hold \in TradeHash(journal, "lock")
    BY <1>6
  <2>2. action = "lock" => \E r \in deploys : hold = r.hash
    BY <2>1 DEF TradeHash
  <2>3. action \notin {"deploy", "lock"} => \E r \in locks : hold = r.hash
    BY <2>1 DEF TradeHash
  <2>4. ASSUME deploys \cup locks # {}
        PROVE  \E r \in deploys \cup locks : expiry = intents[r.op].expiry
    <3>1. expiry = intents[(CHOOSE r \in locks \cup deploys : TRUE).op].expiry
      BY <2>1, <2>4 DEF TradeExpiry
    <3>2. (CHOOSE r \in locks \cup deploys : TRUE) \in locks \cup deploys
      BY <2>4
    <3> QED
      BY <3>1, <3>2
  <2>5. intents' = intents
    BY <1>3
  <2>6. Completed(review.journal, "deploy")' = deploys /\ Completed(review.journal, "lock")' = locks
    BY <1>4
  <2> QED
    BY <1>1, <2>2, <2>3, <2>4, <2>5, <2>6 DEF Founded
<1>7. InT05' <=> InT05
  BY <1>3 DEF InT05, fixed
<1>8. PastReview(t)'
  <2>1. Founded(reviews[t])' <=> Founded(review)'
    BY <1>2 DEF Founded, Completed
  <2> QED
    BY <1>1, <1>2, <1>5, <1>6, <1>7, <2>1 DEF PastReview
<1> QED
  BY <1>2, <1>3, <1>8 DEF Moves, Finish, Goto, Prompted, Idle, Asking

LEMMA OffersReview ==
    ASSUME JournalInv, Preflights, NEW t \in Tabs,
           LifecycleOffers(t) \/ HoldOffers(t) \/ TradeOffers(t)
    PROVE  \E c : Moves(t, c)
<1>1. CASE LifecycleOffers(t)
  <2>1. PICK action : tabs[t].step = "read" /\ Offers(t, action, NoHash, 0) /\ ~InT05
    BY <1>1 DEF LifecycleOffers, InT03, InT05
  <2> QED
    BY <2>1, OffersMove
<1>2. CASE HoldOffers(t)
  <2>1. PICK action, hold, expiry : tabs[t].step = "read" /\ Offers(t, action, hold, expiry) /\ ~InT05
    BY <1>2 DEF HoldOffers, InT04, InT05
  <2> QED
    BY <2>1, OffersMove
<1>3. CASE TradeOffers(t)
  <2>1. tabs[t].step = "read"
    BY <1>3 DEF TradeOffers
  <2>2. PICK action, hold, now :
          /\ hold \in CASE action = "deploy" -> {NoHash}
                        [] action = "lock" -> TradeHash(journal, "deploy")
                        [] OTHER -> TradeHash(journal, "lock")
          /\ Offers(t, action, hold, TradeExpiry(journal, now))
    BY <1>3 DEF TradeOffers
  <2>3. action = "lock" => hold \in TradeHash(journal, "deploy")
    BY <2>2
  <2>4. action \notin {"deploy", "lock"} => hold \in TradeHash(journal, "lock")
    BY <2>2
  <2> QED
    BY <2>1, <2>2, <2>3, <2>4, OffersMove
<1> QED
  BY <1>1, <1>2, <1>3

-----------------------------------------------------------------------------
(* Outside of the pages' handlers.                                         *)
LEMMA StillKeeps ==
    ASSUME JournalInv, Preflights, Extended, Exposed' \subseteq Exposed, Now' = Now,
           \A h \in DOMAIN txs' : Mined(h)' => h \in DOMAIN txs /\ Mined(h),
           \A t \in Tabs : tabs'[t].step = "read" => tabs'[t] = tabs[t],
           \A t \in Tabs : reviews'[t] = reviews[t]
    PROVE  Preflights'
<1>0. Shapes /\ Ledger /\ MinedReady /\ ExposedReady /\ PagesTrue
  BY DEF JournalInv, Preflights
<1>2. MinedReady'
  BY <1>0, MinedStaysReady DEF MinedReady
<1>3. ExposedReady'
  <2> SUFFICES ASSUME NEW op \in Exposed' PROVE Ready(op, Now)'
    BY DEF ExposedReady
  <2> PICK now : now = Now
    OBVIOUS
  <2>1. op \in Exposed /\ op \in Ops /\ now \in Nat /\ now <= Now
    BY <1>0, ExposedOps, ChainTyped
  <2>2. Ready(op, now)
    BY <1>0, <2>1 DEF ExposedReady
  <2>3. Ready(op, now)'
    BY <1>0, <2>1, <2>2, ReadyStays
  <2> QED
    BY <2>3 DEF Ready, Fresh, TradeBefore
<1>4. ASSUME NEW t \in Tabs PROVE PastRead(t)' /\ PastReview(t)'
  <2>1. PastReview(t)'
    BY <1>0, PastReviewStays DEF Preflights, PagesTrue
  <2>2. PastRead(t)'
    BY DEF Preflights, PastRead
  <2> QED
    BY <2>1, <2>2
<1> QED
  BY <1>2, <1>3, <1>4 DEF Preflights

LEMMA SendsKeep ==
    ASSUME JournalInv, JournalAssumption, Preflights,
           (\E op \in orphans : OrphanSends(op)) \/ \E t \in Tabs : WalletSends(t)
    PROVE  Preflights'
<1>0. Shapes /\ Ledger
  BY DEF JournalInv
<1>1. PICK op \in Unsent :
        /\ txs' = Append(txs, Sent(op))
        /\ UNCHANGED <<fixed, intents, journal, chain, time>>
        /\ orphans' \subseteq orphans /\ Unsent' \subseteq Unsent /\ op \notin Unsent'
        /\ \A u \in Tabs : tabs'[u].step \in Asking => tabs'[u].op = tabs[u].op /\ tabs[u].step \in Asking
        /\ \A u \in Tabs : tabs'[u].step = "read" => tabs'[u] = tabs[u]
        /\ reviews' = reviews
  <2>1. CASE \E op \in orphans : OrphanSends(op)
    <3> PICK op \in orphans : OrphanSends(op)
      BY <2>1
    <3>1. op \in Unsent /\ tabs' = tabs /\ orphans' = orphans \ {op}
      BY DEF Unsent, OrphanSends, pages
    <3>2. \A u \in Tabs : tabs[u].step \in Asking => tabs[u].op # op
      BY <1>0 DEF Ledger
    <3>3. Unsent' \subseteq Unsent /\ op \notin Unsent'
      BY <3>1, <3>2 DEF Unsent
    <3> QED
      BY <3>1, <3>3 DEF OrphanSends, pages
  <2>2. CASE \E t \in Tabs : WalletSends(t)
    <3> PICK t \in Tabs : WalletSends(t)
      BY <2>2
    <3> PICK op : op = tabs[t].op
      OBVIOUS
    <3> PICK c : c = [step |-> "sent", op |-> op, hash |-> Len(txs'), records |-> tabs[t].records]
      OBVIOUS
    <3>1. c.step = "sent" /\ tabs[t].step = "asked"
      BY DEF WalletSends
    <3>2. tabs' = [tabs EXCEPT ![t] = c] /\ orphans' = orphans /\ lock' = lock
      BY DEF WalletSends, Goto
    <3>3. op \in Unsent
      BY <3>1 DEF Unsent, Asking
    <3>4. Unsent' \subseteq Unsent
      BY <1>0, <3>1, <3>2, UnsentStep DEF Asking
    <3>5. op \notin Unsent'
      <4>1. lock = t /\ tabs[t].step \in Asking
        BY <3>1 DEF JournalInv, Locks, LockHeld, Exclusive, Asking
      <4> QED
        BY <1>0, <3>1, <3>2, <4>1, AloneAsking DEF Asking, JournalInv
    <3>6. \A u \in Tabs : u # t => tabs'[u] = tabs[u]
      BY <1>0, <3>2 DEF Shapes
    <3>7. tabs'[t].step = "sent"
      BY <1>0, <3>1, <3>2 DEF Shapes
    <3> QED
      BY <3>2, <3>3, <3>4, <3>5, <3>6, <3>7 DEF WalletSends, Asking
  <2> QED
    BY <2>1, <2>2
<1>2. /\ DOMAIN txs' = DOMAIN txs \cup {Len(txs) + 1}
      /\ txs'[Len(txs) + 1].status = "sent"
      /\ \A h \in DOMAIN txs : txs'[h] = txs[h]
      /\ Exposed' \subseteq Exposed /\ Grows
  BY <1>0, <1>1, SendsLedger
<1>3. Now' = Now /\ Extended
  BY <1>0, <1>1, <1>2, ChainTyped DEF Extended, Now
<1>4. \A h \in DOMAIN txs' : Mined(h)' => h \in DOMAIN txs /\ Mined(h)
  BY <1>2 DEF Mined
<1> QED
  BY <1>1, <1>2, <1>3, <1>4, StillKeeps

LEMMA WaitsReady ==
    ASSUME JournalInv, JournalAssumption, Preflights,
           UNCHANGED <<fixed, intents, pages, orphans, txs, chain>>
    PROVE  Preflights'
<1>0. Shapes /\ Ledger
  BY DEF JournalInv
<1>1. tabs' = tabs /\ reviews' = reviews /\ orphans' = orphans /\ txs' = txs /\ chain' = chain
      /\ intents' = intents
  BY DEF pages
<1>2. Unsent' = Unsent /\ Exposed' = Exposed
  BY <1>1 DEF Unsent, Exposed, Sending, InFlight
<1>3. Grows
  BY <1>0, <1>1, <1>2, GrowsHere
<1>4. Now' = Now /\ Extended
  BY <1>0, <1>1, <1>3, ChainTyped DEF Extended, Now
<1>5. \A h \in DOMAIN txs' : Mined(h)' => h \in DOMAIN txs /\ Mined(h)
  BY <1>1 DEF Mined
<1> QED
  BY <1>1, <1>2, <1>4, <1>5, StillKeeps

(* A block puts what was exposed into the state that its page was shown.   *)
LEMMA MineReady ==
    ASSUME JournalInv, JournalInv', JournalAssumption, Preflights, Mine
    PROVE  Preflights'
<1>0. Shapes /\ Ledger /\ JournalTrue /\ PagesTrue /\ MinedReady /\ ExposedReady
  BY DEF JournalInv, Preflights
<1>1. PICK hash \in InFlight, ok \in BOOLEAN :
        /\ ok => Succeeds(txs[hash].op)
        /\ txs' = [txs EXCEPT ![hash] =
              [@ EXCEPT !.status = IF ok THEN "ok" ELSE "failed", !.state = Now, !.time = time]]
        /\ chain' = IF ok THEN Append(chain, hash) ELSE chain
  BY DEF Mine
<1>2. PICK op : op = txs[hash].op
  OBVIOUS
<1> PICK now : now = Now
  OBVIOUS
<1>3. hash \in DOMAIN txs /\ txs[hash].status = "sent"
  BY DEF InFlight
<1>4. UNCHANGED <<fixed, intents, journal, pages, orphans, time>>
  BY DEF Mine
<1>5. /\ DOMAIN txs' = DOMAIN txs
      /\ \A h \in DOMAIN txs : h # hash => txs'[h] = txs[h]
      /\ txs'[hash].op = op /\ txs'[hash].status = IF ok THEN "ok" ELSE "failed"
      /\ op \in Exposed /\ Exposed' = {} /\ Grows
  <2>0. \A x, y \in Exposed : x = y
    BY <1>0 DEF JournalTrue, OneClaim, Claimed
  <2>1. txs' = [txs EXCEPT ![hash] =
              [@ EXCEPT !.status = IF ok THEN "ok" ELSE "failed", !.state = Now, !.time = time]]
    BY <1>1
  <2> QED
    BY <1>0, <1>2, <1>4, <2>1, <2>0, MineSettles
<1>6. txs'[hash].state = now /\ txs'[hash].time = time /\ now \in Nat
  <2> PICK row : row = [txs[hash] EXCEPT !.status = IF ok THEN "ok" ELSE "failed", !.state = Now, !.time = time]
    OBVIOUS
  <2>1. txs' = [txs EXCEPT ![hash] = row] /\ txs \in Seq(TxRows) /\ txs[hash] \in TxRows
    BY <1>0, <1>1, <1>3 DEF Shapes
  <2>2. txs'[hash] = row
    BY <1>3, <2>1
  <2>3. row.state = now /\ row.time = time
    BY <2>1 DEF TxRows
  <2> QED
    BY <1>0, <2>2, <2>3, ChainTyped
<1>7. op \in Ops /\ Ready(op, now)
  BY <1>0, <1>5, ExposedOps DEF ExposedReady
<1>8. Extended
  <2>1. chain \in Seq(Nat) /\ hash \in Nat /\ now = Len(chain) /\ Now' = Len(chain')
    BY <1>0, <1>3 DEF Shapes, Now
  <2>2. CASE chain' = chain
    BY <1>5, <1>6, <2>1, <2>2, ChainTyped DEF Extended
  <2>3. CASE chain' = Append(chain, hash)
    <3>1. Len(chain') = Len(chain) + 1 /\ \A i \in 1..Len(chain) : chain'[i] = chain[i]
      BY ONLY <2>1, <2>3
    <3> QED
      BY <1>5, <1>6, <2>1, <3>1 DEF Extended
  <2> QED
    BY <1>1, <2>2, <2>3
<1>9. Ready(op, now)'
  BY <1>0, <1>6, <1>7, <1>8, ReadyStays
<1>10. now <= Now' /\ Now' \in Nat
  BY <1>8 DEF Extended
<1>11. ASSUME InT05, ok
       PROVE  (Action(op) = "reclaim") = (time >= intents[op].expiry)
  <2>1. TradeSucceeds(op)
    <3>1. ~InT02 /\ ~InT03 /\ ~InT04
      BY <1>11 DEF InT02, InT03, InT04, InT05
    <3> QED
      BY <1>1, <1>2, <1>11, <3>1 DEF Succeeds
  <2>2. TradeBefore(op, now)
    BY <1>7, <1>11 DEF Ready
  <2>3. time \in Nat /\ intents[op].expiry \in Nat
    BY <1>0, <1>7, IntentTyped DEF Shapes
  <2>4. CASE Action(op) \in {"deploy", "lock"}
    <3>1. time < intents[op].expiry
      BY <2>1, <2>4 DEF TradeSucceeds
    <3> QED
      BY <2>3, <2>4, <3>1
  <2>5. CASE Action(op) \in {"settle", "cancel"}
    <3>1. SwapChecks(op, FALSE) /\ intents[txs[SwapOf(op)].op].expiry = intents[op].expiry
      BY <2>1, <2>2, <2>5 DEF TradeSucceeds, TradeBefore
    <3>2. (time >= intents[op].expiry) = FALSE
      BY <3>1 DEF SwapChecks
    <3> QED
      BY <2>5, <3>2
  <2>6. CASE Action(op) = "reclaim"
    <3>1. SwapChecks(op, TRUE) /\ intents[txs[SwapOf(op)].op].expiry = intents[op].expiry
      BY <2>1, <2>2, <2>6 DEF TradeSucceeds, TradeBefore
    <3>2. (time >= intents[op].expiry) = TRUE
      BY <3>1 DEF SwapChecks
    <3> QED
      BY <2>6, <3>2
  <2> QED
    BY <2>2, <2>4, <2>5, <2>6 DEF TradeBefore, TradeEnds
<1>12. InTime(hash)'
  <2>1. InT05' <=> InT05
    BY <1>4 DEF InT05, fixed
  <2>2. intents' = intents
    BY <1>4
  <2>3. txs'[hash].status = "ok" => ok
    BY <1>5
  <2>4. ASSUME InT05, ok
        PROVE  (intents'[txs'[hash].op].action = "reclaim")
                   = (txs'[hash].time >= intents'[txs'[hash].op].expiry)
    BY <1>5, <1>6, <1>11, <2>2, <2>4 DEF Action
  <2> QED
    BY <2>1, <2>3, <2>4 DEF InTime, TxAction, Action
<1>13. MinedReady'
  <2> SUFFICES ASSUME NEW h \in DOMAIN txs', Mined(h)'
               PROVE  (txs[h].state <= Now /\ Ready(txs[h].op, txs[h].state) /\ InTime(h))'
    BY DEF MinedReady
  <2>1. CASE h = hash
    <3>1. Ready(txs[hash].op, txs[hash].state)'
      BY <1>5, <1>6, <1>9 DEF Ready, Fresh, TradeBefore, LifecyclePrecedes
    <3> QED
      BY <1>6, <1>10, <1>12, <2>1, <3>1
  <2>2. CASE h # hash
    <3>1. h \in DOMAIN txs /\ Mined(h)
      BY <1>5, <2>2 DEF Mined
    <3> QED
      BY <1>0, <1>8, <3>1, MinedStaysReady
  <2> QED
    BY <2>1, <2>2
<1>14. ExposedReady'
  BY <1>5 DEF ExposedReady
<1>15. ASSUME NEW t \in Tabs PROVE PastRead(t)' /\ PastReview(t)'
  <2>0. tabs' = tabs /\ reviews' = reviews
    BY <1>4 DEF pages
  <2>1. PastReview(t)'
    BY <1>0, <1>8, <2>0, PastReviewStays DEF Preflights, PagesTrue
  <2>2. PastRead(t)'
    <3> SUFFICES ASSUME tabs[t].step = "read" PROVE tabs[t].state <= Now'
      BY <2>0 DEF PastRead
    <3>1. tabs[t].state <= Now
      BY DEF Preflights, PastRead
    <3>2. tabs[t] \in ReadRows
      BY <1>0, HandlerRows DEF Shapes
    <3>3. tabs[t].state \in Nat
      BY <3>2 DEF ReadRows
    <3> QED
      BY ONLY <1>6, <1>10, <3>1, <3>3, now = Now
  <2> QED
    BY <2>1, <2>2
<1> QED
  BY <1>13, <1>14, <1>15 DEF Preflights

-----------------------------------------------------------------------------
(***************************************************************************)
(* What is offered is in turn.                                             *)
(***************************************************************************)
LEMMA LifecycleInTurn ==
    ASSUME NEW state, NEW records, NEW action, action = LifecycleNext(state, records), action # "none"
    PROVE  LifecyclePrecedes(action, state)
<1> DEFINE did == Did(state)
           missing == {i \in DOMAIN RoleActions : RoleActions[i] \notin did}
           granted == Completed(records, "seller-kyc") # {}
           over == \/ ~Settled(records)
                   \/ Completed(records, "issue") # {}
                   \/ "issue" \in did
                   \/ granted # ("seller-kyc" \in did)
           least == CHOOSE i \in missing : \A j \in missing : i <= j
           roles == {RoleActions[i] : i \in DOMAIN RoleActions}
<1>1. action = IF over THEN "none"
               ELSE IF missing # {} THEN RoleActions[least]
               ELSE IF "register-issuer" \notin did THEN "register-issuer"
               ELSE IF granted THEN "issue" ELSE "seller-kyc"
  BY DEF LifecycleNext
<1>2. missing # {} => least \in missing
  <2>1. missing \in SUBSET Nat
    BY DEF RoleActions
  <2> HIDE DEF missing
  <2> QED
    BY <2>1, LeastPosition
<1>3. roles = {"issuer-role", "ssi-role", "kyc-role"}
  BY DEF RoleActions
<1>4. over \/ ("issue" \notin did /\ granted = ("seller-kyc" \in did))
  OBVIOUS
<1>5. missing = {} => roles \subseteq did
  OBVIOUS
<1>6. missing # {} => RoleActions[least] \notin did /\ RoleActions[least] \in roles
  BY <1>2
<1>7. "issue" \notin did /\ action \notin did
  <2> HIDE DEF did, missing, over, least, granted, roles
  <2> QED
    BY <1>1, <1>4, <1>6
<1>8. action \notin roles => roles \subseteq did
  <2> HIDE DEF did, missing, over, least, granted, roles
  <2> QED
    BY <1>1, <1>5, <1>6
<1>9. action \in {"seller-kyc", "issue"} => "register-issuer" \in did
  <2> HIDE DEF did, missing, over, least, granted, roles
  <2> QED
    BY <1>1, <1>3, <1>6
<1>10. action = "issue" => "seller-kyc" \in did
  <2> HIDE DEF did, missing, over, least, granted, roles
  <2> QED
    BY <1>1, <1>3, <1>4, <1>6
<1> QED
  BY <1>7, <1>8, <1>9, <1>10 DEF LifecyclePrecedes

LEMMA HoldInTurn ==
    ASSUME NEW state, NEW now, NEW records, NEW action, action = HoldNext(state, now, records),
           action # "none"
    PROVE  Did(state) = HoldBefore(action)
<1> DEFINE done == {i \in DOMAIN HoldActions : Completed(records, HoldActions[i]) # {}}
           n == Cardinality(done)
           conds ==
             /\ Settled(records)
             /\ done = 1..n /\ n < Len(HoldActions)
             /\ \A i \in done : Cardinality(Completed(records, HoldActions[i])) = 1
             /\ Once(state)
             /\ Did(state) = {HoldActions[i] : i \in done} \ HoldSimulations
             /\ HashOf("create-hold", state) = HoldHash(records)
             /\ now < HoldExpiry(records, now)
             /\ \A r \in Completed(records, "buyer-kyc") : intents[r.op].digest
<1>1. action = IF conds THEN HoldActions[n + 1] ELSE "none"
  BY DEF HoldNext
<1>2. Len(HoldActions) = 6 /\ DOMAIN HoldActions = 1..6
  BY DEF HoldActions
<1>3. n \in Nat
  <2>1. done \in SUBSET (1..6)
    BY <1>2
  <2>2. PICK six \in Nat : six = 6
    OBVIOUS
  <2>3. IsFiniteSet(1..six)
    BY ONLY six \in Nat, FS_Interval
  <2> HIDE DEF done
  <2> QED
    BY <2>1, <2>2, <2>3, FS_Subset, FS_CardinalityType
<1>4. conds => n < 6 /\ Did(state) = {HoldActions[i] : i \in 1..n} \ HoldSimulations
  BY <1>2
<1> HIDE DEF done, n, conds
<1>5. /\ action = HoldActions[n + 1] /\ n \in {0, 1, 2, 3, 4, 5}
      /\ Did(state) = {HoldActions[i] : i \in 1..n} \ HoldSimulations
  BY <1>1, <1>3, <1>4
<1>6. /\ HoldActions[1] = "create-hold" /\ HoldActions[2] = "kyc-negative" /\ HoldActions[3] = "buyer-kyc"
      /\ HoldActions[4] = "permission-negative" /\ HoldActions[5] = "execute" /\ HoldActions[6] = "release"
  BY DEF HoldActions
<1>7. \A k \in 1..6 : HoldActions[k] = action => k = n + 1
  BY <1>5, <1>6
<1>8. (CHOOSE k \in DOMAIN HoldActions : HoldActions[k] = action) = n + 1
  BY <1>2, <1>5, <1>7
<1>9. HoldBefore(action) = {HoldActions[k] : k \in 1..((n + 1) - 1)} \ HoldSimulations
  BY <1>8 DEF HoldBefore
<1>10. (n + 1) - 1 = n
  BY <1>3
<1> QED
  BY <1>5, <1>9, <1>10

LEMMA TradeOfferedTurn ==
    ASSUME NEW state, NEW now, NEW records, NEW action \in TradeOffered(state, now, records),
           action \notin TradeSimulations
    PROVE  /\ action \in {"deploy", "lock"} \cup TradeEnds
           /\ \A name \in {"deploy", "lock"} : TradeHash(records, name) = HashOf(name, state)
           /\ Did(state) \cap TradeEnds = {}
           /\ IF action \in {"deploy", "lock"} THEN Completed(records, "lock") = {}
              ELSE Completed(records, "lock") # {}
<1> DEFINE done == {Action(r.op) : r \in {q \in Members(records) : q.status = "complete"}}
           did == Did(state)
           over == \/ ~Settled(records)
                   \/ \E name \in done : Cardinality(Completed(records, name)) > 1
                   \/ done # {} /\ "deploy" \notin done
                   \/ "lock" \notin done /\ ~(done \subseteq {"deploy"})
                   \/ "settle" \in done /\ done \cap {"cancel", "reclaim"} # {}
                   \/ Unrecorded(state, records)
                   \/ done \cap TradeEnds # did \cap TradeEnds
           ended == done \cap TradeEnds # {}
           last == IF "settle" \in done /\ "duplicate-negative" \notin done
                   THEN "duplicate-negative" ELSE "complete"
           late == now >= TradeExpiry(records, now)
           next == TradeNext(state, now, records)
<1>1. next = IF over THEN "none"
             ELSE IF ended THEN last
             ELSE IF late THEN (IF "lock" \in done THEN "reclaim" ELSE "none")
             ELSE IF "deploy" \notin done THEN "deploy"
             ELSE IF "lock" \notin done THEN "lock"
             ELSE IF "purchase-negative" \notin done THEN "purchase-negative" ELSE "settle"
  BY DEF TradeNext
<1>2. /\ next \in {"reclaim", "deploy", "lock", "settle", "purchase-negative"} \/ next \in {"none", last}
      /\ \/ action = next /\ action \notin {"none", "complete"}
         \/ action = "cancel" /\ next \in {"purchase-negative", "settle"}
  <2>1. next \in {"reclaim", "deploy", "lock", "settle", "purchase-negative"} \/ next \in {"none", last}
    <3> HIDE DEF over, ended, late, last, next, done
    <3> QED
      BY <1>1
  <2>2. \/ action = next /\ action \notin {"none", "complete"}
        \/ action = "cancel" /\ next \in {"purchase-negative", "settle"}
    <3> HIDE DEF over, ended, late, last, done
    <3>1. action \in ({next} \ {"none", "complete"}) \cup IF next \in Cancellable THEN {"cancel"} ELSE {}
      BY DEF TradeOffered
    <3> HIDE DEF next
    <3> QED
      BY <3>1 DEF Cancellable
  <2> QED
    BY <2>1, <2>2
<1>3. last \in {"duplicate-negative", "complete"}
  OBVIOUS
<1>4. ~over /\ ~ended
  <2>1. action \notin {"duplicate-negative", "purchase-negative"}
    BY DEF TradeSimulations
  <2>2. next # "none" /\ next # last
    BY <1>2, <1>3, <2>1
  <2> HIDE DEF over, ended, late, last, next, done
  <2> QED
    BY <1>1, <2>2
<1>5. /\ \A name \in {"deploy", "lock"} : TradeHash(records, name) = HashOf(name, state)
      /\ did \cap TradeEnds = {} /\ (done # {} => "deploy" \in done)
  BY <1>4 DEF Unrecorded
<1>6. "lock" \in done <=> Completed(records, "lock") # {}
  BY DEF Completed
<1>7. /\ action \in {"deploy", "lock"} \cup TradeEnds
      /\ IF action \in {"deploy", "lock"} THEN "lock" \notin done ELSE "lock" \in done
  <2>1. action \notin {"duplicate-negative", "purchase-negative"}
    BY DEF TradeSimulations
  <2>2. next = "deploy" => "deploy" \notin done
    <3> HIDE DEF over, ended, late, last, next, done
    <3> QED
      BY <1>1, <1>4
  <2>3. next = "lock" => "lock" \notin done
    <3> HIDE DEF over, ended, late, last, next, done
    <3> QED
      BY <1>1, <1>4
  <2>4. next \in {"reclaim", "settle", "purchase-negative"} => "lock" \in done
    <3> HIDE DEF over, ended, late, last, next, done
    <3> QED
      BY <1>1, <1>4
  <2>5. next = "deploy" => "lock" \notin done
    <3>1. "lock" \in done => done # {}
      OBVIOUS
    <3> HIDE DEF over, ended, late, last, next, done
    <3> QED
      BY <1>5, <2>2, <3>1
  <2> HIDE DEF over, ended, late, last, next, done
  <2> QED
    BY <1>2, <1>3, <2>1, <2>3, <2>4, <2>5 DEF TradeEnds
<1> QED
  BY <1>5, <1>6, <1>7

-----------------------------------------------------------------------------
(***************************************************************************)
(* A new operation is ready for the state that the chain is in.            *)
(***************************************************************************)
RowSwap(row) == IF row.action = "lock" THEN row.hold ELSE intents[txs[row.hold].op].hold
RowReady(row) ==
    /\ row.state <= Now /\ Digest(row.state) = Digest(Now)
    /\ InT03 => LifecyclePrecedes(row.action, Now)
    /\ InT04 => Did(Now) = HoldBefore(row.action)
    /\ InT05 =>
          /\ row.action \in {"deploy", "lock"} \cup TradeEnds
          /\ IF row.action \in {"deploy", "lock"} THEN "lock" \notin Did(Now)
             ELSE /\ "lock" \in Did(Now) /\ Did(Now) \cap TradeEnds = {}
                  /\ row.hold \in HashOf("lock", Now)
          /\ row.action # "deploy" =>
                /\ SwapOpen(RowSwap(row), Now)
                /\ intents[txs[RowSwap(row)].op].expiry = row.expiry

LEMMA EndsNone ==
    ASSUME NEW state, Did(state) \cap TradeEnds = {}, NEW swap
    PROVE  EndsOf(swap, state) = {}
BY DEF EndsOf, Did

(* Every action has one hash.                                              *)
LEMMA HashOfOne ==
    ASSUME Shapes, Ledger, NEW action, NEW x \in HashOf(action, Now), NEW y \in HashOf(action, Now)
    PROVE  x = y
<1>1. PICK i \in 1..Now : x = chain[i] /\ TxAction(chain[i]) = action
  BY DEF HashOf
<1>2. PICK j \in 1..Now : y = chain[j] /\ TxAction(chain[j]) = action
  BY DEF HashOf
<1>3. i \in DOMAIN chain /\ j \in DOMAIN chain
  BY ChainTyped
<1>4. i = j
  BY <1>1, <1>2, <1>3 DEF Ledger
<1> QED
  BY <1>1, <1>2, <1>4

(* A completed record has the inputs of its transaction.                   *)
LEMMA CompletedCall ==
    ASSUME Shapes, Ledger, RecordsTrue, NEW action,
           TradeHash(journal, action) = HashOf(action, Now), NEW r \in Completed(journal, action)
    PROVE  /\ r.hash \in HashOf(action, Now)
           /\ intents[r.op].expiry = intents[txs[r.hash].op].expiry
<1>1. r \in Members(journal)
  BY DEF Completed
<1>2. r.hash \in HashOf(action, Now)
  BY DEF TradeHash
<1>3. r.hash \in DOMAIN txs
  BY <1>2, ChainTyped, HashOfTyped
<1>4. RecordTrue(r)
  BY <1>1 DEF RecordsTrue
<1>5. Call(r.op) = Call(txs[r.hash].op)
  BY <1>3, <1>4 DEF RecordTrue
<1> QED
  BY <1>2, <1>5 DEF Call

LEMMA TradeInTurn ==
    ASSUME Shapes, Ledger, RecordsTrue, MinedReady, InT05,
           NEW review, review.journal = journal, Founded(review),
           NEW now, review.action \in TradeOffered(Now, now, journal),
           review.action \notin TradeSimulations,
           NEW row, row.action = review.action, row.hold = review.hold, row.expiry = review.expiry
    PROVE  /\ row.action \in {"deploy", "lock"} \cup TradeEnds
           /\ IF row.action \in {"deploy", "lock"} THEN "lock" \notin Did(Now)
              ELSE /\ "lock" \in Did(Now) /\ Did(Now) \cap TradeEnds = {}
                   /\ row.hold \in HashOf("lock", Now)
           /\ row.action # "deploy" =>
                /\ SwapOpen(RowSwap(row), Now)
                /\ intents[txs[RowSwap(row)].op].expiry = row.expiry
<1> DEFINE deploys == Completed(journal, "deploy")
           locks == Completed(journal, "lock")
<1> PICK action : action = review.action
  OBVIOUS
<1>1. /\ action \in {"deploy", "lock"} \cup TradeEnds
      /\ TradeHash(journal, "deploy") = HashOf("deploy", Now)
      /\ TradeHash(journal, "lock") = HashOf("lock", Now)
      /\ Did(Now) \cap TradeEnds = {}
      /\ IF action \in {"deploy", "lock"} THEN locks = {} ELSE locks # {}
  BY TradeOfferedTurn
<1>2. "lock" \in Did(Now) <=> HashOf("lock", Now) # {}
  BY DEF Did, HashOf
<1>3. HashOf("lock", Now) # {} <=> locks # {}
  BY <1>1 DEF TradeHash
<1>4. /\ action = "lock" => \E r \in deploys : review.hold = r.hash
      /\ action \notin {"deploy", "lock"} => \E r \in locks : review.hold = r.hash
      /\ deploys \cup locks # {} =>
              \E r \in deploys \cup locks : review.expiry = intents[r.op].expiry
  BY DEF Founded
<1>5. \A r \in deploys : r.hash \in HashOf("deploy", Now)
                         /\ intents[r.op].expiry = intents[txs[r.hash].op].expiry
  BY <1>1, CompletedCall
<1>6. \A r \in locks : r.hash \in HashOf("lock", Now)
                         /\ intents[r.op].expiry = intents[txs[r.hash].op].expiry
  BY <1>1, CompletedCall
<1>7. CASE action = "deploy"
  BY <1>1, <1>2, <1>3, <1>7
<1>8. CASE action = "lock"
  <2>1. locks = {} /\ "lock" \notin Did(Now)
    BY <1>1, <1>2, <1>3, <1>8
  <2>2. review.hold \in HashOf("deploy", Now) /\ deploys # {}
    BY <1>4, <1>5, <1>8
  <2>3. PICK q \in deploys : review.expiry = intents[q.op].expiry
    BY <1>4, <2>1, <2>2
  <2>4. q.hash = review.hold
    BY <1>5, <2>2, HashOfOne
  <2>5. intents[txs[review.hold].op].expiry = review.expiry
    BY <1>5, <2>3, <2>4
  <2>6. RowSwap(row) = review.hold
    BY <1>8 DEF RowSwap
  <2>7. SwapOpen(review.hold, Now)
    BY <1>1, <2>2, EndsNone DEF SwapOpen
  <2> QED
    BY <1>8, <2>1, <2>5, <2>6, <2>7
<1>9. CASE action \notin {"deploy", "lock"}
  <2>1. locks # {} /\ "lock" \in Did(Now)
    BY <1>1, <1>2, <1>3, <1>9
  <2> PICK hold : hold = review.hold
    OBVIOUS
  <2>2. hold \in HashOf("lock", Now)
    BY <1>4, <1>6, <1>9
  <2>3. hold \in DOMAIN txs /\ Mined(hold) /\ TxAction(hold) = "lock"
    BY <2>2, ChainTyped, HashOfTyped
  <2> PICK op : op = txs[hold].op
    OBVIOUS
  <2> PICK s \in Nat : s = txs[hold].state
    BY <2>3, TxTyped
  <2>4. s <= Now /\ TradeBefore(op, s) /\ Action(op) = "lock"
    BY <2>3 DEF MinedReady, Ready, TxAction
  <2> PICK swap : swap = SwapOf(op)
    OBVIOUS
  <2>5. SwapOpen(swap, s) /\ intents[txs[swap].op].expiry = intents[op].expiry
    BY <2>4 DEF TradeBefore
  <2>6. swap = intents[op].hold
    BY <2>4 DEF SwapOf
  <2>7. RowSwap(row) = swap
    BY <1>9, <2>6 DEF RowSwap
  <2>8. swap \in HashOf("deploy", Now)
    <3>1. PICK i \in 1..s : chain[i] = swap /\ TxAction(chain[i]) = "deploy"
      BY <2>5 DEF SwapOpen, HashOf
    <3>2. i \in 1..Now
      BY <2>4, ChainTyped
    <3> QED
      BY <3>1, <3>2 DEF HashOf
  <2>9. SwapOpen(swap, Now)
    BY <1>1, <2>8, EndsNone DEF SwapOpen
  <2>10. intents[txs[swap].op].expiry = review.expiry
    <3>1. PICK q \in deploys \cup locks : review.expiry = intents[q.op].expiry
      BY <1>4, <2>1
    <3>2. CASE q \in locks
      <4>1. q.hash = hold
        BY <1>6, <2>2, <3>2, HashOfOne
      <4> QED
        BY <1>6, <2>5, <3>1, <3>2, <4>1
    <3>3. CASE q \in deploys
      <4>1. q.hash = swap
        BY <1>5, <2>8, <3>3, HashOfOne
      <4> QED
        BY <1>5, <3>1, <3>3, <4>1
    <3> QED
      BY <3>2, <3>3
  <2> QED
    BY <1>1, <1>9, <2>1, <2>2, <2>7, <2>9, <2>10
<1> QED
  BY <1>7, <1>8, <1>9

LEMMA AsksReady ==
    ASSUME JournalInv, TabsAssumption, JournalAssumption, Preflights, NEW t \in Tabs,
           tabs[t].step \in {"running", "probed"}, Settled(journal),
           NEW row \in IntentRows, row.action \notin Did(Now), RowReady(row),
           intents' = Append(intents, row),
           NEW op, op = Len(intents) + 1, NEW c, c.step \in {"intended", "asked"}, c.op = op,
           Goto(t, c), UNCHANGED <<fixed, lock, reviews, orphans, ledger>>
    PROVE  Preflights'
<1>0. Shapes /\ Ledger /\ PagesTrue /\ MinedReady /\ Now \in Nat
  BY ChainTyped DEF JournalInv, Preflights
<1>1. /\ Exposed' = {op} /\ op \notin Ops /\ op \in Ops'
      /\ intents'[op] = row /\ Grows /\ tabs'[t] = c
  BY AskedNew
<1>2. txs' = txs /\ chain' = chain /\ Now' = Now /\ milestone' = milestone
  BY DEF ledger, fixed, Now
<1>3. Extended
  BY <1>0, <1>1, <1>2 DEF Extended
<1> PICK now : now = Now
  OBVIOUS
<1>4. now \in Nat /\ now <= Now /\ row.state \in Int
  BY <1>0 DEF IntentRows
<1>5. Did(now)' = Did(now) /\ Digest(now)' = Digest(now) /\ \A a : HashOf(a, now)' = HashOf(a, now)
  BY <1>0, <1>3, <1>4, PastStays
<1>6. Action(op)' = row.action
  BY <1>1 DEF Action
<1>7. (InT03' <=> InT03) /\ (InT04' <=> InT04) /\ (InT05' <=> InT05)
  BY <1>2 DEF InT03, InT04, InT05
<1>8. Fresh(op, now)'
  <2> PICK k : k = row.state
    OBVIOUS
  <2>1. CASE k >= 0
    <3>1. k \in Nat /\ k <= Now /\ Digest(k) = Digest(now)
      BY <1>4, <2>1 DEF RowReady
    <3>2. Digest(k)' = Digest(k)
      BY <1>0, <1>3, <3>1, PastStays
    <3>3. intents'[op].state = k
      BY <1>1
    <3>4. Digest(intents[op].state)' = Digest(k)'
      BY <3>3 DEF Digest, TxAction, Action
    <3> QED
      BY <1>2, <1>5, <3>1, <3>2, <3>3, <3>4 DEF Fresh
  <2>2. CASE ~(k >= 0)
    BY <1>1, <2>2 DEF Fresh
  <2> QED
    BY <2>1, <2>2
<1>9. ASSUME InT03 PROVE LifecyclePrecedes(Action(op), now)'
  <2>1. LifecyclePrecedes(row.action, now)
    BY <1>9 DEF RowReady
  <2> QED
    BY <1>5, <1>6, <2>1 DEF LifecyclePrecedes
<1>10. ASSUME InT04 PROVE (Did(now) = HoldBefore(Action(op)))'
  <2>1. Did(now) = HoldBefore(row.action)
    BY <1>10 DEF RowReady
  <2>2. HoldBefore(Action(op))' = HoldBefore(row.action)
    BY <1>6 DEF HoldBefore
  <2> QED
    BY <1>5, <2>1, <2>2
<1>11. ASSUME InT05 PROVE TradeBefore(op, now)'
  <2>1. /\ row.action \in {"deploy", "lock"} \cup TradeEnds
        /\ IF row.action \in {"deploy", "lock"} THEN "lock" \notin Did(now)
           ELSE /\ "lock" \in Did(now) /\ Did(now) \cap TradeEnds = {}
                /\ row.hold \in HashOf("lock", now)
        /\ row.action # "deploy" =>
              /\ SwapOpen(RowSwap(row), now)
              /\ intents[txs[RowSwap(row)].op].expiry = row.expiry
    BY <1>11 DEF RowReady
  <2>2. (Action(op) \in {"deploy", "lock"} \cup TradeEnds)'
    BY <1>6, <2>1 DEF TradeEnds
  <2>3. (IF Action(op) \in {"deploy", "lock"} THEN "lock" \notin Did(now)
         ELSE /\ "lock" \in Did(now) /\ Did(now) \cap TradeEnds = {}
              /\ intents[op].hold \in HashOf("lock", now))'
    BY <1>1, <1>5, <1>6, <2>1
  <2>4. CASE row.action = "deploy"
    BY <1>6, <2>2, <2>3, <2>4 DEF TradeBefore
  <2>5. CASE row.action # "deploy"
    <3> PICK swap : swap = RowSwap(row)
      OBVIOUS
    <3>1. SwapOpen(swap, now) /\ intents[txs[swap].op].expiry = row.expiry
      BY <2>1, <2>5
    <3>2. SwapOf(op)' = swap
      <4>1. CASE row.action = "lock"
        BY <1>1, <1>6, <4>1 DEF SwapOf, RowSwap
      <4>2. CASE row.action # "lock"
        <5> PICK h : h = row.hold
          OBVIOUS
        <5>1. h \in DOMAIN txs
          BY <1>0, <1>4, <2>1, <2>5, <4>2, HashOfTyped
        <5>2. txs'[h] = txs[h] /\ txs[h].op \in Ops
          BY <1>0, <1>2, <5>1 DEF Ledger
        <5>3. intents'[txs[h].op] = intents[txs[h].op]
          BY <1>1, <5>2 DEF Grows
        <5>4. SwapOf(op)' = intents'[txs'[intents'[op].hold].op].hold
          BY <1>6, <4>2 DEF SwapOf
        <5> QED
          BY <1>1, <4>2, <5>2, <5>3, <5>4 DEF RowSwap
      <4> QED
        BY <4>1, <4>2
    <3>3. SwapOpen(swap, now)'
      BY <1>0, <1>3, <1>4, <1>11, <3>1, EndsStay
    <3>4. swap \in DOMAIN txs
      BY <1>0, <1>4, <3>1, HashOfTyped DEF SwapOpen
    <3>5. txs'[swap] = txs[swap] /\ txs[swap].op \in Ops
      BY <1>0, <1>2, <3>4 DEF Ledger
    <3>6. intents'[txs'[swap].op].expiry = intents'[op].expiry
      BY <1>1, <3>1, <3>5 DEF Grows
    <3>7. SwapOpen(SwapOf(op), now)'
      BY <3>2, <3>3 DEF SwapOpen
    <3> QED
      BY <2>2, <2>3, <3>2, <3>6, <3>7 DEF TradeBefore
  <2> QED
    BY <2>4, <2>5
<1>12. Ready(op, now)'
  BY <1>7, <1>8, <1>9, <1>10, <1>11 DEF Ready
<1>13. ExposedReady'
  <2>1. Ready(op, Now)'
    BY <1>2, <1>12 DEF Ready, Fresh, LifecyclePrecedes, TradeBefore
  <2> QED
    BY <1>1, <2>1 DEF ExposedReady
<1>14. MinedReady'
  BY <1>0, <1>2, <1>3, MinedStaysReady DEF MinedReady, Mined
<1>15. ASSUME NEW u \in Tabs PROVE PastRead(u)' /\ PastReview(u)'
  <2>1. reviews' = reviews
    OBVIOUS
  <2>2. PastReview(u)'
    BY <1>0, <1>3, <2>1, PastReviewStays DEF Preflights, PagesTrue
  <2>3. tabs' = [tabs EXCEPT ![t] = c]
    BY DEF Goto
  <2>4. tabs'[u].step = "read" => tabs'[u] = tabs[u]
    BY <1>0, <2>3 DEF Shapes
  <2>5. PastRead(u)'
    BY <1>2, <2>4 DEF Preflights, PastRead
  <2> QED
    BY <2>2, <2>5
<1> QED
  BY <1>13, <1>14, <1>15 DEF Preflights

LEMMA PublishesReady ==
    ASSUME JournalInv, TabsAssumption, JournalAssumption, Preflights, NEW t \in Tabs,
           tabs[t].step \in {"running", "probed"}, Settled(journal),
           NEW row \in IntentRows, row.action \notin Did(Now), RowReady(row),
           intents' = Append(intents, row),
           NEW op, op = Len(intents) + 1, NEW step \in {"intended", "asked"},
           Publish(t, Record(op, "awaiting-signature", NoHash), [step |-> step, op |-> op, records |-> <<>>]),
           UNCHANGED <<fixed, lock, reviews, orphans, ledger>>
    PROVE  Preflights'
<1> PICK records : records = Put(tabs[t].records, Record(op, "awaiting-signature", NoHash))
  OBVIOUS
<1> PICK c : c = [[step |-> step, op |-> op, records |-> <<>>] EXCEPT !.records = records]
  OBVIOUS
<1>1. c.step = step /\ c.op = op
  OBVIOUS
<1>2. Goto(t, c)
  BY DEF Publish
<1> QED
  BY <1>1, <1>2, AsksReady

(* What a page that asks was shown: the state then had the same digest.    *)
LEMMA ReviewPast ==
    ASSUME JournalInv, TabsAssumption, Preflights, NEW t \in Tabs,
           tabs[t].step \in {"running", "probed", "simulating"}
    PROVE  reviews[t].state \in Nat /\ reviews[t].state <= Now /\ (InT05 => Founded(reviews[t]))
<1>1. reviews[t].state \in Nat /\ reviews[t] # NoReview
  BY ReviewRead DEF RunTrue
<1> QED
  BY <1>1 DEF Preflights, PastReview

LEMMA LifecycleAsksReady ==
    ASSUME JournalInv, TabsAssumption, JournalAssumption, Preflights, NEW t \in Tabs, LifecycleAsks(t)
    PROVE  Preflights'
<1>1. InT03 /\ tabs[t].step = "probed" /\ ~InT04 /\ ~InT05
  BY DEF LifecycleAsks, InT03, InT04, InT05
<1>2. /\ reviews[t] \in ReviewRows /\ reviews[t].action \in AllActions /\ reviews[t].state \in Nat
      /\ tabs[t].records = journal
  BY <1>1, ReviewRead
<1>3. PICK action : action = reviews[t].action
  OBVIOUS
<1>4. action \in AllActions /\ action # "none"
  BY <1>2, <1>3, NoneNamed
<1>5. Settled(journal) /\ action \notin Did(Now) /\ LifecyclePrecedes(action, Now)
  <2>1. action = LifecycleNext(Now, journal)
    BY <1>2, <1>3 DEF LifecycleAsks, LifecycleIsCurrent
  <2> QED
    BY <1>4, <2>1, LifecycleNextNew, LifecycleInTurn
<1> DEFINE row == LifecycleIntent(reviews[t])
<1>6. row \in IntentRows /\ row.action = action /\ row.state = reviews[t].state
  BY <1>2, <1>3, <1>4 DEF LifecycleIntent, Intent, IntentRows, Hashes, NoHash
<1>7. intents' = Append(intents, row) /\ Len(intents') = Len(intents) + 1
  <2>1. intents \in Seq(IntentRows) /\ intents' = Append(intents, row)
    BY DEF LifecycleAsks, JournalInv, Shapes
  <2> HIDE DEF row
  <2>2. Len(intents') = Len(intents) + 1
    BY ONLY <1>6, <2>1, AppendElements
  <2> QED
    BY <2>1, <2>2
<1> HIDE DEF row
<1>8. RowReady(row)
  <2>1. Digest(Now) = Digest(reviews[t].state)
    BY DEF LifecycleAsks, LifecycleIsCurrent
  <2> QED
    BY <1>1, <1>5, <1>6, <2>1, ReviewPast DEF RowReady
<1> QED
  BY <1>1, <1>5, <1>6, <1>7, <1>8, PublishesReady DEF LifecycleAsks, Asks

LEMMA HoldAsksReady ==
    ASSUME JournalInv, TabsAssumption, JournalAssumption, Preflights, NEW t \in Tabs, HoldAsks(t)
    PROVE  Preflights'
<1>1. InT04 /\ tabs[t].step = "probed" /\ ~InT03 /\ ~InT05
  BY DEF HoldAsks, InT03, InT04, InT05
<1>2. /\ reviews[t].action \in AllActions
      /\ Intent(reviews[t].action, reviews[t].hold, reviews[t].expiry, reviews[t].state, TRUE) \in IntentRows
  BY <1>1, ReviewRead
<1>3. PICK action : action = reviews[t].action
  OBVIOUS
<1>4. action # "none"
  BY <1>2, <1>3, NoneNamed
<1>5. action = HoldNext(Now, time, journal) /\ Digest(Now) = Digest(reviews[t].state)
  BY <1>3 DEF HoldAsks, HoldIsCurrent
<1>6. Settled(journal) /\ action \notin Did(Now) /\ Did(Now) = HoldBefore(action)
  BY <1>4, <1>5, HoldNextNew, HoldInTurn
<1> DEFINE row == HoldIntent(reviews[t])
<1>8. row \in IntentRows /\ row.action = action /\ row.state = reviews[t].state
  BY <1>2, <1>3 DEF HoldIntent, Intent
<1>9. intents' = Append(intents, row) /\ Len(intents') = Len(intents) + 1
  <2>1. intents \in Seq(IntentRows) /\ intents' = Append(intents, row)
    BY DEF HoldAsks, JournalInv, Shapes
  <2> HIDE DEF row
  <2>2. Len(intents') = Len(intents) + 1
    BY ONLY <1>8, <2>1, AppendElements
  <2> QED
    BY <2>1, <2>2
<1> HIDE DEF row
<1>10. RowReady(row)
  BY <1>1, <1>5, <1>6, <1>8, ReviewPast DEF RowReady
<1> QED
  BY <1>1, <1>6, <1>8, <1>9, <1>10, PublishesReady DEF HoldAsks, Asks

LEMMA TradeIntendsReady ==
    ASSUME JournalInv, TabsAssumption, JournalAssumption, Preflights, NEW t \in Tabs, TradeIntends(t)
    PROVE  Preflights'
<1>1. InT05 /\ tabs[t].step = "running" /\ ~InT03 /\ ~InT04
  BY DEF TradeIntends, InT03, InT04, InT05
<1>2. Intent(reviews[t].action, reviews[t].hold, reviews[t].expiry, reviews[t].state, TRUE) \in IntentRows
  BY <1>1, ReviewRead
<1> PICK review : review = reviews[t]
  OBVIOUS
<1>3. /\ review.action \in TradeOffered(Now, time, journal) /\ review.action \notin TradeSimulations
      /\ review.journal = journal /\ Digest(Now) = Digest(review.state)
  BY DEF TradeIntends, TradeIsCurrent
<1>4. Settled(journal) /\ review.action \notin Did(Now)
  BY <1>3, TradeOfferedNew
<1> DEFINE row == TradeIntent(reviews[t])
<1>5. /\ row \in IntentRows /\ row.action = review.action /\ row.hold = review.hold
      /\ row.expiry = review.expiry /\ row.state = review.state
  BY <1>2 DEF TradeIntent, Intent
<1>6. intents' = Append(intents, row)
  BY DEF TradeIntends
<1> HIDE DEF row
<1>7. review.state <= Now /\ Founded(review)
  BY <1>1, ReviewPast
<1>8. Shapes /\ Ledger /\ RecordsTrue /\ MinedReady
  BY DEF JournalInv, JournalTrue, Preflights
<1>9. RowReady(row)
  BY <1>1, <1>3, <1>5, <1>7, <1>8, TradeInTurn DEF RowReady
<1> QED
  BY <1>1, <1>4, <1>5, <1>6, <1>9, PublishesReady DEF TradeIntends

-----------------------------------------------------------------------------
LEMMA PreflightsPage ==
    ASSUME JournalInv, JournalInv', TabsAssumption, JournalAssumption, Preflights, NEW t \in Tabs, Page(t)
    PROVE  Preflights'
<1>1. ASSUME \E c : Moves(t, c) PROVE Preflights'
  BY <1>1, MovesKeeps
<1>2. CASE Submits(t)
  BY <1>1, <1>2, SubmitsMove, LifecycleAsksReady, HoldAsksReady, TradeIntendsReady
<1>3. CASE Answers(t)
  BY <1>1, <1>3, AnswersMove, SendsKeep
<1>4. CASE Queries(t)
  BY <1>1, <1>4, QueriesMove
<1>5. CASE Recovers(t)
  BY <1>1, <1>5, RecoversMove
<1>6. CASE Reviews(t)
  <2>1. CASE tabs[t].step # "read"
    BY <1>1, <1>6, <2>1, ReviewsMove
  <2>2. CASE tabs[t].step = "read"
    <3>0. tabs[t] # Idle
      BY <2>2 DEF Idle
    <3>1. LifecycleOffers(t) \/ HoldOffers(t) \/ TradeOffers(t)
      BY <1>6, <2>2, <3>0 DEF Reviews, LifecycleReview, HoldReview, TradeReview, LifecycleRechecks,
           HoldRechecks, TradeRechecks, ReadsState
    <3> QED
      BY <1>1, <3>1, OffersReview
  <2> QED
    BY <2>1, <2>2
<1>7. CASE Restores(t)
  <2>1. CASE \E c : Moves(t, c)
    BY <1>1, <2>1
  <2>2. CASE \E e \in exports : TradeRestores(t, e)
    <3>1. UNCHANGED <<fixed, intents, pages, orphans, txs, chain>>
      BY <2>2 DEF TradeRestores, ledger
    <3> QED
      BY <3>1, WaitsReady
  <2> QED
    BY <1>7, <2>1, <2>2, RestoresMove
<1>8. CASE Fails(t) \/ Close(t)
  <2>1. Shapes
    BY DEF JournalInv
  <2> QED
    BY <1>1, <1>8, <2>1, EndsPageMoves
<1> QED
  BY <1>2, <1>3, <1>4, <1>5, <1>6, <1>7, <1>8 DEF Page

LEMMA PreflightsNext ==
    ASSUME JournalInv, JournalInv', TabsAssumption, JournalAssumption, Preflights, [Next]_vars
    PROVE  Preflights'
<1>1. ASSUME NEW t \in Tabs, Page(t) PROVE Preflights'
  BY <1>1, PreflightsPage
<1>2. CASE Tick \/ UNCHANGED vars
  <2>1. UNCHANGED <<fixed, intents, pages, orphans, txs, chain>>
    BY <1>2 DEF Tick, vars, fixed, pages
  <2> QED
    BY <2>1, WaitsReady
<1>3. CASE \E op \in orphans : OrphanSends(op)
  BY <1>3, SendsKeep
<1> QED
  BY <1>1, <1>2, <1>3, MineReady DEF Next

-----------------------------------------------------------------------------
(* In no state that the chain was in was an action done twice.             *)
LEMMA OnceAlways ==
    ASSUME Shapes, Ledger, NEW n \in Nat, n <= Now
    PROVE  Once(n)
<1>1. \A i \in 1..n : i \in DOMAIN chain
  BY ChainTyped
<1> DEFINE f == [i \in 1..n |-> TxAction(chain[i])]
<1>2. Did(n) = {f[i] : i \in 1..n}
  BY DEF Did
<1>3. \A i, j \in 1..n : f[i] = f[j] => i = j
  BY <1>1 DEF Ledger
<1>4. IsFiniteSet(1..n) /\ Cardinality(1..n) = n
  <2>1. 1 \in Int /\ n \in Int
    OBVIOUS
  <2>2. IsFiniteSet(1..n) /\ Cardinality(1..n) = IF 1 > n THEN 0 ELSE n - 1 + 1
    BY ONLY <2>1, FS_Interval
  <2> QED
    BY <2>2
<1> PICK D : D = Did(n)
  OBVIOUS
<1>5. f \in Bijection(1..n, D)
  <2>0. f \in [1..n -> D] /\ \A y \in D : \E i \in 1..n : f[i] = y
    BY <1>2
  <2> HIDE DEF f
  <2> QED
    BY <2>0, <1>3 DEF Bijection, Injection, Surjection, IsInjective
<1>6. Cardinality(D) = n
  BY <1>4, <1>5, FS_Bijection DEF ExistsBijection
<1> QED
  BY <1>6 DEF Once

LEMMA ReadyRecoverable ==
    ASSUME JournalInv, Preflights
    PROVE  Recoverable
<1>0. Shapes /\ Ledger /\ RecordsTrue /\ MinedReady /\ ~InT02
  BY DEF JournalInv, JournalTrue, Preflights
<1> SUFFICES ASSUME NEW r \in Members(journal), NEW h \in DOMAIN txs,
                    txs[h].op = r.op, Mined(h), ~Resolved(r), r.hash \notin WrongHashes
             PROVE  /\ r.hash \in {NoHash, h}
                    /\ IsFor(r.op, h)
                    /\ CASE InT02 -> TRUE
                         [] InT03 -> txs[h].status = "ok" => LifecyclePrecedes(TxAction(h), txs[h].state)
                         [] InT04 -> txs[h].status = "ok" /\ txs[h].time < intents[r.op].expiry
                                        => HoldPrecedes(h)
                         [] InT05 -> TradePrecedes(h) /\ SwapPrecedes(h)
  BY DEF Recoverable
<1> PICK op : op = txs[h].op
  OBVIOUS
<1> PICK s \in Nat : s = txs[h].state
  BY <1>0, TxTyped
<1>1. op \in Ops /\ s <= Now /\ Ready(op, s) /\ InTime(h) /\ TxAction(h) = Action(op)
  BY <1>0 DEF Ledger, MinedReady, TxAction
<1>2. r.hash \in {NoHash, h}
  BY <1>0 DEF RecordsTrue, RecordTrue, Own
<1>3. IsFor(r.op, h)
  BY <1>1 DEF IsFor, Ready, Fresh
<1>4. ASSUME InT03 PROVE LifecyclePrecedes(TxAction(h), txs[h].state)
  BY <1>1, <1>4 DEF Ready
<1>5. ASSUME InT04, txs[h].time < intents[r.op].expiry PROVE HoldPrecedes(h)
  <2>1. Did(s) = HoldBefore(TxAction(h)) /\ Once(s)
    BY <1>0, <1>1, <1>5, OnceAlways DEF Ready
  <2> QED
    BY <1>5, <2>1 DEF HoldPrecedes, HoldBefore
<1>6. ASSUME InT05 PROVE TradePrecedes(h) /\ SwapPrecedes(h)
  <2>1. TradeBefore(op, s)
    BY <1>1, <1>6 DEF Ready
  <2>2. TradePrecedes(h)
    <3>1. IF TxAction(h) \in {"deploy", "lock"} THEN "lock" \notin Did(s)
          ELSE "lock" \in Did(s) /\ Did(s) \cap TradeEnds = {}
      BY <1>1, <2>1 DEF TradeBefore
    <3> QED
      BY <1>1, <1>6, <3>1 DEF TradePrecedes, InTime
  <2>3. SwapPrecedes(h)
    BY <1>1, <2>1 DEF TradeBefore, SwapPrecedes
  <2> QED
    BY <2>2, <2>3
<1>7. InT03 \/ InT04 \/ InT05
  BY <1>0 DEF Shapes, InT02, InT03, InT04, InT05
<1>8. CASE InT03
  <2>1. ~InT02 /\ ~InT04 /\ ~InT05
    BY <1>8 DEF InT02, InT03, InT04, InT05
  <2> QED
    BY <1>2, <1>3, <1>4, <1>8, <2>1
<1>9. CASE InT04
  <2>1. ~InT02 /\ ~InT03 /\ ~InT05
    BY <1>9 DEF InT02, InT03, InT04, InT05
  <2> QED
    BY <1>2, <1>3, <1>5, <1>9, <2>1
<1>10. CASE InT05
  <2>1. ~InT02 /\ ~InT03 /\ ~InT04
    BY <1>10 DEF InT02, InT03, InT04, InT05
  <2> QED
    BY <1>2, <1>3, <1>6, <1>10, <2>1
<1> QED
  BY <1>7, <1>8, <1>9, <1>10

LEMMA CreationRecoverable ==
    ASSUME CreationInv
    PROVE  Recoverable
<1>0. Ledger /\ InT02 /\ NovaJournal
  BY DEF CreationInv
<1> SUFFICES ASSUME NEW r \in Members(journal), NEW h \in DOMAIN txs, txs[h].op = r.op
             PROVE  r.hash \in {NoHash, h} /\ IsFor(r.op, h)
  <2>1. ~InT03 /\ ~InT04 /\ ~InT05
    BY <1>0 DEF InT02, InT03, InT04, InT05
  <2> QED
    BY <1>0, <2>1 DEF Recoverable
<1>1. r.hash \in {NoHash, h}
  BY <1>0, NovaSendsOnce DEF NovaJournal, NovaTrue
<1>2. intents[r.op].state = -1
  BY <1>0 DEF NovaJournal, NovaTrue
<1>3. IsFor(r.op, h)
  BY <1>2 DEF IsFor
<1> QED
  BY <1>1, <1>3

-----------------------------------------------------------------------------
(***************************************************************************)
(* A start was ready too.                                                  *)
(***************************************************************************)
(* In front of a transaction, the milestone's steps before it were done.   *)
LEMMA StartBefore ==
    ASSUME NEW m, NEW done \in Nat, Begun(m, done), NEW h \in DOMAIN txs
    PROVE  LET i == txs[h].op
           IN  /\ i \in 1..done /\ Path(m)[i] \notin Simulations /\ TxAction(h) = Path(m)[i]
               /\ h - 1 \in Nat /\ h - 1 <= Now /\ Sends(m, i) = h /\ Sends(m, i - 1) = h - 1
               /\ Did(h - 1) = {Path(m)[j] : j \in 1..(i - 1)} \ Simulations
<1> PICK i : i = txs[h].op
  OBVIOUS
<1>1. /\ Ops = 1..done /\ DOMAIN txs = 1..Sends(m, done) /\ DOMAIN chain = 1..Sends(m, done)
      /\ Sends(m, done) \in Nat
      /\ \A j \in 1..done : Action(j) = Path(m)[j]
      /\ \A k \in DOMAIN txs : txs[k].op \in 1..done /\ PastHash(m, txs[k].op) = k /\ chain[k] = k
  BY DEF Begun
<1>2. /\ \A j \in 1..done : PastHash(m, j) = NoHash <=> Path(m)[j] \in Simulations
      /\ \A j, k \in 1..done : PastHash(m, j) = PastHash(m, k) /\ PastHash(m, j) # NoHash => j = k
  BY PastHashes
<1>3. \A k \in Nat : Sends(m, k) \in Nat
  BY SendsCounts
<1>4. i \in 1..done /\ PastHash(m, i) = h /\ h \in 1..Sends(m, done) /\ h # NoHash
  BY <1>1 DEF NoHash
<1>5. Path(m)[i] \notin Simulations /\ TxAction(h) = Path(m)[i]
  BY <1>1, <1>2, <1>4 DEF TxAction
<1>6. i - 1 \in Nat /\ (i - 1) + 1 = i /\ i \in Nat
  BY <1>4
<1>7. Sends(m, i) = h /\ Sends(m, i - 1) = h - 1 /\ h - 1 \in Nat
  <2>1. Sends(m, (i - 1) + 1) = Sends(m, i - 1) + 1
    BY <1>5, <1>6, SendsCounts
  <2>2. Sends(m, i) = h
    BY <1>4, <1>5 DEF PastHash
  <2>3. Sends(m, i) = Sends(m, i - 1) + 1
    BY <1>6, <2>1
  <2>4. Sends(m, i - 1) \in Nat
    BY <1>3, <1>6
  <2> QED
    BY <2>2, <2>3, <2>4
<1>8. h - 1 <= Now
  <2>1. Now = Sends(m, done)
    <3>1. Len(chain) \in Nat /\ DOMAIN chain = 1..Len(chain)
      BY DEF Begun
    <3> QED
      BY <1>1, <3>1 DEF Now
  <2> QED
    BY <1>1, <1>4, <2>1
<1>9. Did(h - 1) = {Path(m)[txs[k].op] : k \in 1..(h - 1)}
  <2>1. \A k \in 1..(h - 1) : k \in DOMAIN txs
    BY <1>1, <1>4, <1>7
  <2>2. \A k \in 1..(h - 1) : TxAction(chain[k]) = Path(m)[txs[k].op]
    BY <1>1, <2>1 DEF TxAction
  <2> QED
    BY <2>2 DEF Did
<1>10. ASSUME NEW k \in 1..(h - 1)
       PROVE  txs[k].op \in 1..(i - 1) /\ Path(m)[txs[k].op] \notin Simulations
  <2> PICK j : j = txs[k].op
    OBVIOUS
  <2>1. k \in DOMAIN txs /\ k # NoHash /\ k < h
    BY <1>1, <1>4, <1>7 DEF NoHash
  <2>2. j \in 1..done /\ PastHash(m, j) = k
    BY <1>1, <2>1
  <2>3. Path(m)[j] \notin Simulations
    BY <1>2, <2>1, <2>2
  <2>4. Sends(m, j) = k
    BY <2>2, <2>3 DEF PastHash
  <2>5. ~(i <= j)
    <3> SUFFICES ASSUME i <= j PROVE FALSE
      OBVIOUS
    <3>1. i \in 0..j /\ j \in Nat
      BY <1>4, <2>2
    <3>2. Sends(m, i) <= Sends(m, j)
      BY <3>1, SendsCounts
    <3>3. h \in Nat /\ k \in Nat
      BY <1>4
    <3> QED
      BY ONLY <1>7, <2>1, <2>4, <3>2, <3>3
  <2> QED
    BY <1>4, <2>2, <2>3, <2>5
<1>11. ASSUME NEW j \in 1..(i - 1), Path(m)[j] \notin Simulations
       PROVE  \E k \in 1..(h - 1) : txs[k].op = j
  <2> PICK k : k = Sends(m, j)
    OBVIOUS
  <2>1. j \in 1..done /\ j \in 0..(i - 1)
    BY <1>4
  <2>2. PastHash(m, j) = k /\ k # NoHash /\ k \in Nat
    BY <1>2, <1>3, <1>11, <2>1 DEF PastHash
  <2>3. k <= Sends(m, i - 1)
    BY <1>6, <2>1, SendsCounts
  <2>4. k \in 1..(h - 1)
    BY <1>7, <2>2, <2>3 DEF NoHash
  <2>5. k \in DOMAIN txs
    BY <1>1, <1>4, <1>7, <2>4
  <2>6. txs[k].op = j
    BY <1>1, <1>2, <2>1, <2>2, <2>5
  <2> QED
    BY <2>4, <2>6
<1>12. Did(h - 1) = {Path(m)[j] : j \in 1..(i - 1)} \ Simulations
  BY <1>9, <1>10, <1>11
<1> QED
  BY <1>4, <1>5, <1>7, <1>8, <1>12

(* The three milestones' orders.                                           *)
LEMMA LifecyclePath ==
    ASSUME NEW i \in 1..6, NEW state,
           Did(state) = {LifecycleActions[j] : j \in 1..(i - 1)}
    PROVE  LifecyclePrecedes(LifecycleActions[i], state)
<1>1. /\ LifecycleActions[1] = "issuer-role" /\ LifecycleActions[2] = "ssi-role"
      /\ LifecycleActions[3] = "kyc-role" /\ LifecycleActions[4] = "register-issuer"
      /\ LifecycleActions[5] = "seller-kyc" /\ LifecycleActions[6] = "issue"
  BY DEF LifecycleActions, RoleActions
<1>2. {RoleActions[k] : k \in DOMAIN RoleActions} = {"issuer-role", "ssi-role", "kyc-role"}
  BY DEF RoleActions
<1>3. i \in {1, 2, 3, 4, 5, 6}
  OBVIOUS
<1>4. "issue" \notin Did(state) /\ LifecycleActions[i] \notin Did(state)
  BY <1>1, <1>3
<1>5. i >= 4 => {"issuer-role", "ssi-role", "kyc-role"} \subseteq Did(state)
  <2> SUFFICES ASSUME i >= 4 PROVE {"issuer-role", "ssi-role", "kyc-role"} \subseteq Did(state)
    OBVIOUS
  <2>1. 1 \in 1..(i - 1) /\ 2 \in 1..(i - 1) /\ 3 \in 1..(i - 1)
    OBVIOUS
  <2> QED
    BY <1>1, <2>1
<1>6. i >= 5 => "register-issuer" \in Did(state)
  <2> SUFFICES ASSUME i >= 5 PROVE "register-issuer" \in Did(state)
    OBVIOUS
  <2>1. 4 \in 1..(i - 1)
    OBVIOUS
  <2> QED
    BY <1>1, <2>1
<1>7. i = 6 => "seller-kyc" \in Did(state)
  <2> SUFFICES ASSUME i = 6 PROVE "seller-kyc" \in Did(state)
    OBVIOUS
  <2>1. 5 \in 1..(i - 1)
    OBVIOUS
  <2> QED
    BY <1>1, <2>1
<1>8. /\ LifecycleActions[i] \notin {"issuer-role", "ssi-role", "kyc-role"} => i >= 4
      /\ LifecycleActions[i] \in {"seller-kyc", "issue"} => i >= 5
      /\ LifecycleActions[i] = "issue" => i = 6
  BY <1>1, <1>3
<1> QED
  BY <1>2, <1>4, <1>5, <1>6, <1>7, <1>8 DEF LifecyclePrecedes

LEMMA HoldPath ==
    ASSUME NEW i \in 1..6
    PROVE  HoldBefore(HoldActions[i]) = {HoldActions[j] : j \in 1..(i - 1)} \ HoldSimulations
<1>1. /\ HoldActions[1] = "create-hold" /\ HoldActions[2] = "kyc-negative" /\ HoldActions[3] = "buyer-kyc"
      /\ HoldActions[4] = "permission-negative" /\ HoldActions[5] = "execute" /\ HoldActions[6] = "release"
      /\ DOMAIN HoldActions = 1..6
  BY DEF HoldActions
<1>2. \A k \in 1..6 : HoldActions[k] = HoldActions[i] => k = i
  BY <1>1
<1>3. (CHOOSE k \in DOMAIN HoldActions : HoldActions[k] = HoldActions[i]) = i
  BY <1>1, <1>2
<1> QED
  BY <1>3 DEF HoldBefore

(* The rows of a start.                                                    *)
LEMMA StartRows ==
    ASSUME NEW m, NEW done, NEW further, NEW lost, InitAt(m, done, further, lost)
    PROVE  /\ \A i \in 1..done :
                /\ m \in {"t02", "t03"} => intents[i].state = -1
                /\ m \notin {"t02", "t03"} =>
                      /\ intents[i].state = Sends(m, i - 1) /\ intents[i].expiry = Validity
                      /\ intents[i].hold = PastHold(m, i)
           /\ \A h \in DOMAIN txs : txs[h].state = h - 1 /\ txs[h].time = 0
           /\ milestone = m
<1>1. \A i \in 1..done :
        /\ m \in {"t02", "t03"} => intents[i] = Intent(Path(m)[i], NoHash, 0, -1, FALSE)
        /\ m \notin {"t02", "t03"} =>
             intents[i] = Intent(Path(m)[i], PastHold(m, i), Validity, Sends(m, i - 1), TRUE)
  BY DEF InitAt
<1>2. \A h \in DOMAIN txs : txs[h].state = h - 1 /\ txs[h].time = 0
  BY DEF InitAt
<1>3. milestone = m
  BY DEF InitAt
<1>4. \A i \in 1..done : m \in {"t02", "t03"} => intents[i].state = -1
  <2> SUFFICES ASSUME NEW i \in 1..done, m \in {"t02", "t03"} PROVE intents[i].state = -1
    OBVIOUS
  <2>1. intents[i] = Intent(Path(m)[i], NoHash, 0, -1, FALSE)
    BY <1>1
  <2> QED
    BY ONLY <2>1 DEF Intent
<1>5. \A i \in 1..done : m \notin {"t02", "t03"} =>
                      /\ intents[i].state = Sends(m, i - 1) /\ intents[i].expiry = Validity
                      /\ intents[i].hold = PastHold(m, i)
  <2> SUFFICES ASSUME NEW i \in 1..done, m \notin {"t02", "t03"}
               PROVE  /\ intents[i].state = Sends(m, i - 1) /\ intents[i].expiry = Validity
                      /\ intents[i].hold = PastHold(m, i)
    OBVIOUS
  <2> PICK action, hold, state : action = Path(m)[i] /\ hold = PastHold(m, i) /\ state = Sends(m, i - 1)
    OBVIOUS
  <2>1. intents[i] = Intent(action, hold, Validity, state, TRUE)
    BY <1>1
  <2>2. intents[i].state = state /\ intents[i].expiry = Validity /\ intents[i].hold = hold
    BY ONLY <2>1 DEF Intent
  <2> QED
    BY <2>2
<1> QED
  BY <1>2, <1>3, <1>4, <1>5

(* T05: what was done is a deployment, a lock and a settlement at most.    *)
LEMMA TradePath ==
    ASSUME Shapes, NEW done \in Nat, done <= Len(Path("t05")), Begun("t05", done),
           \A i \in 1..done : intents[i].expiry = Validity /\ intents[i].hold = PastHold("t05", i),
           NEW h \in DOMAIN txs
    PROVE  TradeBefore(txs[h].op, h - 1) /\ TxAction(h) # "reclaim" /\ txs[h].op \in 1..done
<1> PICK i : i = txs[h].op
  OBVIOUS
<1> PICK path : path = Path("t05")
  OBVIOUS
<1>1. /\ path[1] = "deploy" /\ path[2] = "lock" /\ path[3] = "purchase-negative"
      /\ path[4] = "settle" /\ path[5] = "duplicate-negative" /\ Len(path) = 5
  BY DEF Path
<1>2. Simulations = {"kyc-negative", "permission-negative", "purchase-negative", "duplicate-negative"}
  BY DEF Simulations, HoldSimulations, TradeSimulations
<1>3. /\ i \in 1..done /\ path[i] \notin Simulations /\ TxAction(h) = path[i]
      /\ Sends("t05", i) = h
      /\ Did(h - 1) = {path[j] : j \in 1..(i - 1)} \ Simulations
  BY StartBefore
<1>4. i \in {1, 2, 4}
  <2>1. i \in {1, 2, 3, 4, 5}
    BY <1>1, <1>3
  <2> QED
    BY <1>1, <1>2, <1>3, <2>1
<1>5. Sends("t05", 1) = 1 /\ Sends("t05", 2) = 2 /\ Sends("t05", 4) = 3
  <2>1. Sends("t05", 0) = 0
    BY SendsCounts
  <2>2. Sends("t05", 0 + 1) = Sends("t05", 0) + 1
    BY <1>1, <1>2, SendsCounts
  <2>3. Sends("t05", 1 + 1) = Sends("t05", 1) + 1
    BY <1>1, <1>2, SendsCounts
  <2>4. Sends("t05", 2 + 1) = Sends("t05", 2)
    BY <1>1, <1>2, SendsCounts
  <2>5. Sends("t05", 3 + 1) = Sends("t05", 3) + 1
    BY <1>1, <1>2, SendsCounts
  <2> QED
    BY <2>1, <2>2, <2>3, <2>4, <2>5
<1>6. /\ Ops = 1..done /\ DOMAIN txs = 1..Sends("t05", done) /\ Sends("t05", done) \in Nat
      /\ \A j \in 1..done : Action(j) = path[j]
      /\ \A k \in DOMAIN txs : txs[k].op \in 1..done /\ PastHash("t05", txs[k].op) = k /\ chain[k] = k
  BY DEF Begun
<1>7. \A j, k \in 1..done : PastHash("t05", j) = PastHash("t05", k) /\ PastHash("t05", j) # NoHash => j = k
  BY PastHashes
<1>8. Action(i) = path[i] /\ intents[i].hold = PastHold("t05", i) /\ intents[i].expiry = Validity
  BY <1>3, <1>6
<1>9. ASSUME NEW k \in {1, 2}, k <= i
      PROVE  /\ k \in DOMAIN txs => txs[k].op = k
             /\ intents[k].expiry = Validity /\ intents[k].hold = PastHold("t05", k)
             /\ Action(k) = path[k] /\ k \in 1..done
  <2>1. k \in 1..done
    BY <1>3, <1>9
  <2>2. PastHash("t05", k) = k /\ k # NoHash
    BY <1>1, <1>2, <1>5 DEF PastHash, NoHash
  <2> QED
    BY <1>6, <1>7, <2>1, <2>2
<1>10. PastHold("t05", 1) = NoHash /\ PastHold("t05", 2) = 1 /\ PastHold("t05", 4) = 2
  BY DEF PastHold
<1>11. h \in 1..Sends("t05", done)
  BY <1>6
<1>12. CASE i = 1
  <2>1. Did(h - 1) = {} /\ Action(i) = "deploy"
    BY <1>1, <1>3, <1>8, <1>12
  <2>2. TradeBefore(i, h - 1)
    BY <2>1 DEF TradeBefore
  <2> QED
    BY <1>1, <1>3, <1>12, <2>2
<1>13. CASE i = 2
  <2>1. h = 2 /\ 1 \in DOMAIN txs
    BY <1>3, <1>5, <1>6, <1>11, <1>13
  <2>2. txs[1].op = 1 /\ intents[1].expiry = Validity /\ Action(1) = "deploy" /\ chain[1] = 1
    BY <1>1, <1>6, <1>9, <1>13, <2>1
  <2>3. Action(i) = "lock" /\ intents[i].hold = 1
    BY <1>1, <1>8, <1>10, <1>13
  <2>4. SwapOf(i) = 1
    BY <2>3 DEF SwapOf
  <2>5. Did(1) \cap ({"lock"} \cup TradeEnds) = {}
    <3>1. Did(1) = {path[j] : j \in 1..1} \ Simulations
      BY <1>3, <1>13, <2>1
    <3> QED
      BY <1>1, <3>1 DEF TradeEnds
  <2>6. 1 \in HashOf("deploy", 1)
    BY <2>2 DEF HashOf, TxAction
  <2>7. SwapOpen(1, 1)
    BY <2>5, <2>6, EndsNone DEF SwapOpen
  <2>8. TradeBefore(i, 1)
    BY <1>8, <2>2, <2>3, <2>4, <2>5, <2>7 DEF TradeBefore
  <2> QED
    BY <1>1, <1>3, <1>13, <2>1, <2>8
<1>14. CASE i = 4
  <2>1. h = 3 /\ 1 \in DOMAIN txs /\ 2 \in DOMAIN txs
    BY <1>3, <1>5, <1>6, <1>11, <1>14
  <2>2. /\ txs[1].op = 1 /\ intents[1].expiry = Validity /\ Action(1) = "deploy" /\ chain[1] = 1
        /\ txs[2].op = 2 /\ intents[2].hold = 1 /\ Action(2) = "lock" /\ chain[2] = 2
    BY <1>1, <1>6, <1>9, <1>10, <1>14, <2>1
  <2>3. Action(i) = "settle" /\ intents[i].hold = 2
    BY <1>1, <1>8, <1>10, <1>14
  <2>4. SwapOf(i) = 1
    BY <2>2, <2>3 DEF SwapOf
  <2>5. "lock" \in Did(2) /\ Did(2) \cap TradeEnds = {}
    <3>1. Did(2) = {path[j] : j \in 1..3} \ Simulations
      BY <1>3, <1>14, <2>1
    <3>2. 1..3 = {1, 2, 3}
      OBVIOUS
    <3> QED
      BY <1>1, <1>2, <3>1, <3>2 DEF TradeEnds
  <2>6. 1 \in HashOf("deploy", 2) /\ 2 \in HashOf("lock", 2)
    BY <2>2 DEF HashOf, TxAction
  <2>7. SwapOpen(1, 2)
    BY <2>5, <2>6, EndsNone DEF SwapOpen
  <2>8. TradeBefore(i, 2)
    BY <1>8, <2>2, <2>3, <2>4, <2>5, <2>6, <2>7 DEF TradeBefore, TradeEnds
  <2> QED
    BY <1>1, <1>3, <1>14, <2>1, <2>8
<1> QED
  BY <1>4, <1>12, <1>13, <1>14

LEMMA InitReady ==
    ASSUME JournalAssumption, TabsAssumption, StartsAssumption, Init, ~InT02
    PROVE  Preflights
<1>1. PICK start \in Starts : InitAt(start[1], start[2], start[3], start[4])
  BY DEF Init
<1>2. PICK m, done, further, lost : m = start[1] /\ done = start[2] /\ further = start[3] /\ lost = start[4]
  OBVIOUS
<1>3. /\ m \in {"t02", "t03", "t04", "t05"} /\ done \in Nat /\ done <= Len(Path(m))
      /\ further \in Nat /\ lost \in BOOLEAN
  BY <1>2 DEF StartsAssumption
<1>4. InitAt(m, done, further, lost)
  BY <1>1, <1>2
<1>5. Shapes /\ Begun(m, done)
  BY <1>3, <1>4, StartShapes
<1>6. Exposed = {} /\ \A t \in Tabs : tabs[t] = Idle /\ reviews[t] = NoReview
  BY <1>3, <1>4, StartTrue
<1>7. /\ \A i \in 1..done :
                /\ m \in {"t02", "t03"} => intents[i].state = -1
                /\ m \notin {"t02", "t03"} =>
                      /\ intents[i].state = Sends(m, i - 1) /\ intents[i].expiry = Validity
                      /\ intents[i].hold = PastHold(m, i)
      /\ \A h \in DOMAIN txs : txs[h].state = h - 1 /\ txs[h].time = 0
      /\ milestone = m
  BY <1>4, StartRows
<1>8. m \in {"t03", "t04", "t05"}
  BY <1>3, <1>7 DEF InT02
<1>9. Validity \in Nat /\ Validity > 0
  BY DEF JournalAssumption
<1>10. Simulations = {"kyc-negative", "permission-negative", "purchase-negative", "duplicate-negative"}
  BY DEF Simulations, HoldSimulations, TradeSimulations
<1>11. ASSUME NEW h \in DOMAIN txs
       PROVE  txs[h].state <= Now /\ Ready(txs[h].op, txs[h].state) /\ InTime(h)
  <2> PICK i : i = txs[h].op
    OBVIOUS
  <2> PICK s : s = txs[h].state
    OBVIOUS
  <2>1. /\ i \in 1..done /\ Path(m)[i] \notin Simulations /\ TxAction(h) = Path(m)[i]
        /\ s \in Nat /\ s <= Now /\ Sends(m, i - 1) = s /\ s = h - 1
        /\ Did(s) = {Path(m)[j] : j \in 1..(i - 1)} \ Simulations
    BY <1>3, <1>5, <1>7, StartBefore
  <2>2. Action(i) = Path(m)[i] /\ txs[h].status = "ok"
    BY <1>5, <2>1 DEF Begun
  <2>3. Fresh(i, s)
    <3>1. intents[i].state = -1 \/ intents[i].state = s
      BY <1>7, <2>1
    <3> QED
      BY <2>1, <3>1 DEF Fresh
  <2>4. ASSUME InT03 PROVE LifecyclePrecedes(Action(i), s)
    <3>1. m = "t03" /\ Path(m) = LifecycleActions /\ Len(LifecycleActions) = 6
      BY <1>7, <2>4 DEF InT03, Path, LifecycleActions, RoleActions
    <3>2. i \in 1..6
      BY <1>3, <2>1, <3>1
    <3>3. \A j \in 1..(i - 1) : Path(m)[j] \notin Simulations
      <4>1. \A j \in 1..Len(Path(m)) : Path(m)[j] \notin Simulations
        BY <3>1, PathNames
      <4>2. \A j \in 1..(i - 1) : j \in 1..6
        BY <3>2
      <4> QED
        BY <3>1, <4>1, <4>2
    <3>4. Did(s) = {LifecycleActions[j] : j \in 1..(i - 1)}
      BY <2>1, <3>1, <3>3
    <3> QED
      BY <2>2, <3>1, <3>2, <3>4, LifecyclePath
  <2>5. ASSUME InT04 PROVE Did(s) = HoldBefore(Action(i))
    <3>1. m = "t04" /\ Path(m) = HoldActions /\ Len(HoldActions) = 6
      BY <1>7, <2>5 DEF InT04, Path, HoldActions
    <3>2. i \in 1..6
      BY <1>3, <2>1, <3>1
    <3>3. \A j \in 1..6 : Path(m)[j] \in Simulations => Path(m)[j] \in HoldSimulations
      <4>1. \A j \in 1..Len(Path(m)) : Path(m)[j] \in Simulations => Path(m)[j] \in HoldSimulations
        BY <3>1, PathNames
      <4> QED
        BY <3>1, <4>1
    <3>4. HoldSimulations \subseteq Simulations
      BY DEF Simulations
    <3>5. \A j \in 1..(i - 1) : j \in 1..6
      BY <3>2
    <3>6. Did(s) = {HoldActions[j] : j \in 1..(i - 1)} \ HoldSimulations
      <4>1. Did(s) = {HoldActions[j] : j \in 1..(i - 1)} \ Simulations
        BY <2>1, <3>1
      <4>2. \A j \in 1..(i - 1) : HoldActions[j] \in Simulations <=> HoldActions[j] \in HoldSimulations
        BY <3>1, <3>3, <3>4, <3>5
      <4> QED
        BY ONLY <4>1, <4>2
    <3> QED
      BY <2>2, <3>1, <3>2, <3>6, HoldPath
  <2>6. ASSUME InT05 PROVE TradeBefore(i, s) /\ InTime(h)
    <3>1. m = "t05"
      BY <1>7, <2>6 DEF InT05
    <3>2. TradeBefore(i, s) /\ TxAction(h) # "reclaim"
      <4>1. done \in Nat /\ done <= Len(Path("t05")) /\ Begun("t05", done)
        BY <1>3, <1>5, <3>1
      <4>2. \A j \in 1..done : intents[j].expiry = Validity /\ intents[j].hold = PastHold("t05", j)
        BY <1>7, <3>1
      <4> QED
        BY <1>5, <2>1, <4>1, <4>2, TradePath
    <3>3. txs[h].time = 0 /\ intents[i].expiry = Validity
      BY <1>7, <2>1, <3>1
    <3> QED
      BY <1>9, <3>2, <3>3 DEF InTime
  <2> QED
    BY <2>1, <2>3, <2>4, <2>5, <2>6 DEF Ready, InTime
<1>12. MinedReady /\ ExposedReady
  BY <1>6, <1>11 DEF MinedReady, ExposedReady
<1>13. \A t \in Tabs : PastRead(t) /\ PastReview(t)
  BY <1>6 DEF PastRead, PastReview, Idle
<1> QED
  BY <1>12, <1>13 DEF Preflights

(* Every transaction whose record is not settled can still be recovered:   *)
(* what its preflight found in front of it is what recovery asks for       *)
(* (transport.ts, lifecycle.ts, hold.ts, trade.ts).                        *)
THEOREM MilestonesRecoverable ==
    ASSUME CarefulStarts
    PROVE  Spec => []Recoverable
<1> DEFINE Inv == CreationInv \/ (JournalInv /\ Preflights)
<1>1. Init => Inv
  <2>1. InT02 /\ Init => CreationInv
    BY TabsAssumption, JournalAssumption, StartsAssumption, InitCreation
  <2>2. ~InT02 /\ Init => JournalInv /\ Preflights
    BY TabsAssumption, JournalAssumption, StartsAssumption, InitJournal, InitReady
  <2> QED
    BY <2>1, <2>2
<1>2. Inv /\ [Next]_vars => Inv'
  <2>1. CreationInv /\ [Next]_vars => CreationInv'
    BY TabsAssumption, CreationNext
  <2>2. JournalInv /\ [Next]_vars => JournalInv'
    BY TabsAssumption, JournalAssumption, JournalNext
  <2>3. JournalInv /\ JournalInv' /\ Preflights /\ [Next]_vars => Preflights'
    BY TabsAssumption, JournalAssumption, PreflightsNext
  <2> QED
    BY <2>1, <2>2, <2>3
<1>3. Inv => Recoverable
  BY CreationRecoverable, ReadyRecoverable
<1> QED
  BY <1>1, <1>2, <1>3, PTL DEF Spec
==============================================================================
