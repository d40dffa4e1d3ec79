----------------------- MODULE SettlementClient_proofs -----------------------
(***************************************************************************)
(* Theorems about SettlementClient, for any panels, any number of          *)
(* operations and transactions, and whatever users do and type: an         *)
(* operation is sent at most once, one that was sent is not forgotten, and *)
(* its hash is kept, unless the answer to a query or a load wrote over its *)
(* record.                                                                 *)
(***************************************************************************)
EXTENDS SettlementClient, TLAPS

-----------------------------------------------------------------------------
Statuses == {"none", "prepared", "pending", "resolved"}
Hashes == 0..MaxSends \cup WrongHashes
Records ==
    [op : Nat, status : Statuses, hash : Hashes, attempted : BOOLEAN, rejected : BOOLEAN]
Rows == [status : Statuses, hash : Hashes]

PanelStates ==
    [step : {"idle", "preparing", "returned"}]
      \cup [step : {"prepared"}, op : Nat, status : Statuses, hash : Hashes]
      \cup [step : {"checking", "submitting", "connected", "checked", "asked"}, op : Nat]
      \cup [step : {"sent"}, op : Nat, hash : Hashes]
      \cup [step : {"querying"}, record : Records]
      \cup [step : {"answering"}, record : Records, status : Statuses, hash : Hashes]

Types ==
    /\ saved \in Records
    /\ lock \in Panels \cup {NoPanel}
    /\ panels \in [Panels -> PanelStates]
    /\ shown \in [Panels -> [op : Nat, unknown : BOOLEAN]]
    /\ reviews \in [Panels -> Nat]
    /\ ops \in Seq(Rows)
    /\ txs \in Seq(Nat)
    /\ Len(txs) <= MaxSends

(***************************************************************************)
(* An operation is exposed while its transaction may exist: somebody was   *)
(* asked for it, and did not refuse.  It is excused when it is settled, or *)
(* its record was written over.                                            *)
(***************************************************************************)
Asked == {panels[p].op : p \in {q \in Panels : panels[q].step = "asked"}}
Sent == {txs[j] : j \in DOMAIN txs}
Exposed == Asked \cup orphans \cup Sent

Settled(op) == Resolved(ops[op].status)
Excused(op) == Settled(op) \/ op \in overwritten
Clear == \A op \in Exposed : Excused(op)
Names(r, op) == r.op = op /\ Attempted(r)
Knows(r) == \A op \in Exposed : Excused(op) \/ Names(r, op)

(* The hash is of a transaction of the operation.                          *)
IsOf(hash, op) == hash = NoHash \/ (hash \in DOMAIN txs /\ txs[hash] = op)

Holding == {"preparing", "prepared", "checking", "submitting", "connected", "checked",
            "asked", "sent", "returned"}
Querying == {"querying", "answering"}

(***************************************************************************)
(* What a panel that prepares or submits relies on.  Nothing exposed is    *)
(* open until it saves what it prepared, and again when it is about to     *)
(* ask; then only its own operation is, and was not asked for before.      *)
(***************************************************************************)
HoldFits(c) ==
    /\ c.step \in Holding \ {"preparing", "returned"} => c.op \in DOMAIN ops
    /\ c.step = "prepared" => (Resolved(c.status) => Settled(c.op))
    /\ c.step \in {"preparing", "prepared", "checked"} => Clear
    /\ c.step = "checked" => c.op \in overwritten \/ ops[c.op].status = "prepared"
    /\ c.step \in {"asked", "sent"} => \A op \in Exposed : op = c.op \/ Excused(op)
    /\ c.step = "asked" => c.op \in overwritten \/ c.op \notin orphans \cup Sent
    /\ c.step = "sent" => IsOf(c.hash, c.op) /\ c.hash # NoHash

(* And one that queries: the answer is of the operation it asked about.    *)
QueryFits(c) ==
    /\ c.step \in Querying => c.record.op \in DOMAIN ops
    /\ c.step = "answering" =>
          IsOf(c.hash, c.record.op) /\ (Resolved(c.status) => Settled(c.record.op))

Fits(c) == HoldFits(c) /\ QueryFits(c)

(* Whoever prepares or submits has the lock.                               *)
Exclusive == \A p \in Panels : panels[p].step \in Holding => lock = p

(* Hashes are of their operations, which have one prompt or transaction.   *)
ServerInOrder ==
    /\ \A op \in DOMAIN ops : IsOf(ops[op].hash, op)
    /\ Exposed \subseteq DOMAIN ops
    /\ orphans \cap Sent \subseteq overwritten

(* The saved record is of an operation, does not say that it is resolved   *)
(* before it is, and names the exposed one.                                *)
SavedKnows ==
    /\ saved.op \in {0} \cup DOMAIN ops
    /\ Resolved(saved.status) => saved.op # 0 /\ Settled(saved.op)
    /\ Knows(saved)

Inductive ==
    /\ Types
    /\ \A p \in Panels : Fits(panels[p]) /\ reviews[p] \in {0} \cup DOMAIN ops
    /\ Exclusive
    /\ ServerInOrder
    /\ OnceUnlessOverwritten
    /\ SavedKnows

-----------------------------------------------------------------------------
(* The fields that a panel has at each step, and no others matter.         *)
LEMMA Fields ==
    ASSUME NEW c \in PanelStates
    PROVE  /\ c.step \in Holding \cup Querying \cup {"idle"}
           /\ c.step \in Holding \ {"preparing", "returned"} => c.op \in Nat
           /\ c.step = "prepared" => c.status \in Statuses /\ c.hash \in Hashes
           /\ c.step = "sent" => c.hash \in Hashes
           /\ c.step \in Querying => c.record \in Records
           /\ c.step = "answering" => c.status \in Statuses /\ c.hash \in Hashes
BY DEF PanelStates, Holding, Querying

(* An idle panel relies on nothing.                                        *)
LEMMA IdleFits == Idle \in PanelStates /\ Fits(Idle) /\ Idle.step = "idle"
BY DEF Idle, PanelStates, Fits, HoldFits, QueryFits, Holding, Querying

(* What a panel is told of a record.                                       *)
LEMMA ShowsType ==
    ASSUME Types, NEW p \in Panels, NEW r \in Records, Show(p, r)
    PROVE  shown' \in [Panels -> [op : Nat, unknown : BOOLEAN]]
BY DEF Show, Shows, Types, Records

-----------------------------------------------------------------------------
(***************************************************************************)
(* What every step preserves: operations, their outcomes and transactions  *)
(* are never taken back.  A step is calm if, moreover, it exposes nothing  *)
(* and only a transaction that exists moves its operation.                 *)
(***************************************************************************)
Grows ==
    /\ DOMAIN ops \subseteq DOMAIN ops'
    /\ \A op \in DOMAIN ops : Resolved(ops[op].status) => Resolved(ops'[op].status)
    /\ \A j \in DOMAIN txs : j \in DOMAIN txs' /\ txs'[j] = txs[j]
    /\ overwritten \subseteq overwritten'

Calm ==
    /\ Grows
    /\ Exposed' \subseteq Exposed
    /\ (orphans \cup Sent)' \subseteq orphans \cup Sent
    /\ \A op \in DOMAIN ops :
          ops[op].status = "prepared" => ops'[op].status = "prepared" \/ op \in Sent

(* A query goes on.                                                        *)
LEMMA QueryStays ==
    ASSUME Grows, NEW c, QueryFits(c) PROVE QueryFits(c)'
BY DEF Grows, QueryFits, IsOf, Settled, Querying

(* What is excused stays so.                                               *)
LEMMA StaysExcused ==
    ASSUME Grows, Inductive, NEW op \in Exposed, Excused(op) PROVE Excused(op)'
BY DEF Grows, Excused, Settled, Inductive, ServerInOrder

(* A calm step disturbs nobody.                                            *)
LEMMA HoldStays ==
    ASSUME Calm, Inductive, NEW c, HoldFits(c) PROVE HoldFits(c)'
<1>1. \A op \in Exposed' : op \in Exposed /\ (Excused(op) => Excused(op)')
  BY StaysExcused DEF Calm
<1>2. c.step \in Holding \ {"preparing", "returned"} => c.op \in DOMAIN ops'
  BY DEF Calm, Grows, HoldFits
<1>3. c.step = "prepared" => (Resolved(c.status) => Settled(c.op)')
  BY DEF Calm, Grows, HoldFits, Settled, Holding
<1>4. Clear => Clear'
  BY <1>1 DEF Clear
<1>5. c.step = "checked" => c.op \in overwritten' \/ ops'[c.op].status = "prepared"
  <2>1. Sent \subseteq Exposed
    BY DEF Exposed
  <2> QED BY <2>1 DEF Calm, Grows, HoldFits, Clear, Excused, Settled, Resolved, Holding
<1>6. c.step \in {"asked", "sent"} => \A op \in Exposed' : op = c.op \/ Excused(op)'
  BY <1>1 DEF HoldFits
<1>7. c.step = "asked" => c.op \in overwritten' \/ c.op \notin (orphans \cup Sent)'
  BY DEF HoldFits, Calm, Grows
<1>8. c.step = "sent" => IsOf(c.hash, c.op)' /\ c.hash # NoHash
  BY DEF HoldFits, Calm, Grows, IsOf
<1> QED BY <1>2, <1>3, <1>4, <1>5, <1>6, <1>7, <1>8 DEF HoldFits

(* The panels that a calm step does not move.                              *)
LEMMA OthersFit ==
    ASSUME Calm, Inductive, NEW q \in Panels, panels'[q] = panels[q]
    PROVE  Fits(panels[q])'
<1>1. PICK x : x = panels[q] /\ x = panels'[q]
  OBVIOUS
<1>2. Grows /\ HoldFits(x) /\ QueryFits(x)
  BY <1>1 DEF Calm, Inductive, Fits
<1>3. Fits(x)'
  BY <1>2, HoldStays, QueryStays DEF Fits
<1> QED BY <1>1, <1>3 DEF Fits, HoldFits, QueryFits

(* The panels that the holder of the lock does not move.                   *)
LEMMA OthersWait ==
    ASSUME Grows, Inductive, NEW p \in Panels, panels[p].step \in Holding,
           NEW q \in Panels, q # p, panels'[q] = panels[q]
    PROVE  Fits(panels[q])'
<1>1. PICK x : x = panels[q] /\ x = panels'[q]
  OBVIOUS
<1>2. x.step \notin Holding /\ QueryFits(x)
  BY <1>1 DEF Inductive, Exclusive, Fits
<1>3. HoldFits(x)'
  BY <1>2 DEF HoldFits, Holding
<1>4. Fits(x)'
  BY <1>2, <1>3, QueryStays DEF Fits
<1> QED BY <1>1, <1>4 DEF Fits, HoldFits, QueryFits

(***************************************************************************)
(* One panel moves.  The others keep what they rely on, because the step   *)
(* is calm or because this one has the lock.                               *)
(***************************************************************************)
LEMMA OneMoves ==
    ASSUME Inductive, NEW p \in Panels, NEW c \in PanelStates, Goto(p, c), Fits(c)',
           Calm \/ (Grows /\ panels[p].step \in Holding)
    PROVE  /\ panels' \in [Panels -> PanelStates]
           /\ \A q \in Panels : Fits(panels[q])'
<1>1. panels' \in [Panels -> PanelStates] /\ panels'[p] = c
      /\ \A q \in Panels : q # p => panels'[q] = panels[q]
  BY DEF Goto, Inductive, Types
<1>2. ASSUME NEW q \in Panels PROVE Fits(panels[q])'
  <2>1. CASE q = p
    BY <1>1, <2>1 DEF Fits, HoldFits, QueryFits
  <2>2. CASE q # p
    BY <1>1, <2>2, OthersFit, OthersWait
  <2> QED BY <2>1, <2>2
<1> QED BY <1>1, <1>2

(* A panel that is not at the prompt afterwards exposes nothing by itself. *)
LEMMA NotAsked ==
    ASSUME Types, NEW p \in Panels, NEW c, Goto(p, c), c.step # "asked"
    PROVE  Asked' \subseteq Asked
<1>1. panels'[p] = c /\ \A q \in Panels : q # p => panels'[q] = panels[q]
  BY DEF Goto, Types
<1> QED BY <1>1 DEF Asked

(* If the holder of the lock is not at the prompt, nobody is.              *)
LEMMA HolderAsked ==
    ASSUME Inductive, NEW p \in Panels, panels[p].step \in Holding, NEW c, Goto(p, c)
    PROVE  Asked' \subseteq IF c.step = "asked" THEN {c.op} ELSE {}
<1>1. panels'[p] = c /\ \A q \in Panels : q # p => panels'[q] = panels[q]
  BY DEF Goto, Inductive, Types
<1>2. \A q \in Panels : q # p => panels[q].step # "asked"
  BY DEF Inductive, Exclusive, Holding
<1> QED BY <1>1, <1>2 DEF Asked

-----------------------------------------------------------------------------
(* The lock is taken only when nobody has it.                              *)
LEMMA TakeExclusive ==
    ASSUME Types, Exclusive, NEW p \in Panels, Take(p), NEW c, Goto(p, c)
    PROVE  Exclusive' /\ lock' \in Panels \cup {NoPanel} /\ panels[p] = Idle
<1>1. lock' = p /\ \A q \in Panels : q # p => panels'[q] = panels[q]
  BY DEF Take, Goto, Types
<1> QED BY <1>1, PanelsAssumption DEF Take, Exclusive

(* A panel that keeps the lock, or does without, disturbs nobody.          *)
LEMMA KeepExclusive ==
    ASSUME Types, Exclusive, NEW p \in Panels, NEW c, Goto(p, c), UNCHANGED lock,
           panels[p].step \in Holding \/ c.step \notin Holding
    PROVE  Exclusive' /\ lock' \in Panels \cup {NoPanel}
<1>1. panels'[p] = c /\ \A q \in Panels : q # p => panels'[q] = panels[q]
  BY DEF Goto, Types
<1> QED BY <1>1 DEF Exclusive, Types

(* Nor does one that ends, whether or not it had the lock.                 *)
LEMMA FinishExclusive ==
    ASSUME Types, Exclusive, NEW p \in Panels, Finish(p)
    PROVE  Exclusive' /\ lock' \in Panels \cup {NoPanel} /\ Goto(p, Idle)
<1>1. panels'[p] = Idle /\ \A q \in Panels : q # p => panels'[q] = panels[q]
  BY DEF Finish, Goto, Types
<1>2. Idle.step \notin Holding
  BY DEF Idle, Holding
<1>3. \A q \in Panels : q # p /\ panels[q].step \in Holding => lock' = lock
  BY DEF Finish, Exclusive
<1>4. lock' \in Panels \cup {NoPanel}
  BY DEF Finish, Types
<1> QED BY <1>1, <1>2, <1>3, <1>4 DEF Exclusive, Finish

-----------------------------------------------------------------------------
(***************************************************************************)
(* A panel moves, not to the prompt, and may write the record: the new one *)
(* names what is exposed and not excused.                                  *)
(***************************************************************************)
LEMMA Writes ==
    ASSUME Inductive, NEW p \in Panels, NEW c \in PanelStates, Goto(p, c), Fits(c),
           c.step # "asked",
           UNCHANGED <<orphans, ops, txs>>, overwritten \subseteq overwritten',
           saved' \in Records, saved'.op \in {0} \cup DOMAIN ops,
           Resolved(saved'.status) => saved'.op # 0 /\ Settled(saved'.op),
           \A op \in Exposed : Settled(op) \/ op \in overwritten' \/ Names(saved', op),
           shown' \in [Panels -> [op : Nat, unknown : BOOLEAN]],
           reviews' \in [Panels -> {0} \cup DOMAIN ops],
           lock' \in Panels \cup {NoPanel}, Exclusive'
    PROVE  Inductive'
<1>1. Sent' = Sent /\ Exposed' \subseteq Exposed
  <2>1. Asked' \subseteq Asked
    BY NotAsked DEF Inductive
  <2> QED BY <2>1 DEF Exposed, Sent
<1>2. Calm /\ Grows
  BY <1>1 DEF Calm, Grows
<1>3. Fits(c)'
  BY <1>2, HoldStays, QueryStays DEF Fits
<1>4. panels' \in [Panels -> PanelStates] /\ \A q \in Panels : Fits(panels[q])'
  BY <1>2, <1>3, OneMoves
<1>5. Types'
  <2>1. DOMAIN ops \subseteq Nat
    BY DEF Inductive, Types
  <2>2. reviews' \in [Panels -> Nat]
    BY <2>1
  <2> QED BY <1>4, <2>2 DEF Inductive, Types
<1>6. ServerInOrder' /\ OnceUnlessOverwritten'
  BY <1>1 DEF Inductive, ServerInOrder, OnceUnlessOverwritten, IsOf
<1>7. SavedKnows'
  BY <1>1 DEF SavedKnows, Knows, Excused, Settled, Names
<1>8. \A q \in Panels : reviews'[q] \in {0} \cup DOMAIN ops'
  OBVIOUS
<1> QED BY <1>4, <1>5, <1>6, <1>7, <1>8 DEF Inductive

(* It only moves.                                                          *)
LEMMA Move ==
    ASSUME Inductive, NEW p \in Panels, NEW c \in PanelStates, Goto(p, c), Fits(c),
           c.step # "asked",
           UNCHANGED <<saved, orphans, ops, txs, overwritten>>,
           shown' \in [Panels -> [op : Nat, unknown : BOOLEAN]],
           reviews' \in [Panels -> {0} \cup DOMAIN ops],
           lock' \in Panels \cup {NoPanel}, Exclusive'
    PROVE  Inductive'
<1>1. /\ saved' \in Records /\ saved'.op \in {0} \cup DOMAIN ops
      /\ Resolved(saved'.status) => saved'.op # 0 /\ Settled(saved'.op)
      /\ \A op \in Exposed : Settled(op) \/ op \in overwritten' \/ Names(saved', op)
  BY DEF Inductive, Types, SavedKnows, Knows, Excused
<1>2. overwritten \subseteq overwritten' /\ UNCHANGED <<orphans, ops, txs>>
  OBVIOUS
<1> QED BY <1>1, <1>2, Writes

(* A panel shows an operation of the server for approval, or none.         *)
LEMMA Same ==
    ASSUME Inductive
    PROVE  /\ reviews \in [Panels -> {0} \cup DOMAIN ops]
           /\ \A p \in Panels : [reviews EXCEPT ![p] = 0] \in [Panels -> {0} \cup DOMAIN ops]
           /\ shown \in [Panels -> [op : Nat, unknown : BOOLEAN]]
           /\ saved \in Records
<1>1. reviews \in [Panels -> {0} \cup DOMAIN ops]
  BY DEF Inductive, Types
<1> QED BY <1>1 DEF Inductive, Types

-----------------------------------------------------------------------------
(* A handler that is stopped saves nothing.                                *)
LEMMA Fails ==
    ASSUME Inductive, NEW p \in Panels, PrepareFails(p) \/ SubmitFails(p) \/ QueryFails(p)
    PROVE  Inductive'
<1>1. Finish(p) /\ UNCHANGED <<saved, orphans, ops, txs, overwritten>>
  BY DEF PrepareFails, SubmitFails, QueryFails, EndSubmit
<1>2. reviews' \in [Panels -> {0} \cup DOMAIN ops]
  BY Same DEF PrepareFails, SubmitFails, QueryFails, EndSubmit
<1>3. shown' \in [Panels -> [op : Nat, unknown : BOOLEAN]]
  <2>1. Show(p, saved) \/ UNCHANGED shown
    BY DEF PrepareFails, SubmitFails, QueryFails
  <2> QED BY <2>1, Same, ShowsType DEF Inductive
<1>4. Exclusive' /\ lock' \in Panels \cup {NoPanel} /\ Goto(p, Idle)
  BY <1>1, FinishExclusive DEF Inductive
<1> QED BY <1>1, <1>2, <1>3, <1>4, IdleFits, Move

(* What is shown for approval is the operation that was prepared.          *)
LEMMA Reviewed ==
    ASSUME Inductive, NEW p \in Panels, PrepareReviewed(p) PROVE Inductive'
<1>1. /\ Finish(p) /\ Show(p, saved) /\ UNCHANGED <<saved, orphans, ops, txs, overwritten>>
      /\ panels[p].step = "checking"
  BY DEF PrepareReviewed
<1>2. panels[p].op \in DOMAIN ops
  BY <1>1 DEF Inductive, Fits, HoldFits, Holding
<1>3. reviews' \in [Panels -> {0} \cup DOMAIN ops]
  BY <1>2, Same DEF PrepareReviewed
<1>4. shown' \in [Panels -> [op : Nat, unknown : BOOLEAN]]
  BY <1>1, Same, ShowsType DEF Inductive
<1>5. Exclusive' /\ lock' \in Panels \cup {NoPanel} /\ Goto(p, Idle)
  BY <1>1, FinishExclusive DEF Inductive
<1> QED BY <1>1, <1>3, <1>4, <1>5, IdleFits, Move

(* A review is dropped, or what a panel shows is read again.               *)
LEMMA ShownAgain ==
    ASSUME Inductive, NEW p \in Panels, DropReview(p) \/ Hears(p) PROVE Inductive'
<1>1. UNCHANGED <<saved, lock, panels, orphans, ops, txs, overwritten>>
  BY DEF DropReview, Hears
<1>2. reviews' \in [Panels -> {0} \cup DOMAIN ops]
  BY Same DEF DropReview, Hears
<1>3. shown' \in [Panels -> [op : Nat, unknown : BOOLEAN]]
  <2>1. Show(p, saved) \/ UNCHANGED shown
    BY DEF DropReview, Hears
  <2> QED BY <2>1, Same, ShowsType DEF Inductive
<1>4. Sent' = Sent /\ Exposed' = Exposed
  BY <1>1 DEF Exposed, Asked, Sent
<1>5. Calm
  BY <1>1, <1>4 DEF Calm, Grows
<1>6. \A q \in Panels : Fits(panels[q])'
  BY <1>1, <1>5, OthersFit
<1>7. Types' /\ \A q \in Panels : reviews'[q] \in {0} \cup DOMAIN ops'
  <2>1. DOMAIN ops \subseteq Nat
    BY DEF Inductive, Types
  <2>2. reviews' \in [Panels -> Nat]
    BY <1>2, <2>1
  <2> QED BY <1>1, <1>2, <1>3, <2>2 DEF Inductive, Types
<1>8. ServerInOrder' /\ OnceUnlessOverwritten' /\ Exclusive' /\ SavedKnows'
  BY <1>1, <1>4 DEF Inductive, ServerInOrder, OnceUnlessOverwritten, Exclusive, SavedKnows,
                    Knows, Excused, Settled, Names, IsOf
<1> QED BY <1>6, <1>7, <1>8 DEF Inductive

-----------------------------------------------------------------------------
(* Nothing exposed is open when the record does not say that it may be: it *)
(* was never attempted, or says that it is resolved.                       *)
LEMMA NothingOpen ==
    ASSUME Inductive, ~(Attempted(saved) /\ ~Resolved(saved.status)) PROVE Clear
BY DEF Inductive, SavedKnows, Knows, Names, Clear, Excused

(* So nothing is when preparing starts.                                    *)
LEMMA PrepareStarted ==
    ASSUME Inductive, NEW p \in Panels, PrepareStarts(p) PROVE Inductive'
<1>1. PICK c : c = [step |-> "preparing"]
  OBVIOUS
<1>2. c \in PanelStates /\ c.step = "preparing"
  BY <1>1 DEF PanelStates
<1>3. Clear
  BY NothingOpen DEF PrepareStarts
<1>4. Fits(c)
  BY <1>2, <1>3 DEF Fits, HoldFits, QueryFits, Holding, Querying
<1>5. Take(p) /\ Goto(p, c) /\ UNCHANGED <<saved, shown, reviews, orphans, ops, txs, overwritten>>
  BY <1>1 DEF PrepareStarts
<1>6. Exclusive' /\ lock' \in Panels \cup {NoPanel}
  BY <1>5, TakeExclusive DEF Inductive
<1> QED BY <1>2, <1>4, <1>5, <1>6, Same, Move

(* The server answers with the operation that is open, or a new one.       *)
LEMMA PrepareAnswered ==
    ASSUME Inductive, NEW p \in Panels, PrepareAtServer(p) PROVE Inductive'
<1>1. /\ panels[p].step = "preparing" /\ panels[p].step \in Holding /\ Clear
      /\ UNCHANGED <<saved, lock, shown, reviews, orphans, txs, overwritten>>
  BY DEF PrepareAtServer, Inductive, Fits, HoldFits, Holding
<1>2. PICK n : n = Len(ops')
  OBVIOUS
<1>3. /\ ops' \in Seq(Rows) /\ n \in DOMAIN ops' /\ n \in Nat
      /\ DOMAIN ops \subseteq DOMAIN ops' /\ \A op \in DOMAIN ops : ops'[op] = ops[op]
      /\ \A op \in DOMAIN ops' : op \in DOMAIN ops \/ ops'[op].hash = NoHash
  <2>1. CASE ops # <<>> /\ ~Resolved(ops[Len(ops)].status)
    BY <1>2, <2>1 DEF PrepareAtServer, Inductive, Types
  <2>2. CASE ~(ops # <<>> /\ ~Resolved(ops[Len(ops)].status))
    <3>1. PICK o : o = [status |-> "prepared", hash |-> NoHash]
      OBVIOUS
    <3>2. ops' = Append(ops, o)
      BY <2>2, <3>1 DEF PrepareAtServer
    <3>3. o \in Rows /\ o.hash = NoHash
      BY <3>1, ClientBoundsAssumption DEF Rows, Statuses, Hashes, NoHash
    <3>4. ops \in Seq(Rows)
      BY DEF Inductive, Types
    <3> QED BY <1>2, <3>2, <3>3, <3>4
  <2> QED BY <2>1, <2>2
<1>4. PICK c : c = [step |-> "prepared", op |-> n, status |-> ops'[n].status,
                    hash |-> ops'[n].hash]
  OBVIOUS
<1>5. Goto(p, c)
  BY <1>2, <1>4 DEF PrepareAtServer
<1>6. c \in PanelStates /\ c.step = "prepared" /\ c.op = n /\ c.status = ops'[n].status
  <2>1. ops'[n] \in Rows
    BY <1>3
  <2> QED BY <1>3, <1>4, <2>1 DEF PanelStates, Rows
<1>7. Exposed' \subseteq Exposed /\ Sent' = Sent /\ Exposed \subseteq DOMAIN ops
  BY <1>1, <1>5, <1>6, HolderAsked DEF Exposed, Sent, Inductive, ServerInOrder
<1>8. Grows
  BY <1>1, <1>3 DEF Grows
<1>9. \A op \in Exposed : Excused(op)' <=> Excused(op)
  BY <1>1, <1>3, <1>7 DEF Excused, Settled
<1>10. Fits(c)'
  BY <1>1, <1>3, <1>6, <1>7, <1>9
     DEF Fits, HoldFits, QueryFits, Holding, Querying, Clear, Settled
<1>11. panels' \in [Panels -> PanelStates] /\ \A q \in Panels : Fits(panels[q])'
  BY <1>1, <1>5, <1>6, <1>8, <1>10, OneMoves
<1>12. Types'
  BY <1>1, <1>3, <1>11 DEF Inductive, Types
<1>13. Exclusive'
  BY <1>1, <1>5, KeepExclusive DEF Inductive
<1>14. ServerInOrder'
  BY <1>1, <1>3, <1>7 DEF Inductive, ServerInOrder, IsOf
<1>15. SavedKnows'
  BY <1>1, <1>3, <1>7, <1>9 DEF Inductive, SavedKnows, Knows, Names, Settled
<1>16. OnceUnlessOverwritten' /\ \A q \in Panels : reviews'[q] \in {0} \cup DOMAIN ops'
  BY <1>1, <1>3 DEF Inductive, OnceUnlessOverwritten
<1> QED BY <1>11, <1>12, <1>13, <1>14, <1>15, <1>16 DEF Inductive

(* What the browser saves is not exposed, or excused.                      *)
LEMMA PrepareSaved ==
    ASSUME Inductive, NEW p \in Panels, PrepareSaves(p) PROVE Inductive'
<1>1. PICK k : k = panels[p]
  OBVIOUS
<1>2. /\ k.step = "prepared" /\ k.step \in Holding /\ k \in PanelStates /\ HoldFits(k)
      /\ UNCHANGED <<lock, shown, reviews, orphans, ops, txs, overwritten>>
      /\ saved' = Record(k.op, k.status, k.hash, FALSE, FALSE)
  BY <1>1 DEF PrepareSaves, Inductive, Types, Holding, Fits
<1>3. k.op \in DOMAIN ops /\ k.op \in Nat /\ k.op # 0 /\ Clear
      /\ k.status \in Statuses /\ k.hash \in Hashes /\ (Resolved(k.status) => Settled(k.op))
  BY <1>2, Fields DEF HoldFits, Holding, Inductive, Types
<1>4. PICK c : c = [step |-> "checking", op |-> k.op]
  OBVIOUS
<1>5. c \in PanelStates /\ c.step = "checking" /\ c.op = k.op /\ Goto(p, c)
  BY <1>1, <1>3, <1>4 DEF PanelStates, PrepareSaves
<1>6. Fits(c)
  BY <1>3, <1>5 DEF Fits, HoldFits, QueryFits, Holding, Querying
<1>7. saved' \in Records /\ saved'.op = k.op /\ saved'.status = k.status
  BY <1>2, <1>3 DEF Record, Records
<1>8. Exclusive' /\ lock' \in Panels \cup {NoPanel}
  BY <1>1, <1>2, <1>5, KeepExclusive DEF Inductive
<1>9. \A op \in Exposed : Settled(op) \/ op \in overwritten' \/ Names(saved', op)
  BY <1>2, <1>3 DEF Clear, Excused
<1> QED BY <1>2, <1>3, <1>5, <1>6, <1>7, <1>8, <1>9, Same, Writes

(* Submitting starts with the operation that the panel shows.              *)
LEMMA SubmitStarted ==
    ASSUME Inductive, NEW p \in Panels, SubmitStarts(p) PROVE Inductive'
<1>1. reviews[p] \in DOMAIN ops /\ reviews[p] \in Nat
  BY DEF SubmitStarts, Inductive, Types
<1>2. PICK c : c = [step |-> "submitting", op |-> reviews[p]]
  OBVIOUS
<1>3. c \in PanelStates /\ c.step = "submitting" /\ c.op = reviews[p]
  BY <1>1, <1>2 DEF PanelStates
<1>4. Fits(c)
  BY <1>1, <1>3 DEF Fits, HoldFits, QueryFits, Holding, Querying
<1>5. Take(p) /\ Goto(p, c) /\ UNCHANGED <<saved, shown, reviews, orphans, ops, txs, overwritten>>
  BY <1>2 DEF SubmitStarts
<1>6. Exclusive' /\ lock' \in Panels \cup {NoPanel}
  BY <1>5, TakeExclusive DEF Inductive
<1> QED BY <1>3, <1>4, <1>5, <1>6, Same, Move

(* Both preflights find the saved record not attempted: nothing exposed is *)
(* open, and what the server has as prepared is not settled.               *)
LEMMA Preflight ==
    ASSUME Inductive, NEW p \in Panels, SubmitConnects(p) \/ SubmitRechecks(p)
    PROVE  Inductive'
<1>1. /\ panels[p].step \in {"submitting", "connected"} /\ panels[p] \in PanelStates
      /\ Fits(panels[p]) /\ MaySend(panels[p].op) /\ ops[panels[p].op].status = "prepared"
  BY DEF SubmitConnects, SubmitRechecks, Inductive, Types
<1>2. panels[p].op \in DOMAIN ops /\ panels[p].op \in Nat /\ panels[p].step \in Holding
  BY <1>1, Fields DEF Fits, HoldFits, Holding
<1>3. Clear
  BY <1>1, NothingOpen DEF MaySend
<1>4. PICK step \in {"connected", "checked"} :
         /\ Goto(p, [step |-> step, op |-> panels[p].op])
         /\ UNCHANGED <<saved, lock, shown, reviews, orphans, ops, txs, overwritten>>
  BY DEF SubmitConnects, SubmitRechecks
<1>5. PICK c : c = [step |-> step, op |-> panels[p].op]
  OBVIOUS
<1>6. c \in PanelStates /\ c.step \in {"connected", "checked"} /\ c.op = panels[p].op
  BY <1>2, <1>5 DEF PanelStates
<1>7. Fits(c)
  BY <1>1, <1>2, <1>3, <1>6 DEF Fits, HoldFits, QueryFits, Holding, Querying
<1>8. Exclusive' /\ lock' \in Panels \cup {NoPanel}
  BY <1>2, <1>4, <1>5, KeepExclusive DEF Inductive
<1> QED BY <1>4, <1>5, <1>6, <1>7, <1>8, Same, Move

-----------------------------------------------------------------------------
(***************************************************************************)
(* What changes in the set of exposed operations is the holder's own.      *)
(***************************************************************************)
LEMMA UnderLock ==
    ASSUME Inductive, NEW p \in Panels, panels[p].step \in Holding,
           NEW c \in PanelStates, Goto(p, c), Fits(c)', Grows, UNCHANGED ops,
           saved' \in Records, saved'.op \in {0} \cup DOMAIN ops,
           Resolved(saved'.status) => saved'.op # 0 /\ Settled(saved'.op),
           \A op \in Exposed' : Excused(op)' \/ Names(saved', op),
           Exposed' \subseteq DOMAIN ops, (orphans \cap Sent)' \subseteq overwritten',
           txs' \in Seq(Nat), Len(txs') <= MaxSends, OnceUnlessOverwritten',
           shown' \in [Panels -> [op : Nat, unknown : BOOLEAN]],
           reviews' \in [Panels -> {0} \cup DOMAIN ops],
           lock' \in Panels \cup {NoPanel}, Exclusive'
    PROVE  Inductive'
<1>1. panels' \in [Panels -> PanelStates] /\ \A q \in Panels : Fits(panels[q])'
  BY OneMoves
<1>2. Types'
  <2>1. DOMAIN ops \subseteq Nat
    BY DEF Inductive, Types
  <2>2. reviews' \in [Panels -> Nat]
    BY <2>1
  <2> QED BY <1>1, <2>2 DEF Inductive, Types
<1>3. ServerInOrder'
  <2>1. \A op \in DOMAIN ops : IsOf(ops[op].hash, op)'
    BY DEF Inductive, ServerInOrder, IsOf, Grows
  <2> QED BY <2>1 DEF ServerInOrder, IsOf
<1>4. SavedKnows'
  BY DEF SavedKnows, Knows, Settled, Names
<1>5. \A q \in Panels : reviews'[q] \in {0} \cup DOMAIN ops'
  OBVIOUS
<1> QED BY <1>1, <1>2, <1>3, <1>4, <1>5 DEF Inductive

(* The record that is written at the prompt.                               *)
LEMMA PromptRecord ==
    ASSUME Inductive, NEW op \in DOMAIN ops, NEW rejected \in BOOLEAN,
           saved' = Record(op, "prepared", NoHash, TRUE, rejected)
    PROVE  /\ saved' \in Records /\ saved'.op \in {0} \cup DOMAIN ops
           /\ ~Resolved(saved'.status) /\ (~rejected => Names(saved', op))
BY ClientBoundsAssumption
   DEF Record, Records, Statuses, Hashes, NoHash, Names, Attempted, Resolved, Inductive, Types

(* A panel at the prompt, and what is known of the operation.              *)
LEMMA AtPrompt ==
    ASSUME Inductive, NEW p \in Panels, panels[p].step \in {"checked", "asked", "sent"}
    PROVE  /\ panels[p].step \in Holding /\ panels[p] \in PanelStates /\ HoldFits(panels[p])
           /\ panels[p].op \in DOMAIN ops /\ panels[p].op \in Nat
           /\ \A op \in Exposed : op = panels[p].op \/ Excused(op)
           /\ panels[p].step # "sent" =>
                 panels[p].op \in overwritten \/ panels[p].op \notin orphans \cup Sent
<1>1. panels[p] \in PanelStates /\ HoldFits(panels[p]) /\ panels[p].step \in Holding
  BY DEF Inductive, Types, Fits, Holding
<1>2. panels[p].op \in DOMAIN ops /\ panels[p].op \in Nat
  BY <1>1, Fields DEF HoldFits, Holding
<1>3. \A op \in Exposed : op = panels[p].op \/ Excused(op)
  BY <1>1 DEF HoldFits, Clear
<1>4. panels[p].step = "checked" =>
         panels[p].op \in overwritten \/ panels[p].op \notin orphans \cup Sent
  BY <1>1 DEF HoldFits, Clear, Excused, Settled, Resolved, Exposed
<1>5. panels[p].step = "asked" =>
         panels[p].op \in overwritten \/ panels[p].op \notin orphans \cup Sent
  BY <1>1 DEF HoldFits
<1> QED BY <1>1, <1>2, <1>3, <1>4, <1>5

(* The record is saved, attempted, before the wallet is asked.             *)
LEMMA WalletAsked ==
    ASSUME Inductive, NEW p \in Panels, Ask(p) PROVE Inductive'
<1>1. PICK k : k = panels[p]
  OBVIOUS
<1>2. /\ k.step = "checked" /\ UNCHANGED <<lock, reviews, orphans, ops, txs, overwritten>>
      /\ saved' = Record(k.op, "prepared", NoHash, TRUE, FALSE) /\ Show(p, saved')
  BY <1>1 DEF Ask
<1>3. /\ k.step \in Holding /\ k.op \in DOMAIN ops /\ k.op \in Nat
      /\ \A op \in Exposed : op = k.op \/ Excused(op)
      /\ k.op \in overwritten \/ k.op \notin orphans \cup Sent
  BY <1>1, <1>2, AtPrompt
<1>4. PICK c : c = [step |-> "asked", op |-> k.op]
  OBVIOUS
<1>5. c \in PanelStates /\ c.step = "asked" /\ c.op = k.op /\ Goto(p, c)
  BY <1>1, <1>3, <1>4 DEF PanelStates, Ask
<1>6. /\ saved' \in Records /\ saved'.op \in {0} \cup DOMAIN ops
      /\ ~Resolved(saved'.status) /\ Names(saved', k.op)
  BY <1>2, <1>3, PromptRecord
<1>7. Sent' = Sent /\ Exposed' \subseteq Exposed \cup {k.op} /\ Exposed \subseteq DOMAIN ops
  <2>1. Asked' \subseteq {k.op}
    BY <1>1, <1>3, <1>5, HolderAsked
  <2> QED BY <1>2, <2>1 DEF Exposed, Sent, Inductive, ServerInOrder
<1>8. Grows
  BY <1>2 DEF Grows
<1>9. \A op \in Exposed' : op = k.op \/ Excused(op)'
  BY <1>2, <1>3, <1>7 DEF Excused, Settled
<1>10. Fits(c)'
  BY <1>2, <1>3, <1>5, <1>7, <1>9 DEF Fits, HoldFits, QueryFits, Holding, Querying
<1>11. shown' \in [Panels -> [op : Nat, unknown : BOOLEAN]]
  BY <1>2, <1>6, ShowsType DEF Inductive
<1>12. Exclusive' /\ lock' \in Panels \cup {NoPanel}
  BY <1>1, <1>2, <1>3, <1>5, KeepExclusive DEF Inductive
<1>13. /\ Exposed' \subseteq DOMAIN ops /\ (orphans \cap Sent)' \subseteq overwritten'
       /\ txs' \in Seq(Nat) /\ Len(txs') <= MaxSends /\ OnceUnlessOverwritten'
       /\ reviews' \in [Panels -> {0} \cup DOMAIN ops]
  BY <1>2, <1>3, <1>7, Same DEF Inductive, ServerInOrder, Types, OnceUnlessOverwritten
<1>14. \A op \in Exposed' : Excused(op)' \/ Names(saved', op)
  BY <1>6, <1>9
<1> QED BY <1>1, <1>2, <1>3, <1>5, <1>6, <1>8, <1>10, <1>11, <1>12, <1>13, <1>14, UnderLock

(* A transaction of an operation that has none, or is excused, gets the    *)
(* next hash.                                                              *)
LEMMA NextHash ==
    ASSUME Inductive, NEW op \in DOMAIN ops, op \in overwritten \/ op \notin Sent,
           Len(txs) < MaxSends, txs' = Append(txs, op), UNCHANGED overwritten
    PROVE  /\ txs' \in Seq(Nat) /\ Len(txs') \in 1..MaxSends /\ Len(txs') \in DOMAIN txs'
           /\ txs'[Len(txs')] = op
           /\ \A j \in DOMAIN txs : j \in DOMAIN txs' /\ txs'[j] = txs[j]
           /\ Sent' = Sent \cup {op}
           /\ OnceUnlessOverwritten'
<1>1. PICK n \in Nat : n = Len(txs) /\ DOMAIN txs = 1..n
  BY DEF Inductive, Types
<1>2. op \in Nat
  BY DEF Inductive, Types
<1>3. /\ txs' \in Seq(Nat) /\ Len(txs') = n + 1 /\ DOMAIN txs' = 1..(n + 1)
      /\ txs'[n + 1] = op /\ \A j \in 1..n : txs'[j] = txs[j]
  BY <1>1, <1>2 DEF Inductive, Types
<1>4. Sent' = Sent \cup {op}
  BY <1>1, <1>3 DEF Sent
<1>5. OnceUnlessOverwritten'
  BY <1>1, <1>3 DEF Sent, Inductive, OnceUnlessOverwritten
<1> QED BY <1>1, <1>3, <1>4, <1>5, ClientBoundsAssumption

(* The transaction exists: what was exposed by the prompt is sent.         *)
LEMMA Sends ==
    ASSUME Inductive, NEW p \in Panels, WalletSends(p) PROVE Inductive'
<1>1. PICK k : k = panels[p]
  OBVIOUS
<1>2. k.step = "asked" /\ UNCHANGED <<saved, lock, shown, reviews, orphans, ops, overwritten>>
  BY <1>1 DEF WalletSends
<1>3. /\ k.step \in Holding /\ k.op \in DOMAIN ops /\ k.op \in Nat
      /\ \A op \in Exposed : op = k.op \/ Excused(op)
      /\ k.op \in overwritten \/ k.op \notin orphans \cup Sent
  BY <1>1, <1>2, AtPrompt
<1>4. PICK h : h = Len(txs')
  OBVIOUS
<1>5. PICK c : c = [step |-> "sent", op |-> k.op, hash |-> h]
  OBVIOUS
<1>6. Goto(p, c) /\ txs' = Append(txs, k.op) /\ Len(txs) < MaxSends
  BY <1>1, <1>4, <1>5 DEF WalletSends
<1>7. /\ txs' \in Seq(Nat) /\ h \in 1..MaxSends /\ h \in DOMAIN txs' /\ txs'[h] = k.op
      /\ \A j \in DOMAIN txs : j \in DOMAIN txs' /\ txs'[j] = txs[j]
      /\ Sent' = Sent \cup {k.op} /\ OnceUnlessOverwritten'
  BY <1>2, <1>3, <1>4, <1>6, NextHash
<1>8. c \in PanelStates /\ c.step = "sent" /\ c.op = k.op /\ c.hash = h
  BY <1>3, <1>5, <1>7 DEF PanelStates, Hashes
<1>9. Exposed' \subseteq Exposed
  <2>1. Asked' = {}
    BY <1>1, <1>3, <1>6, <1>8, HolderAsked
  <2>2. k.op \in Asked
    BY <1>1, <1>2 DEF Asked
  <2> QED BY <1>2, <1>7, <2>1, <2>2 DEF Exposed
<1>10. Grows
  BY <1>2, <1>7 DEF Grows
<1>11. \A op : Excused(op)' <=> Excused(op)
  BY <1>2 DEF Excused, Settled
<1>12. Fits(c)'
  BY <1>2, <1>3, <1>7, <1>8, <1>9, <1>11
     DEF Fits, HoldFits, QueryFits, Holding, Querying, IsOf, NoHash
<1>13. Exclusive' /\ lock' \in Panels \cup {NoPanel}
  BY <1>1, <1>2, <1>3, <1>6, KeepExclusive DEF Inductive
<1>14. /\ saved' \in Records /\ saved'.op \in {0} \cup DOMAIN ops
       /\ Resolved(saved'.status) => saved'.op # 0 /\ Settled(saved'.op)
       /\ \A op \in Exposed' : Excused(op)' \/ Names(saved', op)
  BY <1>2, <1>9, <1>11 DEF Inductive, Types, SavedKnows, Knows
<1>15. Exposed' \subseteq DOMAIN ops /\ (orphans \cap Sent)' \subseteq overwritten'
  BY <1>2, <1>3, <1>7, <1>9 DEF Inductive, ServerInOrder
<1>16. shown' = shown /\ reviews' = reviews /\ ops' = ops /\ Len(txs') <= MaxSends
  BY <1>2, <1>4, <1>7, ClientBoundsAssumption
<1> QED BY <1>1, <1>3, <1>6, <1>7, <1>8, <1>10, <1>12, <1>13, <1>14, <1>15, <1>16, Same, UnderLock

(***************************************************************************)
(* The prompt is done with: refused, answered by an error, or abandoned.   *)
(* The record then names its operation, unless it was refused and so is    *)
(* not exposed any more.                                                   *)
(***************************************************************************)
LEMMA PromptEnds ==
    ASSUME Inductive, NEW p \in Panels, panels[p].step \in {"asked", "sent"},
           Finish(p), reviews' = [reviews EXCEPT ![p] = 0],
           UNCHANGED <<ops, txs, overwritten>>,
           shown' \in [Panels -> [op : Nat, unknown : BOOLEAN]],
           \/ orphans' = orphans
           \/ panels[p].step = "asked" /\ orphans' = orphans \cup {panels[p].op},
           saved' \in Records, saved'.op \in {0} \cup DOMAIN ops,
           Resolved(saved'.status) => saved'.op # 0 /\ Settled(saved'.op),
           \A op \in orphans' \cup Sent : Excused(op) \/ Names(saved', op)
    PROVE  Inductive'
<1>1. PICK k : k = panels[p]
  OBVIOUS
<1>2. /\ k.step \in Holding /\ k.op \in DOMAIN ops /\ k.op \in Nat
      /\ k.step # "sent" => k.op \in overwritten \/ k.op \notin orphans \cup Sent
  BY <1>1, AtPrompt
<1>3. Exclusive' /\ lock' \in Panels \cup {NoPanel} /\ Goto(p, Idle)
  BY FinishExclusive DEF Inductive
<1>4. Sent' = Sent /\ Exposed' = orphans' \cup Sent /\ Exposed' \subseteq Exposed
  <2>1. Asked' = {}
    BY <1>1, <1>2, <1>3, IdleFits, HolderAsked
  <2>2. panels[p].step = "asked" => panels[p].op \in Asked
    BY DEF Asked
  <2> QED BY <2>1, <2>2 DEF Exposed, Sent
<1>5. Grows
  BY DEF Grows
<1>6. \A op : Excused(op)' <=> Excused(op)
  BY DEF Excused, Settled
<1>7. Fits(Idle)'
  BY DEF Idle, Fits, HoldFits, QueryFits, Holding, Querying
<1>8. /\ Exposed' \subseteq DOMAIN ops /\ (orphans \cap Sent)' \subseteq overwritten'
      /\ txs' \in Seq(Nat) /\ Len(txs') <= MaxSends /\ OnceUnlessOverwritten'
      /\ reviews' \in [Panels -> {0} \cup DOMAIN ops]
  BY <1>1, <1>2, <1>4, Same DEF Inductive, ServerInOrder, Types, OnceUnlessOverwritten
<1>9. \A op \in Exposed' : Excused(op)' \/ Names(saved', op)
  BY <1>4, <1>6
<1> QED BY <1>1, <1>2, <1>3, <1>5, <1>7, <1>8, <1>9, IdleFits, UnderLock

(* A refusal withdraws the prompt.                                         *)
LEMMA WalletRefused ==
    ASSUME Inductive, NEW p \in Panels, Refused(p) PROVE Inductive'
<1>1. PICK k : k = panels[p]
  OBVIOUS
<1>2. /\ k.step = "asked" /\ Finish(p) /\ reviews' = [reviews EXCEPT ![p] = 0]
      /\ UNCHANGED <<orphans, ops, txs, overwritten>> /\ Show(p, saved')
      /\ saved' = Record(k.op, "prepared", NoHash, TRUE, TRUE)
  BY <1>1 DEF Refused, EndSubmit
<1>3. /\ k.op \in DOMAIN ops /\ \A op \in Exposed : op = k.op \/ Excused(op)
      /\ k.op \in overwritten \/ k.op \notin orphans \cup Sent
  BY <1>1, <1>2, AtPrompt
<1>4. /\ saved' \in Records /\ saved'.op \in {0} \cup DOMAIN ops /\ ~Resolved(saved'.status)
  BY <1>2, <1>3, PromptRecord
<1>5. shown' \in [Panels -> [op : Nat, unknown : BOOLEAN]]
  BY <1>2, <1>4, ShowsType DEF Inductive
<1>6. \A op \in orphans' \cup Sent : Excused(op)
  BY <1>2, <1>3 DEF Exposed, Excused
<1> QED BY <1>1, <1>2, <1>4, <1>5, <1>6, PromptEnds

(* Nobody waits for the prompt any more, but it may still be answered:     *)
(* what was exposed still is, and the record says so.                      *)
LEMMA AnswerLost ==
    ASSUME Inductive, NEW p \in Panels, Unknown(p) PROVE Inductive'
<1>1. PICK k : k = panels[p]
  OBVIOUS
<1>2. /\ k.step \in {"asked", "sent"} /\ Finish(p) /\ reviews' = [reviews EXCEPT ![p] = 0]
      /\ UNCHANGED <<ops, txs, overwritten>> /\ Show(p, saved')
      /\ saved' = Record(k.op, "prepared", NoHash, TRUE, FALSE)
      /\ orphans' = IF k.step = "asked" THEN orphans \cup {k.op} ELSE orphans
  BY <1>1 DEF Unknown, EndSubmit
<1>3. k.op \in DOMAIN ops /\ \A op \in Exposed : op = k.op \/ Excused(op)
  BY <1>1, <1>2, AtPrompt
<1>4. /\ saved' \in Records /\ saved'.op \in {0} \cup DOMAIN ops /\ ~Resolved(saved'.status)
      /\ Names(saved', k.op)
  BY <1>2, <1>3, PromptRecord
<1>5. shown' \in [Panels -> [op : Nat, unknown : BOOLEAN]]
  BY <1>2, <1>4, ShowsType DEF Inductive
<1>6. k.step = "asked" => k.op \in Asked
  BY <1>1 DEF Asked
<1>7. \A op \in orphans' \cup Sent : Excused(op) \/ Names(saved', op)
  BY <1>2, <1>3, <1>4, <1>6 DEF Exposed
<1> QED BY <1>1, <1>2, <1>4, <1>5, <1>6, <1>7, PromptEnds

(* A tab is closed at any step.                                            *)
LEMMA Closed ==
    ASSUME Inductive, NEW p \in Panels, Close(p) PROVE Inductive'
<1>1. /\ Finish(p) /\ reviews' = [reviews EXCEPT ![p] = 0] /\ Show(p, saved)
      /\ UNCHANGED <<saved, ops, txs, overwritten>>
      /\ orphans' = IF panels[p].step = "asked" THEN orphans \cup {panels[p].op} ELSE orphans
  BY DEF Close, EndSubmit
<1>2. shown' \in [Panels -> [op : Nat, unknown : BOOLEAN]]
  BY <1>1, Same, ShowsType DEF Inductive
<1>3. CASE panels[p].step = "asked"
  <2>1. panels[p].op \in Asked
    BY <1>3 DEF Asked
  <2>2. /\ saved' \in Records /\ saved'.op \in {0} \cup DOMAIN ops
        /\ Resolved(saved'.status) => saved'.op # 0 /\ Settled(saved'.op)
        /\ \A op \in orphans' \cup Sent : Excused(op) \/ Names(saved', op)
    BY <1>1, <2>1 DEF Inductive, Types, SavedKnows, Knows, Exposed
  <2> QED BY <1>1, <1>2, <1>3, <2>1, <2>2, PromptEnds
<1>4. CASE panels[p].step # "asked"
  <2>1. Exclusive' /\ lock' \in Panels \cup {NoPanel} /\ Goto(p, Idle)
    BY <1>1, FinishExclusive DEF Inductive
  <2> QED BY <1>1, <1>2, <1>4, <2>1, Same, IdleFits, Move
<1> QED BY <1>3, <1>4

(* The hash is saved: its operation is the exposed one.                    *)
LEMMA HashSaved ==
    ASSUME Inductive, NEW p \in Panels, HashReturned(p) PROVE Inductive'
<1>1. PICK k : k = panels[p]
  OBVIOUS
<1>2. /\ k.step = "sent" /\ reviews' = [reviews EXCEPT ![p] = 0] /\ Show(p, saved')
      /\ UNCHANGED <<lock, orphans, ops, txs, overwritten>>
      /\ saved' = Record(k.op, "pending", k.hash, TRUE, FALSE)
  BY <1>1 DEF HashReturned
<1>3. /\ k.step \in Holding /\ k.op \in DOMAIN ops /\ k.op \in Nat /\ k.hash \in Hashes
      /\ \A op \in Exposed : op = k.op \/ Excused(op)
  BY <1>1, <1>2, AtPrompt, Fields
<1>4. PICK c : c = [step |-> "returned"]
  OBVIOUS
<1>5. c \in PanelStates /\ c.step = "returned" /\ Goto(p, c)
  BY <1>4 DEF PanelStates, HashReturned
<1>6. Fits(c)
  BY <1>5 DEF Fits, HoldFits, QueryFits, Holding, Querying
<1>7. /\ saved' \in Records /\ saved'.op \in {0} \cup DOMAIN ops /\ ~Resolved(saved'.status)
      /\ Names(saved', k.op)
  BY <1>2, <1>3 DEF Record, Records, Statuses, Names, Attempted, Resolved
<1>8. \A op \in Exposed : Settled(op) \/ op \in overwritten' \/ Names(saved', op)
  BY <1>2, <1>3, <1>7 DEF Excused
<1>9. shown' \in [Panels -> [op : Nat, unknown : BOOLEAN]]
  BY <1>2, <1>7, ShowsType DEF Inductive
<1>10. Exclusive' /\ lock' \in Panels \cup {NoPanel}
  BY <1>1, <1>2, <1>3, <1>5, KeepExclusive DEF Inductive
<1> QED BY <1>2, <1>5, <1>6, <1>7, <1>8, <1>9, <1>10, Same, Writes

-----------------------------------------------------------------------------
(* What a query reads and saves names what the record named.               *)
LEMMA QuerySaved ==
    ASSUME Inductive, NEW p \in Panels, NEW typed \in Typed, Query(p, typed),
           panels[p] = Idle \/ panels[p].step = "returned"
    PROVE  Inductive'
<1>1. PICK hash : hash = IF typed # NoHash THEN typed ELSE saved.hash
  OBVIOUS
<1>2. PICK r : r = IF hash = NoHash THEN saved
                   ELSE [saved EXCEPT !.hash = hash, !.attempted = TRUE]
  OBVIOUS
<1>3. PICK c : c = [step |-> "querying", record |-> r]
  OBVIOUS
<1>4. /\ saved.op # 0 /\ saved' = r /\ Goto(p, c)
      /\ IF hash = NoHash THEN UNCHANGED shown ELSE Show(p, r)
      /\ UNCHANGED <<lock, reviews, orphans, ops, txs, overwritten>>
  BY <1>1, <1>2, <1>3 DEF Query
<1>5. hash \in Hashes
  <2>1. DOMAIN txs \subseteq 0..MaxSends
    BY ClientBoundsAssumption DEF Inductive, Types
  <2>2. NoHash \in 0..MaxSends /\ saved.hash \in Hashes
    BY ClientBoundsAssumption DEF NoHash, Inductive, Types, Records
  <2> QED BY <1>1, <2>1, <2>2 DEF Typed, Hashes
<1>6. /\ r \in Records /\ r.op = saved.op /\ r.status = saved.status
      /\ Attempted(saved) => Attempted(r)
  BY <1>2, <1>5, Same DEF Records, Attempted
<1>7. c \in PanelStates /\ c.step = "querying" /\ c.record = r
  BY <1>3, <1>6 DEF PanelStates
<1>8. saved.op \in DOMAIN ops /\ (Resolved(saved.status) => Settled(saved.op))
  BY <1>4 DEF Inductive, SavedKnows
<1>9. Fits(c)
  BY <1>6, <1>7, <1>8 DEF Fits, HoldFits, QueryFits, Holding, Querying
<1>10. \A op \in Exposed : Settled(op) \/ op \in overwritten' \/ Names(saved', op)
  BY <1>4, <1>6 DEF Inductive, SavedKnows, Knows, Excused, Names
<1>11. shown' \in [Panels -> [op : Nat, unknown : BOOLEAN]]
  BY <1>4, <1>6, Same, ShowsType DEF Inductive
<1>12. Exclusive' /\ lock' \in Panels \cup {NoPanel}
  BY <1>4, <1>7, KeepExclusive DEF Inductive, Holding
<1> QED BY <1>4, <1>6, <1>7, <1>8, <1>9, <1>10, <1>11, <1>12, Same, Writes

(* A query of the user, or of a submission that has its hash.              *)
LEMMA QueryStarted ==
    ASSUME Inductive, NEW p \in Panels,
           SubmitQueries(p) \/ \E typed \in Typed : QueryStarts(p, typed)
    PROVE  Inductive'
<1>1. NoHash \in Typed
  BY DEF Typed
<1> QED BY <1>1, QuerySaved DEF SubmitQueries, QueryStarts

(* The server settles only an operation that has a transaction.            *)
LEMMA QueryAnswered ==
    ASSUME Inductive, NEW p \in Panels, QueryAtServer(p) PROVE Inductive'
<1>1. PICK r : r = panels[p].record
  OBVIOUS
<1>2. PICK o : o = ops[r.op]
  OBVIOUS
<1>3. PICK h : h = IF r.hash = NoHash THEN o.hash ELSE r.hash
  OBVIOUS
<1>4. /\ panels[p].step = "querying" /\ panels[p].step \in Querying
      /\ panels[p] \in PanelStates /\ Fits(panels[p])
      /\ UNCHANGED <<saved, lock, shown, reviews, orphans, txs, overwritten>>
      /\ h # NoHash => h \in DOMAIN txs /\ txs[h] = r.op
  BY <1>1, <1>2, <1>3 DEF QueryAtServer, Inductive, Types, Querying
<1>5. PICK s \in IF Resolved(o.status) \/ h = NoHash THEN {o.status}
                 ELSE {"pending", "resolved"} :
         /\ ops' = [ops EXCEPT ![r.op] = [status |-> s, hash |-> h]]
         /\ Goto(p, [step |-> "answering", record |-> r, status |-> s, hash |-> h])
  BY <1>1, <1>2, <1>3 DEF QueryAtServer
<1>6. r \in Records /\ r.op \in DOMAIN ops
  BY <1>1, <1>4, Fields DEF Fits, QueryFits
<1>7. /\ o \in Rows /\ IsOf(h, r.op) /\ h \in Hashes /\ s \in Statuses
      /\ Resolved(o.status) => s = o.status
      /\ o.status = "prepared" => s = "prepared" \/ r.op \in Sent
  <2>1. ops \in Seq(Rows)
    BY DEF Inductive, Types
  <2>2. o \in Rows
    BY <1>2, <1>6, <2>1
  <2>3. h \in Hashes
    BY <1>3, <1>6, <2>2 DEF Records, Rows
  <2>4. s # o.status => r.op \in Sent
    BY <1>4, <1>5 DEF Sent
  <2> QED BY <1>4, <1>5, <2>2, <2>3, <2>4 DEF Statuses, Rows, IsOf
<1>8. PICK row : row = [status |-> s, hash |-> h]
  OBVIOUS
<1>9. row \in Rows /\ row.status = s /\ row.hash = h
  BY <1>7, <1>8 DEF Rows
<1>10. /\ ops' \in Seq(Rows) /\ DOMAIN ops' = DOMAIN ops /\ ops'[r.op] = row
       /\ \A op \in DOMAIN ops : op # r.op => ops'[op] = ops[op]
  <2>1. ops \in Seq(Rows)
    BY DEF Inductive, Types
  <2> QED BY <1>5, <1>6, <1>8, <1>9, <2>1
<1>11. PICK c : c = [step |-> "answering", record |-> r, status |-> s, hash |-> h]
  OBVIOUS
<1>12. /\ c \in PanelStates /\ c.step = "answering" /\ c.record = r /\ c.status = s
       /\ c.hash = h /\ Goto(p, c)
  BY <1>5, <1>6, <1>7, <1>11 DEF PanelStates
<1>13. Sent' = Sent /\ Exposed' \subseteq Exposed /\ Exposed \subseteq DOMAIN ops
  <2>1. Asked' \subseteq Asked
    BY <1>12, NotAsked DEF Inductive
  <2> QED BY <1>4, <2>1 DEF Exposed, Sent, Inductive, ServerInOrder
<1>14. \A op \in DOMAIN ops : Settled(op) => Settled(op)'
  BY <1>2, <1>7, <1>9, <1>10 DEF Settled
<1>15. Calm /\ Grows
  <2>1. Grows
    BY <1>4, <1>10, <1>14 DEF Grows, Settled
  <2>2. \A op \in DOMAIN ops :
           ops[op].status = "prepared" => ops'[op].status = "prepared" \/ op \in Sent
    BY <1>2, <1>7, <1>9, <1>10
  <2> QED BY <1>4, <1>13, <2>1, <2>2 DEF Calm
<1>16. Fits(c)'
  <2>1. Resolved(s) => Settled(r.op)'
    BY <1>9, <1>10 DEF Settled
  <2>2. IsOf(h, r.op)' /\ r.op \in DOMAIN ops'
    BY <1>4, <1>6, <1>7, <1>10 DEF IsOf
  <2> QED BY <1>12, <2>1, <2>2 DEF Fits, HoldFits, QueryFits, Holding, Querying
<1>17. panels' \in [Panels -> PanelStates] /\ \A q \in Panels : Fits(panels[q])'
  BY <1>12, <1>15, <1>16, OneMoves
<1>18. Types'
  BY <1>4, <1>10, <1>17 DEF Inductive, Types
<1>19. Exclusive'
  BY <1>4, <1>12, KeepExclusive DEF Inductive, Holding
<1>20. ServerInOrder'
  <2>1. \A op \in DOMAIN ops : IsOf(ops'[op].hash, op)
    BY <1>7, <1>9, <1>10 DEF Inductive, ServerInOrder
  <2> QED BY <1>4, <1>10, <1>13, <2>1 DEF Inductive, ServerInOrder, IsOf
<1>21. SavedKnows'
  <2>1. \A op \in Exposed : Excused(op) => Excused(op)'
    BY <1>15, StaysExcused
  <2>2. Knows(saved)'
    BY <1>4, <1>13, <2>1 DEF Inductive, SavedKnows, Knows, Names
  <2> QED BY <1>4, <1>10, <1>14, <2>2 DEF Inductive, SavedKnows
<1>22. OnceUnlessOverwritten' /\ \A q \in Panels : reviews'[q] \in {0} \cup DOMAIN ops'
  BY <1>4, <1>10 DEF Inductive, OnceUnlessOverwritten
<1> QED BY <1>17, <1>18, <1>19, <1>20, <1>21, <1>22 DEF Inductive

(* Whatever is written over the record, what it named is excused then.     *)
LEMMA WrittenOver ==
    ASSUME Inductive, Overwrites
    PROVE  /\ overwritten \subseteq overwritten'
           /\ \A op \in Exposed : Settled(op) \/ op \in overwritten' \/ Names(saved', op)
BY DEF Overwrites, Inductive, SavedKnows, Knows, Excused, Names, Settled

(* The answer is of the operation that the query read.                     *)
LEMMA QueryEnded ==
    ASSUME Inductive, NEW p \in Panels, QueryEnds(p) PROVE Inductive'
<1>1. PICK k : k = panels[p]
  OBVIOUS
<1>2. /\ k.step = "answering" /\ k \in PanelStates /\ Fits(k) /\ Overwrites
      /\ saved' = [k.record EXCEPT !.status = k.status, !.hash = k.hash]
      /\ Show(p, saved') /\ Finish(p) /\ UNCHANGED <<reviews, orphans, ops, txs>>
  BY <1>1 DEF QueryEnds, Inductive, Types
<1>3. /\ k.record \in Records /\ k.status \in Statuses /\ k.hash \in Hashes
      /\ k.record.op \in DOMAIN ops /\ (Resolved(k.status) => Settled(k.record.op))
  BY <1>2, Fields DEF Fits, QueryFits, Querying
<1>4. saved' \in Records /\ saved'.op = k.record.op /\ saved'.status = k.status
  BY <1>2, <1>3 DEF Records
<1>5. k.record.op # 0
  BY <1>3 DEF Inductive, Types
<1>6. shown' \in [Panels -> [op : Nat, unknown : BOOLEAN]]
  BY <1>2, <1>4, ShowsType DEF Inductive
<1>7. Exclusive' /\ lock' \in Panels \cup {NoPanel} /\ Goto(p, Idle)
  BY <1>2, FinishExclusive DEF Inductive
<1> QED BY <1>2, <1>3, <1>4, <1>5, <1>6, <1>7, WrittenOver, IdleFits, Same, Writes

(* What is loaded is an unresolved operation of the server.                *)
LEMMA Loaded ==
    ASSUME Inductive, NEW p \in Panels, LoadOriginal(p) PROVE Inductive'
<1>1. PICK v \in Views : Load(p, v)
  BY DEF LoadOriginal
<1>2. v.op \in DOMAIN ops /\ ~Resolved(v.found.status) /\ v.found \in Rows
  <2>1. PICK i \in DOMAIN ops : v \in [op : {i}, found : Earlier(ops[i])]
    BY DEF Views
  <2>2. ops[i] \in Rows
    BY DEF Inductive, Types
  <2>3. v.op = i /\ v.found \in Earlier(ops[i])
    BY <2>1
  <2>4. v.found \in Rows
    BY <2>2, <2>3, ClientBoundsAssumption DEF Earlier, Rows, Statuses, Hashes, NoHash
  <2> QED BY <2>3, <2>4 DEF Views
<1>3. /\ saved' = Record(v.op, v.found.status, v.found.hash, TRUE, FALSE)
      /\ Overwrites /\ Show(p, saved')
      /\ UNCHANGED <<lock, panels, reviews, orphans, ops, txs>> /\ panels[p] = Idle
  BY <1>1 DEF Load, LoadOriginal
<1>4. v.op \in Nat /\ v.op # 0
  BY <1>2 DEF Inductive, Types
<1>5. saved' \in Records /\ saved'.op = v.op /\ ~Resolved(saved'.status)
  BY <1>2, <1>3, <1>4 DEF Record, Records, Rows
<1>6. Goto(p, Idle)
  BY <1>3 DEF Goto, Inductive, Types
<1>7. Exclusive' /\ lock' \in Panels \cup {NoPanel}
  BY <1>3 DEF Exclusive, Inductive, Types
<1>8. shown' \in [Panels -> [op : Nat, unknown : BOOLEAN]]
  BY <1>3, <1>5, ShowsType DEF Inductive
<1> QED BY <1>2, <1>3, <1>5, <1>6, <1>7, <1>8, WrittenOver, IdleFits, Same, Writes

(* A prompt that nobody waits for is answered: what was exposed still is.  *)
LEMMA OrphanSent ==
    ASSUME Inductive, NEW op \in orphans, OrphanSends(op) PROVE Inductive'
<1>1. /\ Len(txs) < MaxSends /\ txs' = Append(txs, op) /\ orphans' = orphans \ {op}
      /\ UNCHANGED <<saved, lock, panels, shown, reviews, ops, overwritten>>
  BY DEF OrphanSends
<1>2. op \in DOMAIN ops /\ (op \in overwritten \/ op \notin Sent)
  BY DEF Inductive, ServerInOrder, Exposed
<1>3. /\ txs' \in Seq(Nat) /\ Len(txs') \in 1..MaxSends
      /\ \A j \in DOMAIN txs : j \in DOMAIN txs' /\ txs'[j] = txs[j]
      /\ Sent' = Sent \cup {op} /\ OnceUnlessOverwritten'
  BY <1>1, <1>2, NextHash
<1>4. Exposed' = Exposed /\ (orphans \cup Sent)' = orphans \cup Sent
  BY <1>1, <1>3 DEF Exposed, Asked
<1>5. Grows /\ Calm
  BY <1>1, <1>3, <1>4 DEF Calm, Grows
<1>6. \A q \in Panels : Fits(panels[q])'
  BY <1>1, <1>5, OthersFit
<1>7. Types' /\ Exclusive' /\ \A q \in Panels : reviews'[q] \in {0} \cup DOMAIN ops'
  BY <1>1, <1>3 DEF Inductive, Types, Exclusive
<1>8. ServerInOrder'
  BY <1>1, <1>2, <1>3, <1>4 DEF Inductive, ServerInOrder, IsOf
<1>9. SavedKnows'
  BY <1>1, <1>4 DEF Inductive, SavedKnows, Knows, Excused, Settled, Names
<1> QED BY <1>3, <1>6, <1>7, <1>8, <1>9 DEF Inductive

-----------------------------------------------------------------------------
(* A browser that has saved nothing satisfies the invariant.               *)
LEMMA InitInductive == Init => Inductive
<1> SUFFICES ASSUME Init PROVE Inductive
  OBVIOUS
<1>1. /\ saved = Record(0, "none", NoHash, FALSE, FALSE) /\ lock = NoPanel
      /\ \A p \in Panels : panels[p] = Idle /\ reviews[p] = 0
      /\ orphans = {} /\ ops = <<>> /\ txs = <<>>
  BY DEF Init, NoRecord
<1>2. Exposed = {} /\ Sent = {}
  BY <1>1, IdleFits DEF Exposed, Asked, Sent
<1>3. saved \in Records /\ saved.op = 0 /\ ~Resolved(saved.status)
  BY <1>1, ClientBoundsAssumption DEF Record, Records, Statuses, Hashes, NoHash, Resolved
<1>4. panels \in [Panels -> PanelStates] /\ reviews \in [Panels -> Nat]
  BY IdleFits DEF Init
<1>5. shown \in [Panels -> [op : Nat, unknown : BOOLEAN]]
  BY DEF Init, Shows, NoRecord, Record, Attempted
<1>6. Types
  <2>1. \A S : <<>> \in Seq(S)
    OBVIOUS
  <2>2. Len(txs) <= MaxSends
    BY <1>1, ClientBoundsAssumption
  <2> QED BY <1>1, <1>3, <1>4, <1>5, <2>1, <2>2 DEF Types
<1>7. \A p \in Panels : Fits(panels[p])
  BY <1>1, IdleFits
<1>8. Exclusive
  BY <1>1 DEF Exclusive, Idle, Holding
<1>9. ServerInOrder /\ OnceUnlessOverwritten /\ SavedKnows
  <2>1. DOMAIN ops = {} /\ DOMAIN txs = {}
    BY <1>1
  <2> QED BY <1>1, <1>2, <1>3, <2>1 DEF ServerInOrder, OnceUnlessOverwritten, SavedKnows, Knows
<1> QED BY <1>1, <1>6, <1>7, <1>8, <1>9 DEF Inductive

(* When nothing happens the invariant stays.                               *)
LEMMA Unchanged == ASSUME Inductive, UNCHANGED vars PROVE Inductive'
<1>1. Exposed' = Exposed /\ Sent' = Sent
  BY DEF vars, Exposed, Asked, Sent
<1>2. Calm
  BY <1>1 DEF vars, Calm, Grows
<1>3. \A q \in Panels : Fits(panels[q])'
  BY <1>2, OthersFit DEF vars
<1>4. /\ Types' /\ Exclusive' /\ OnceUnlessOverwritten'
      /\ \A q \in Panels : reviews'[q] \in {0} \cup DOMAIN ops'
  BY DEF vars, Inductive, Types, Exclusive, OnceUnlessOverwritten
<1>5. ServerInOrder' /\ SavedKnows'
  BY <1>1 DEF vars, Inductive, ServerInOrder, SavedKnows, Knows, Names, Excused, Settled, IsOf
<1> QED BY <1>3, <1>4, <1>5 DEF Inductive

(* Every step of a panel, of an open prompt or of nobody preserves it.     *)
LEMMA StepInductive == Inductive /\ [Next]_vars => Inductive'
<1> SUFFICES ASSUME Inductive, [Next]_vars PROVE Inductive'
  OBVIOUS
<1>1. ASSUME NEW p \in Panels, PanelStep(p) PROVE Inductive'
  <2>1. CASE PrepareStarts(p) \/ PrepareAtServer(p) \/ PrepareSaves(p)
    BY <2>1, PrepareStarted, PrepareAnswered, PrepareSaved
  <2>2. CASE PrepareReviewed(p) \/ DropReview(p) \/ Hears(p)
    BY <2>2, Reviewed, ShownAgain
  <2>3. CASE PrepareFails(p) \/ SubmitFails(p) \/ QueryFails(p)
    BY <2>3, Fails
  <2>4. CASE SubmitStarts(p) \/ SubmitConnects(p) \/ SubmitRechecks(p) \/ Ask(p)
    BY <2>4, SubmitStarted, Preflight, WalletAsked
  <2>5. CASE WalletSends(p) \/ Refused(p) \/ Unknown(p) \/ HashReturned(p)
    BY <2>5, Sends, WalletRefused, AnswerLost, HashSaved
  <2>6. CASE SubmitQueries(p) \/ \E typed \in Typed : QueryStarts(p, typed)
    BY <2>6, QueryStarted
  <2>7. CASE QueryAtServer(p) \/ QueryEnds(p)
    BY <2>7, QueryAnswered, QueryEnded
  <2>8. CASE LoadOriginal(p) \/ Close(p)
    BY <2>8, Loaded, Closed
  <2> QED BY <1>1, <2>1, <2>2, <2>3, <2>4, <2>5, <2>6, <2>7, <2>8 DEF PanelStep
<1>2. CASE \E op \in orphans : OrphanSends(op)
  BY <1>2, OrphanSent
<1>3. CASE UNCHANGED vars
  BY <1>3, Unchanged
<1> QED BY <1>1, <1>2, <1>3 DEF Next

(* So the invariant holds at all times.                                    *)
LEMMA Always == Spec => []Inductive
BY InitInductive, StepInductive, PTL DEF Spec

-----------------------------------------------------------------------------
(* The types of the state.                                                 *)
THEOREM TypeCorrect == Spec => []Types
BY Always, PTL DEF Inductive

(* However many panels race, whatever is typed, and whenever prompts are   *)
(* answered: an operation is sent twice only if an answer to a query or a  *)
(* load wrote over its record (submitSettlement).                          *)
THEOREM NeverSentTwice == Spec => []OnceUnlessOverwritten
BY Always, PTL DEF Inductive

(* While an operation that was sent is unresolved, the saved record names  *)
(* it and says that it was sent, unless one of the two wrote over it       *)
(* (settlement.ts, recoverSettlement).                                     *)
THEOREM UnknownKept == Spec => []KeptUnlessOverwritten
<1>1. Inductive => KeptUnlessOverwritten
  BY DEF Inductive, SavedKnows, Knows, Names, Exposed, Sent, Excused, Settled,
         KeptUnlessOverwritten
<1> QED BY <1>1, Always, PTL

(* The record does not lose the hash of a transaction before its operation *)
(* is resolved, but to a late answer or a late load (settlement.ts,        *)
(* recoverSettlement).                                                     *)
THEOREM HashNotReplaced == Spec => FirstHashKept
<1> DEFINE Kept == /\ saved'.op = saved.op
                   /\ \/ saved'.hash = saved.hash
                      \/ saved'.hash = NoHash /\ (LateAnswer \/ LateLoad)
<1>1. Inductive /\ [Next]_vars => [HashIsKept]_vars
  <2> SUFFICES ASSUME Inductive, Next, saved.hash \in DOMAIN txs, txs[saved.hash] = saved.op,
                      ~Settled(saved.op), saved.op \notin overwritten'
               PROVE  Kept
    BY DEF HashIsKept, Settled
  <2>1. PICK op : op = saved.op
    OBVIOUS
  <2>2. overwritten \subseteq overwritten'
    BY DEF Next, PanelStep, PrepareStarts, PrepareAtServer, PrepareSaves, PrepareReviewed,
           PrepareFails, DropReview, Hears, SubmitStarts, SubmitConnects, SubmitRechecks, Ask,
           SubmitFails, WalletSends, Refused, Unknown, HashReturned, SubmitQueries, QueryStarts,
           Query, QueryAtServer, QueryEnds, QueryFails, LoadOriginal, Load, Close, OrphanSends,
           Overwrites
  <2>3. /\ saved \in Records /\ saved.hash # NoHash /\ op \in Sent /\ op \in Exposed
        /\ ~Excused(op) /\ op \notin overwritten /\ Attempted(saved)
        /\ \A h \in DOMAIN txs : txs[h] = op => h = saved.hash
    <3>1. saved.hash # NoHash
      BY ClientBoundsAssumption DEF Inductive, Types, NoHash
    <3>2. op \in Sent /\ op \in Exposed /\ op \notin overwritten /\ ~Excused(op)
      BY <2>1, <2>2 DEF Sent, Exposed, Excused
    <3>3. Attempted(saved) /\ saved \in Records
      BY <2>1, <3>2 DEF Inductive, SavedKnows, Knows, Names, Types
    <3>4. \A h \in DOMAIN txs : txs[h] = op => h = saved.hash
      BY <2>1, <3>2 DEF Inductive, OnceUnlessOverwritten
    <3> QED BY <3>1, <3>2, <3>3, <3>4
  <2>4. ~Clear
    BY <2>3 DEF Clear
  <2>5. \A h : IsOf(h, op) => h \in {NoHash, saved.hash}
    BY <2>3 DEF IsOf
  <2>6. ASSUME NEW p \in Panels, PrepareSaves(p) \/ Ask(p) \/ Refused(p) PROVE FALSE
    <3>1. CASE PrepareSaves(p) \/ Ask(p)
      BY <2>4, <3>1 DEF PrepareSaves, Ask, Inductive, Fits, HoldFits
    <3>2. CASE Refused(p)
      BY <2>3, <3>2, AtPrompt DEF Refused
    <3> QED BY <2>6, <3>1, <3>2
  <2>7. ASSUME NEW p \in Panels, Unknown(p) PROVE Kept
    <3>1. panels[p].step = "sent" /\ panels[p].op = op
      BY <2>3, <2>7, AtPrompt DEF Unknown
    <3>2. saved'.op = op /\ saved'.hash = NoHash
      BY <2>7, <3>1 DEF Unknown, Record
    <3>3. panels'[p] = Idle
      BY <2>7 DEF Unknown, EndSubmit, Finish, Goto, Inductive, Types
    <3> QED BY <2>1, <3>1, <3>2, <3>3 DEF LateAnswer
  <2>8. ASSUME NEW p \in Panels, HashReturned(p) PROVE Kept
    <3>1. panels[p].op = op /\ IsOf(panels[p].hash, op) /\ panels[p].hash # NoHash
      BY <2>3, <2>8, AtPrompt DEF HashReturned, HoldFits
    <3>2. saved'.op = op /\ saved'.hash = panels[p].hash
      BY <2>8, <3>1 DEF HashReturned, Record
    <3> QED BY <2>1, <2>5, <3>1, <3>2
  <2>9. ASSUME NEW p \in Panels, NEW typed \in Typed, Query(p, typed) PROVE Kept
    <3>1. PICK hash : hash = IF typed # NoHash THEN typed ELSE saved.hash
      OBVIOUS
    <3>2. hash = saved.hash
      BY <2>3, <2>9, <3>1 DEF Query
    <3>3. saved' = [saved EXCEPT !.hash = hash, !.attempted = TRUE]
      BY <2>3, <2>9, <3>1, <3>2 DEF Query
    <3> QED BY <2>3, <3>2, <3>3 DEF Records
  <2>10. Overwrites => saved'.op = saved.op
    BY <2>3 DEF Overwrites, Settled
  <2>11. ASSUME NEW p \in Panels, QueryEnds(p) PROVE Kept
    <3>1. PICK k : k = panels[p]
      OBVIOUS
    <3>2. /\ k.step = "answering" /\ k.record \in Records /\ k.record.hash \in {NoHash, k.hash}
          /\ IsOf(k.hash, k.record.op) /\ Overwrites
          /\ saved' = [k.record EXCEPT !.status = k.status, !.hash = k.hash]
      BY <2>11, <3>1, Fields DEF QueryEnds, Inductive, Types, Fits, QueryFits, Querying
    <3>3. saved'.op = k.record.op /\ saved'.hash = k.hash
      BY <3>2 DEF Records
    <3>4. saved'.op = op /\ k.hash \in {NoHash, saved.hash}
      BY <2>1, <2>5, <2>10, <3>2, <3>3
    <3>5. panels'[p] = Idle
      BY <2>11 DEF QueryEnds, Finish, Goto, Inductive, Types
    <3>6. k.hash = NoHash => LateAnswer
      BY <3>1, <3>2, <3>5 DEF LateAnswer
    <3> QED BY <2>1, <3>3, <3>4, <3>6
  <2>12. ASSUME NEW p \in Panels, LoadOriginal(p) PROVE Kept
    <3>1. PICK v \in Views : shown[p].op # v.op /\ Load(p, v) /\ panels[p] = Idle
      BY <2>12 DEF LoadOriginal
    <3>2. saved'.op = v.op /\ saved'.hash = v.found.hash /\ v.op = op
      BY <2>1, <2>10, <3>1 DEF Load, Record
    <3>3. IsOf(v.found.hash, op)
      <4>1. PICK i \in DOMAIN ops : v \in [op : {i}, found : Earlier(ops[i])]
        BY DEF Views
      <4>2. IsOf(ops[i].hash, i) /\ v.op = i /\ v.found \in Earlier(ops[i]) /\ ops[i] \in Rows
        BY <4>1 DEF Inductive, ServerInOrder, Types
      <4>3. v.found.hash \in {NoHash, ops[i].hash}
        BY <4>2 DEF Earlier, Rows
      <4> QED BY <3>2, <4>2, <4>3 DEF IsOf
    <3>4. shown'[p].op = op
      BY <2>1, <3>1, <3>2 DEF Load, Show, Shows, Inductive, Types
    <3> QED BY <2>1, <2>5, <3>1, <3>2, <3>3, <3>4 DEF LateLoad
  <2>13. ASSUME NEW p \in Panels, PanelStep(p) PROVE Kept
    <3>1. CASE UNCHANGED saved
      BY <3>1
    <3>2. CASE SubmitQueries(p) \/ \E typed \in Typed : QueryStarts(p, typed)
      <4>1. NoHash \in Typed
        BY DEF Typed
      <4> QED BY <2>9, <3>2, <4>1 DEF SubmitQueries, QueryStarts
    <3> HIDE DEF Kept
    <3> QED BY <2>6, <2>7, <2>8, <2>11, <2>12, <2>13, <3>1, <3>2
            DEF PanelStep, PrepareStarts, PrepareAtServer, PrepareReviewed,
                PrepareFails, DropReview, Hears, SubmitStarts, SubmitConnects, SubmitRechecks,
                SubmitFails, WalletSends, QueryAtServer, QueryFails, Close
  <2> QED BY <2>13 DEF Next, OrphanSends
<1> QED BY <1>1, Always, PTL DEF Spec, FirstHashKept
=============================================================================
