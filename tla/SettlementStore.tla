--------------------------- MODULE SettlementStore ---------------------------
(***************************************************************************)
(* The settlement protocol of the server (engine/internal/service:         *)
(* settlement.go, settlement_http.go, settlement_rpc.go), composed with    *)
(* the chain (Escrow) and the wallets of the two parties.                  *)
(*                                                                         *)
(* The server prepares one operation at a time, a wallet sends the         *)
(* transaction, somebody reports its hash, and the server reads the chain  *)
(* and records the outcome.  It signs nothing: whether and how often a     *)
(* prepared operation is sent, when it is mined, which of several hashes   *)
(* is reported, and what else the parties do at the contract is outside    *)
(* its control.                                                            *)
(*                                                                         *)
(* A block is a second of block time.  The contract is deployed and every  *)
(* match is newer than the deployment.  A transaction hash is its position *)
(* in txs.                                                                 *)
(***************************************************************************)
EXTENDS Escrow, Sequences, FiniteSetsExt

CONSTANTS
    MatchTerms,   \* seller, buyer, amount and price of each row of matches
    Lag,          \* how old the block read for a preparation may be
    MaxOps,       \* bound on operations, for TLC
    MaxTxs        \* bound on transactions, for TLC

ASSUME MatchTermsAssumption ==
    MatchTerms \in [Matches -> [seller : Traders, buyer : Traders,
                                amount : Amounts, price : Prices]]
ASSUME StoreBoundsAssumption == Lag \in Nat /\ MaxOps \in Nat /\ MaxTxs \in Nat

VARIABLES
    settlements,   \* the settlements table, by match
    ops,           \* the settlement_operations table, oldest first
    txs,           \* transactions sent to the chain
    opening        \* balances at the end of the previous block

storeVars == <<settlements, ops, txs, opening>>
allVars == <<vars, storeVars>>

Actions == {"lock", "register", "settle", "cancel", "reclaim", "orphan"}
NoHash == 0
NoSettlement == [status |-> "none"]

Held(a) == MapThenSumSet(LAMBDA k : holds[k].amount, {k \in Keys : k[1] = a})

Balances == [a \in Accounts |-> [free |-> nova[a], held |-> Held(a)]]

StoreInit ==
    /\ Init
    /\ settlements = [m \in Matches |-> NoSettlement]
    /\ ops = <<>>
    /\ txs = <<>>
    /\ opening = Balances

-----------------------------------------------------------------------------
(***************************************************************************)
(* PrepareSettlement, under the market lock.  Another operation that is    *)
(* unresolved is either the answer (the same match and action) or an       *)
(* error.  The first lock of a match fixes its terms, all but the Hold.    *)
(***************************************************************************)
Unresolved(o) == o.status \in {"prepared", "pending"}

(* Mutant: a reported operation no longer holds the slot.                  *)
SlotFreeOnceReported == \A i \in DOMAIN ops : ops[i].status # "prepared"

SlotFree == \A i \in DOMAIN ops : ~Unresolved(ops[i])

FirstTerms(m, chainTime) ==
    LET t == MatchTerms[m]
    IN  [match |-> m, seller |-> t.seller, buyer |-> t.buyer, amount |-> t.amount,
         price |-> t.price, preparedAt |-> chainTime, expiry |-> chainTime + Validity,
         hold |-> 0]

AllowedFrom ==
    [lock |-> "Unprepared", register |-> "Locked", settle |-> "Ready",
     cancel |-> "Ready", reclaim |-> "Ready", orphan |-> "Locked"]

Sender(action, t) == IF action = "settle" THEN t.buyer ELSE t.seller

(* Mutant: the terms of a lock that failed are prepared afresh.            *)
PrepareSettlementAfresh(m, action, chainTime) ==
    LET old == settlements[m]
        v == IF old.status \in {"none", "Unprepared"} /\ action = "lock"
             THEN [status |-> "Unprepared", terms |-> FirstTerms(m, chainTime)]
             ELSE old
    IN  /\ SlotFree
        /\ v.status = AllowedFrom[action]
        /\ CASE action = "reclaim" -> chainTime >= v.terms.expiry
             [] action = "orphan" -> TRUE
             [] OTHER -> chainTime < v.terms.expiry
        /\ settlements' = [settlements EXCEPT ![m] = v]
        /\ ops' = Append(ops, [match |-> m, action |-> action, terms |-> v.terms,
                               sender |-> Sender(action, v.terms), status |-> "prepared",
                               hash |-> NoHash])
        /\ UNCHANGED <<vars, txs, opening>>

PrepareSettlement(m, action, chainTime) ==
    LET old == settlements[m]
        v == IF old = NoSettlement /\ action = "lock"
             THEN [status |-> "Unprepared", terms |-> FirstTerms(m, chainTime)]
             ELSE old
    IN  /\ SlotFree
        /\ v.status = AllowedFrom[action]
        /\ CASE action = "reclaim" -> chainTime >= v.terms.expiry
             [] action = "orphan" -> TRUE
             [] OTHER -> chainTime < v.terms.expiry
        /\ settlements' = [settlements EXCEPT ![m] = v]
        /\ ops' = Append(ops, [match |-> m, action |-> action, terms |-> v.terms,
                               sender |-> Sender(action, v.terms), status |-> "prepared",
                               hash |-> NoHash])
        /\ UNCHANGED <<vars, txs, opening>>

-----------------------------------------------------------------------------
(***************************************************************************)
(* The wallets.  A sender may send the transaction of an unresolved        *)
(* operation again, from another browser or after losing the first hash.   *)
(***************************************************************************)
Send(i) ==
    /\ Unresolved(ops[i])
    /\ txs' = Append(txs, [action |-> ops[i].action, terms |-> ops[i].terms,
                           sender |-> ops[i].sender, status |-> "sent",
                           block |-> 0, hold |-> 0, proof |-> FALSE])
    /\ UNCHANGED <<vars, settlements, ops, opening>>

LockedHold(t) ==
    [amount |-> t.amount, expiry |-> t.expiry, escrow |-> Contract, to |-> t.buyer,
     kind |-> "plain"]

NextHold(a) ==
    IF \E id \in HoldIds : holds[<<a, id>>] = NoHold
    THEN Min({id \in HoldIds : holds[<<a, id>>] = NoHold})
    ELSE 0

Succeeds(x) ==
    LET t == x.terms
    IN  CASE x.action = "lock" ->
                /\ NextHold(t.seller) # 0
                /\ CreateHold(t.seller, NextHold(t.seller), LockedHold(t))
          [] x.action = "register" -> Register(t, x.sender)
          [] x.action = "settle" -> Settle(t, x.sender, Price(t))
          [] x.action = "cancel" -> Cancel(t, x.sender)
          [] x.action = "reclaim" -> Reclaim(t, x.sender)
          [] x.action = "orphan" -> RecoverOrphan(x.sender, t.hold)

CanSucceed(x) ==
    LET t == x.terms
    IN  CASE x.action = "lock" ->
                /\ NextHold(t.seller) # 0
                /\ CanCreate(t.seller, NextHold(t.seller), LockedHold(t))
          [] x.action = "register" -> CanRegister(t, x.sender)
          [] x.action = "settle" ->
                CanSettle(t, x.sender, Price(t)) /\ Price(t) <= hbar[x.sender]
          [] x.action = "cancel" -> CanReturn(t, x.sender, FALSE)
          [] x.action = "reclaim" -> CanReturn(t, x.sender, TRUE)
          [] x.action = "orphan" -> CanRecover(x.sender, t.hold)

Mine(j) ==
    LET x == txs[j]
        done(status, hold) ==
            txs' = [txs EXCEPT ![j].status = status, ![j].block = time, ![j].hold = hold]
    IN  /\ x.status = "sent"
        /\ \/ /\ Succeeds(x)
              /\ done("success", IF x.action = "lock" THEN NextHold(x.terms.seller) ELSE 0)
           \/ /\ ~CanSucceed(x)
              /\ done("reverted", 0)
              /\ UNCHANGED vars
        /\ UNCHANGED <<settlements, ops, opening>>

(***************************************************************************)
(* What anybody does at the token and the contract without the server:     *)
(* every call that either accepts, a Hold or a registration that the       *)
(* server never prepared included.  NewHolds and Offers are the Holds and  *)
(* the terms that are tried.                                               *)
(***************************************************************************)
OutOfBand ==
    /\ TokenStep \/ ContractStep
    /\ UNCHANGED storeVars

-----------------------------------------------------------------------------
(***************************************************************************)
(* verifySettlementChain.  The server reads the contract, the Hold and the *)
(* balances at the end of the transaction's block, and the balances at the *)
(* end of the block before.  This is decided when the block closes.        *)
(***************************************************************************)
Delta(action, amount) ==
    CASE action = "lock" -> [sellerFree |-> -amount, sellerHeld |-> amount, buyerFree |-> 0]
      [] action = "settle" -> [sellerFree |-> 0, sellerHeld |-> -amount, buyerFree |-> amount]
      [] action = "register" -> [sellerFree |-> 0, sellerHeld |-> 0, buyerFree |-> 0]
      [] OTHER -> [sellerFree |-> amount, sellerHeld |-> -amount, buyerFree |-> 0]

BalancesMove(x) ==
    LET t == x.terms
        d == IF x.status = "reverted" THEN Delta("register", 0) ELSE Delta(x.action, t.amount)
    IN  /\ Balances[t.seller].free = opening[t.seller].free + d.sellerFree
        /\ Balances[t.seller].held = opening[t.seller].held + d.sellerHeld
        /\ Balances[t.buyer].free = opening[t.buyer].free + d.buyerFree
        /\ Balances[t.buyer].held = opening[t.buyer].held

StateAfter ==
    [register |-> "Ready", settle |-> "Settled", cancel |-> "Cancelled", reclaim |-> "Reclaimed"]

BlockProves(x) ==
    /\ x.status = "success" =>
          /\ x.action = "lock" => CheckHold([x.terms EXCEPT !.hold = x.hold])
          /\ x.action = "register" => CheckHold(x.terms)
          /\ x.action \in DOMAIN StateAfter => state[x.terms] = StateAfter[x.action]
    /\ BalancesMove(x)

NextBlock ==
    /\ Advance
    /\ txs' = [j \in DOMAIN txs |->
                 IF txs[j].status # "sent" /\ txs[j].block = time
                 THEN [txs[j] EXCEPT !.proof = BlockProves(txs[j])]
                 ELSE txs[j]]
    /\ opening' = Balances
    /\ UNCHANGED <<settlements, ops>>

-----------------------------------------------------------------------------
(***************************************************************************)
(* checkTransaction: the reported transaction has the sender and calldata  *)
(* of the operation.  The calldata of a lock is the Hold, without the      *)
(* match; that of a recovery is the Hold id; the others carry the digest.  *)
(***************************************************************************)
Calldata(action, t) ==
    CASE action = "lock" -> <<action, LockedHold(t)>>
      [] action = "orphan" -> <<action, t.hold>>
      [] OTHER -> <<action, t>>

(* Mutant: any transaction of the sender is taken for the operation's.     *)
SameSender(o, x) == o.sender = x.sender

SameCall(o, x) ==
    /\ o.sender = x.sender
    /\ o.action = x.action
    /\ Calldata(o.action, o.terms) = Calldata(x.action, x.terms)

(* SaveSettlementHash: immutable once stored, and of one operation only.   *)
ReportHash(i, j) ==
    /\ SameCall(ops[i], txs[j])
    /\ ops[i].hash = NoHash
    /\ \A k \in DOMAIN ops : ops[k].hash # j
    /\ ops' = [ops EXCEPT ![i].hash = j, ![i].status = "pending"]
    /\ UNCHANGED <<vars, settlements, txs, opening>>

Closed(x) == x.status # "sent" /\ x.block < time

(* UNIQUE (seller, hold_id) of the settlements table.                      *)
HoldIsFree(k, m) ==
    \A n \in Matches \ {m} :
       settlements[n] # NoSettlement => Key(settlements[n].terms) # k

StatusAfter ==
    [lock |-> "Locked", register |-> "Ready", settle |-> "Settled",
     cancel |-> "Cancelled", reclaim |-> "Reclaimed", orphan |-> "Returned"]

(***************************************************************************)
(* RecoverSettlement and ApplySettlementEvidence.  Evidence of an          *)
(* operation already resolved is the same evidence and changes nothing;    *)
(* a chain that does not prove the outcome leaves the operation pending.   *)
(***************************************************************************)
Recover(i) ==
    LET o == ops[i]
        x == txs[o.hash]
        m == o.match
        v == settlements[m]
    IN  /\ o.status = "pending"
        /\ Closed(x)
        /\ x.proof
        /\ IF x.status = "reverted"
           THEN /\ ops' = [ops EXCEPT ![i].status = "reverted"]
                /\ UNCHANGED settlements
           ELSE LET terms == IF o.action = "lock" THEN [v.terms EXCEPT !.hold = x.hold]
                             ELSE v.terms
                IN  /\ HoldIsFree(Key(terms), m)
                    /\ settlements' = [settlements EXCEPT
                          ![m] = [status |-> StatusAfter[o.action], terms |-> terms]]
                    /\ ops' = [ops EXCEPT ![i].status = "verified"]
        /\ UNCHANGED <<vars, txs, opening>>

-----------------------------------------------------------------------------

PrepareAny ==
    /\ Len(ops) < MaxOps
    /\ \E m \in Matches, action \in Actions, age \in 0..Lag :
          age <= time /\ PrepareSettlement(m, action, time - age)

SendAny == Len(txs) < MaxTxs /\ \E i \in DOMAIN ops : Send(i)
MineAny == \E j \in DOMAIN txs : Mine(j)
ReportAny == \E i \in DOMAIN ops, j \in DOMAIN txs : ReportHash(i, j)
RecoverAny == \E i \in DOMAIN ops : Recover(i)

StoreNext ==
    \/ PrepareAny
    \/ SendAny
    \/ MineAny
    \/ OutOfBand
    \/ NextBlock
    \/ ReportAny
    \/ RecoverAny

StoreSpec == StoreInit /\ [][StoreNext]_allVars

-----------------------------------------------------------------------------

SettlementStatuses ==
    {"none", "Unprepared", "Locked", "Ready", "Settled", "Cancelled", "Reclaimed", "Returned"}

StoreTypeOK ==
    /\ TypeOK
    /\ \A m \in Matches : settlements[m].status \in SettlementStatuses
    /\ \A i \in DOMAIN ops :
          /\ ops[i].status \in {"prepared", "pending", "verified", "reverted"}
          /\ ops[i].hash \in DOMAIN txs \cup {NoHash}
          /\ ops[i].hash = NoHash <=> ops[i].status = "prepared"
    /\ Cardinality({i \in DOMAIN ops : Unresolved(ops[i])}) <= 1

(***************************************************************************)
(* What the server has recorded is true of the chain, now and not only     *)
(* when it was read: the recorded outcome of a deal is its outcome, a deal *)
(* recorded as Ready was registered with the recorded terms, a Hold        *)
(* recorded as Locked was made with them, and a Hold recorded as Returned  *)
(* is empty and can never carry a deal.  The chain may be ahead, never the *)
(* server.                                                                 *)
(***************************************************************************)
RecordedIsTrue ==
    \A m \in Matches :
       LET t == settlements[m].terms
           h == holds[Key(t)]
       IN  CASE settlements[m].status \in Final ->
                   t \in registered /\ state[t] = settlements[m].status
             [] settlements[m].status = "Ready" -> t \in registered
             [] settlements[m].status = "Locked" ->
                   [h EXCEPT !.amount = t.amount] = LockedHold(t)
             [] settlements[m].status = "Returned" ->
                   h.amount = 0 /\ t \notin registered /\ Key(t) \in usedHold
             [] OTHER -> TRUE

(***************************************************************************)
(* Either trader may register at the contract what the server never        *)
(* prepared, over a Hold of its own or over the one the server locked.     *)
(* But once the server shows a deal as Ready or ended, no such deal is or  *)
(* will be on the chain under its match or over its Hold: a buyer who      *)
(* settles what the table shows pays for that deal and for no other.       *)
(***************************************************************************)
ShownDealsAreExclusive ==
    \A m \in Matches :
       settlements[m].status \in {"Ready"} \cup Final =>
          \A t \in registered :
             t.match = m \/ Key(t) = Key(settlements[m].terms) => t = settlements[m].terms

(***************************************************************************)
(* A settlement goes one way through its statuses, one verified operation  *)
(* at a time, and its terms never change, except that verifying the lock   *)
(* fills in the Hold.                                                      *)
(***************************************************************************)
StatusOrder ==
    {<<"none", "Unprepared">>, <<"Unprepared", "Locked">>, <<"Locked", "Ready">>,
     <<"Locked", "Returned">>, <<"Ready", "Settled">>, <<"Ready", "Cancelled">>,
     <<"Ready", "Reclaimed">>}

OneWayStep ==
    \A m \in Matches :
       settlements'[m] # settlements[m] =>
          LET old == settlements[m]
              new == settlements'[m]
          IN  /\ <<old.status, new.status>> \in StatusOrder
              /\ old.status = "Unprepared" =>
                    new.terms.hold # 0 /\ [new.terms EXCEPT !.hold = 0] = old.terms
              /\ old.status \in {"Locked", "Ready"} => new.terms = old.terms
              /\ old.status # "none" =>
                    \E i \in DOMAIN ops :
                       /\ ops[i].match = m
                       /\ ops[i].status = "pending"
                       /\ ops'[i].status = "verified"

OneWay == [][OneWayStep]_allVars

(***************************************************************************)
(* "Unknown operations recover using original IDs/hashes" (README.md): an  *)
(* operation whose transaction is mined and reported can be resolved by    *)
(* reading the chain.  Violated: the checks look at whole blocks.          *)
(***************************************************************************)
ReportedRecovers ==
    \A i \in DOMAIN ops :
       ops[i].status = "pending" /\ Closed(txs[ops[i].hash]) => txs[ops[i].hash].proof
=============================================================================
