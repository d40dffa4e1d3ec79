---------------------------- MODULE CommandStore ----------------------------
(***************************************************************************)
(* The durable command protocol of engine/internal/service/store.go: a     *)
(* command is prepared (validated on a disposable book and stored as       *)
(* pending), signed by its owner, and submitted; a submission verifies,    *)
(* applies and records the outcome in one database transaction.            *)
(*                                                                         *)
(* Every transaction that writes first locks the market row (SELECT ...    *)
(* FOR UPDATE), rebuilds the book from the orders table and rolls back     *)
(* unless it commits, so each is one action here, whichever API instance   *)
(* runs it.  A crash before the commit is a stuttering step; after a       *)
(* commit whose answer is lost the caller asks again, which is another     *)
(* Submit or a read.                                                       *)
(*                                                                         *)
(* Each API instance reads its own wall clock.  Real time is the variable  *)
(* clock, and a reading is any value within Skew of it: instances disagree *)
(* and a reading may be earlier than the previous one.                     *)
(***************************************************************************)
EXTENDS MatchingBook

CONSTANTS
    Owners,              \* accounts that send commands
    Eligible,            \* the two that may trade (Seller and Buyer)
    Places,              \* the <<side, quantity, price>> that a Place asks for
    OwnerSignatures,     \* signatures that recover to the command's owner
    OtherSignatures,     \* signatures that do not
    CommandTTL,          \* seconds to submit a prepared command: 300 in the code
    OrderTTL,            \* seconds an order rests: 86400 in the code
    Skew,                \* bound on the error of an instance's clock
    MaxClock,            \* bound on real time, for TLC; nothing is prepared that
                         \* could not expire within it
    MaxRequests          \* bound on prepared commands, for TLC

ASSUME OwnersAssumption == Eligible \subseteq Owners
ASSUME TTLAssumption == CommandTTL \in Nat \ {0} /\ OrderTTL \in Nat /\ CommandTTL < OrderTTL
ASSUME PlacesAssumption == \A place \in Places : place[2] \in Int /\ place[3] \in Int
ASSUME BoundsAssumption == Skew \in Nat /\ MaxClock \in Nat \ {0} /\ MaxRequests \in Nat

VARIABLES
    market,     \* the markets row: [sequence, time, version]
    orders,     \* the orders table, by sequence
    matches,    \* the rows of the matches table
    commands,   \* the commands table, by request id
    clock       \* real time

vars == <<market, orders, matches, commands, clock>>

NoSignature == "none"
NoResult == [matches |-> <<>>]
Statuses == {"pending", "accepted", "rejected", "expired"}
Readings == IF clock > Skew THEN (clock - Skew)..(clock + Skew) ELSE 0..(clock + Skew)

Init ==
    /\ market = [sequence |-> 0, time |-> 0, version |-> 0]
    /\ orders = <<>>
    /\ matches = {}
    /\ commands = <<>>
    /\ clock = 1

-----------------------------------------------------------------------------

(***************************************************************************)
(* lock: the book of this transaction.  Receipts are not loaded; what was  *)
(* already applied is recognised by the status of its commands row.        *)
(***************************************************************************)
Loaded ==
    [sequence |-> market.sequence, time |-> market.time, orders |-> orders,
     receipts |-> <<>>]

(* Mutant: the reading is used although the book is ahead of it.           *)
EffectiveTimeUnchecked(reading) == reading

(* now := max(s.now(), b.Time): time never runs backwards in the book.     *)
EffectiveTime(reading) == IF reading > market.time THEN reading ELSE market.time

(* save: upsert every order, insert the new matches, bump the market row.  *)
(* Mutant: the matches of this transaction replace the earlier ones.       *)
SaveReplacesMatches(b, newMatches) ==
    /\ orders' = b.orders
    /\ matches' = newMatches
    /\ market' = [sequence |-> b.sequence, time |-> b.time, version |-> market.version + 1]

(* Mutant: the time of the book is not written back.                       *)
SaveForgetsTime(b, newMatches) ==
    /\ orders' = b.orders
    /\ matches' = matches \cup newMatches
    /\ market' = [sequence |-> b.sequence, time |-> market.time, version |-> market.version + 1]

Save(b, newMatches) ==
    /\ orders' = b.orders
    /\ matches' = matches \cup newMatches
    /\ market' = [sequence |-> b.sequence, time |-> b.time, version |-> market.version + 1]

(***************************************************************************)
(* The server assigns the request id, and for a Place the order id and the *)
(* expiry.  Ids are 32 random bytes; here the next unused number.          *)
(***************************************************************************)
NextId == Len(commands) + 1

PlaceCommand(owner, side, q, p, now) ==
    [requestId |-> NextId, orderId |-> NextId, owner |-> owner, action |-> "Place",
     side |-> side, quantity |-> q, price |-> p, expiresAt |-> now + OrderTTL]

CancelCommand(owner, orderId) ==
    [requestId |-> NextId, orderId |-> orderId, owner |-> owner, action |-> "Cancel",
     side |-> "", quantity |-> 0, price |-> 0, expiresAt |-> 0]

Prepare(c, now) ==
    /\ c.owner \in Eligible
    /\ Valid(Loaded, c, now)
    /\ commands' = Append(commands,
          [command |-> c, preparedAt |-> now, deadline |-> now + CommandTTL,
           status |-> "pending", signature |-> NoSignature, result |-> NoResult])
    /\ UNCHANGED <<market, orders, matches, clock>>

PreparePlace(owner, side, q, p, reading) ==
    LET now == EffectiveTime(reading)
    IN  Prepare(PlaceCommand(owner, side, q, p, now), now)

PrepareCancel(owner, orderId, reading) ==
    Prepare(CancelCommand(owner, orderId), EffectiveTime(reading))

(***************************************************************************)
(* Verify: the deadline window and the recovered signer.                   *)
(***************************************************************************)
(* Mutant: the deadline is not looked at.                                  *)
VerifiedAtAnyTime(r, signature, now) ==
    /\ r.command.owner \in Eligible
    /\ r.preparedAt <= now
    /\ signature \in OwnerSignatures

Verified(r, signature, now) ==
    /\ r.command.owner \in Eligible
    /\ r.deadline = r.preparedAt + CommandTTL
    /\ r.preparedAt <= now
    /\ now < r.deadline
    /\ signature \in OwnerSignatures

Decide(id, status, signature, result) ==
    commands' = [commands EXCEPT ![id].status = status,
                                 ![id].signature = signature,
                                 ![id].result = result]

(***************************************************************************)
(* Submit of a pending command.  A command that is no longer pending is    *)
(* answered from its row, and a signature that does not verify is an       *)
(* error: neither changes anything.                                        *)
(***************************************************************************)
SubmitLate(id, signature, now) ==
    /\ commands[id].status = "pending"
    /\ now >= commands[id].deadline
    /\ Decide(id, "expired", signature, NoResult)
    /\ UNCHANGED <<market, orders, matches, clock>>

SubmitRejected(id, signature, now) ==
    /\ commands[id].status = "pending"
    /\ Verified(commands[id], signature, now)
    /\ ~Valid(Loaded, commands[id].command, now)
    /\ Decide(id, "rejected", signature, NoResult)
    /\ UNCHANGED <<market, orders, matches, clock>>

(* Mutant: a command that is already decided is applied again.             *)
SubmitAcceptedAgain(id, signature, now) ==
    LET c == commands[id].command
        b == Apply(Loaded, c, now)
    IN  /\ Verified(commands[id], signature, now)
        /\ Valid(Loaded, c, now)
        /\ Save(b, ToSet(ResultOf(b, c).matches))
        /\ Decide(id, "accepted", signature, ResultOf(b, c))
        /\ UNCHANGED clock

SubmitAccepted(id, signature, now) ==
    LET c == commands[id].command
        b == Apply(Loaded, c, now)
    IN  /\ commands[id].status = "pending"
        /\ Verified(commands[id], signature, now)
        /\ Valid(Loaded, c, now)
        /\ Save(b, ToSet(ResultOf(b, c).matches))
        /\ Decide(id, "accepted", signature, ResultOf(b, c))
        /\ UNCHANGED clock

Submit(id, signature, reading) ==
    LET now == EffectiveTime(reading)
    IN  \/ SubmitLate(id, signature, now)
        \/ SubmitRejected(id, signature, now)
        \/ SubmitAccepted(id, signature, now)

(***************************************************************************)
(* Expire runs before every read and, on a local server, each second.  The *)
(* market row is written only if an order expired; pending commands past   *)
(* their deadline are closed in either case.                               *)
(***************************************************************************)
(* Mutant: only a command that was submitted is closed.                    *)
CloseLateIfSubmitted(r, now) ==
    IF r.status = "pending" /\ r.signature # NoSignature /\ r.deadline <= now
    THEN [r EXCEPT !.status = "expired"] ELSE r

CloseLate(r, now) ==
    IF r.status = "pending" /\ r.deadline <= now THEN [r EXCEPT !.status = "expired"] ELSE r

ExpireAt(now) ==
    LET b == Expire(Loaded, now)
    IN  /\ IF b.orders # orders THEN Save(b, {}) ELSE UNCHANGED <<market, orders, matches>>
        /\ commands' = [id \in DOMAIN commands |-> CloseLate(commands[id], now)]
        /\ UNCHANGED clock

ExpireStale(reading) == ExpireAt(EffectiveTime(reading))

Advance ==
    /\ clock < MaxClock
    /\ clock' = clock + 1
    /\ UNCHANGED <<market, orders, matches, commands>>

PrepareAny ==
    /\ Len(commands) < MaxRequests
    /\ clock + CommandTTL <= MaxClock
    /\ \E owner \in Owners, reading \in Readings :
          \/ \E place \in Places :
                PreparePlace(owner, place[1], place[2], place[3], reading)
          \/ \E i \in DOMAIN orders : PrepareCancel(owner, orders[i].orderId, reading)

SubmitAny ==
    \E id \in DOMAIN commands, reading \in Readings,
       signature \in OwnerSignatures \cup OtherSignatures : Submit(id, signature, reading)

ExpireAny == \E reading \in Readings : ExpireStale(reading)

Next == PrepareAny \/ SubmitAny \/ ExpireAny \/ Advance

Spec == Init /\ [][Next]_vars

(***************************************************************************)
(* Fairness: time passes and the ticker of a local server (main.go) keeps  *)
(* expiring.  Nothing obliges an owner to sign or to submit.  In the cloud *)
(* there is no ticker and Expire runs only when somebody reads.            *)
(***************************************************************************)
FairSpec == Spec /\ WF_vars(Advance) /\ WF_vars(ExpireAny)

-----------------------------------------------------------------------------

Rows == {commands[id] : id \in DOMAIN commands}
Accepted == {id \in DOMAIN commands : commands[id].status = "accepted"}
Times == 0..(MaxClock + Skew)

(***************************************************************************)
(* The store implements the in-memory book: the rows are a book whose      *)
(* receipts are the results of the accepted commands, although no receipt  *)
(* is ever loaded.  A step applies one stored command that has no receipt  *)
(* yet, or expires, or leaves the book alone: no crash, retry, clock skew  *)
(* or race of submissions applies a command twice or in part.              *)
(***************************************************************************)
AbstractBook ==
    [sequence |-> market.sequence, time |-> market.time, orders |-> orders,
     receipts |-> [id \in Accepted |->
                     [command |-> commands[id].command, result |-> commands[id].result]]]

Book == INSTANCE SerialBook
        WITH book <- AbstractBook, Commands <- {}, Times <- Times

BookStep ==
    \/ \E id \in DOMAIN commands, now \in Times :
          Book!ApplyCommand(commands[id].command, now)
    \/ \E now \in Times : Book!ExpireOrders(now)

ImplementsBook == Book!Init /\ [][BookStep]_AbstractBook

(***************************************************************************)
(* An answer once given stays the answer: a decided row never changes      *)
(* again, whatever is retried with whatever signature.                     *)
(***************************************************************************)
DecisionStep ==
    /\ DOMAIN commands \subseteq DOMAIN commands'
    /\ \A id \in DOMAIN commands :
          /\ commands[id].status # "pending" => commands'[id] = commands[id]
          /\ commands'[id].command = commands[id].command
          /\ commands'[id].deadline = commands[id].deadline

DecisionIsFinal == [][DecisionStep]_vars

(***************************************************************************)
(* The three tables agree.  A match row is the result of exactly one       *)
(* accepted command, every match of an accepted command has its row, and   *)
(* the matched column of an order is the sum of its match rows.            *)
(***************************************************************************)
TablesAgree ==
    /\ matches = UNION {ToSet(commands[id].result.matches) : id \in Accepted}
    /\ \A m \in matches :
          Cardinality({id \in Accepted : m \in ToSet(commands[id].result.matches)}) = 1
    /\ \A i \in DOMAIN orders :
          orders[i].matched = MapThenSumSet(LAMBDA m : m.quantity,
                                 {m \in matches : orders[i].orderId \in {m.maker, m.taker}})

(***************************************************************************)
(* An order rests only on its owner's authority.  It comes from an         *)
(* accepted Place with the same terms, signed by the owner and applied     *)
(* within the 300 seconds the owner was shown; and an order cancelled by   *)
(* request was cancelled by such a command of the same owner.              *)
(***************************************************************************)
Authorised(id) ==
    LET r == commands[id]
    IN  /\ r.status = "accepted"
        /\ r.signature \in OwnerSignatures
        /\ r.preparedAt <= r.result.time
        /\ r.result.time < r.preparedAt + CommandTTL

OrdersAuthorised ==
    \A i \in DOMAIN orders :
       LET o == orders[i]
       IN  /\ \E id \in DOMAIN commands :
                 /\ Authorised(id)
                 /\ commands[id].command = [PlaceCommand(o.owner, o.side, o.quantity, o.price, 0)
                                            EXCEPT !.requestId = id, !.orderId = o.orderId,
                                                   !.expiresAt = o.expiresAt]
                 /\ o.acceptedAt = commands[id].result.time
                 /\ o.sequence = commands[id].result.sequence
           /\ o.reason = "Cancelled" =>
                 \E id \in DOMAIN commands :
                    /\ Authorised(id)
                    /\ commands[id].command.action = "Cancel"
                    /\ commands[id].command.orderId = o.orderId
                    /\ commands[id].command.owner = o.owner

(***************************************************************************)
(* A command its owner signed in time is never refused: validation at      *)
(* Prepare still holds at Submit, however the book moved in between,       *)
(* except when the sequence numbers have run out.                          *)
(***************************************************************************)
RejectedOnlyWhenFull ==
    \A r \in Rows : r.status = "rejected" => market.sequence = MaxInt64

(***************************************************************************)
(* On a server with a ticker every prepared command is decided.            *)
(***************************************************************************)
EveryCommandDecided ==
    \A id \in 1..MaxRequests :
       (id \in DOMAIN commands) ~> (id \in DOMAIN commands /\ commands[id].status # "pending")
=============================================================================
