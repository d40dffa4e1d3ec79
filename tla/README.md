# HoldBook: a specification of the secondary market

HoldBook is a compliance-gated secondary market for NOVA, a security token of the
Asset Tokenization Studio (ATS) on Hedera. Two approved accounts trade: orders are
signed in the browser, matched by a Go server, and each match is settled on chain
through a Hold of the token and one Solidity contract. This directory specifies that
system in TLA+: modules translated from the source, configurations for TLC, and
proofs for TLAPS.

    tlc -workers 2 -config Escrow.cfg MCEscrow      model-check one run
    tlapm MatchingBook_proofs.tla                   check the proofs
    tlapm BookMachine_proofs.tla
    tlapm CommandStore_proofs.tla
    tlapm Settlement_proofs.tla
    tlapm OrderClient_proofs.tla
    tlapm SettlementClient_proofs.tla
    tlapm Milestones_proofs.tla                     (some 15 minutes)
    tlapm BrowserBuild_proofs.tla

Paths below are relative to the repository root (`src/` in PROJECT.json).

## 1. The system

| Component | Code | State | Operations |
|---|---|---|---|
| Matching core | engine/internal/matching/book.go | orders, receipts, sequence, book time, in memory | Expire, Apply (Place, Cancel) |
| Command store | engine/internal/service/store.go, auth.go, migrations/001 | tables markets, orders, matches, commands | Prepare, Submit, Expire, Get, Snapshot, Tick |
| Settlement store | settlement.go, settlement_rpc.go, settlement_http.go, migrations/002 | tables settlements, settlement_operations, deployment | PrepareSettlement, SaveSettlementHash, RecoverSettlement |
| Settlement contract | contracts/NovaSettlement.sol | terms, state, matchDigest, usedHold | register, settle, cancel, reclaim, recoverOrphan |
| NOVA token (external) | as the contract and its test double use it | balances, Holds | create, execute, release, reclaim a Hold |
| Browser settlement client | src/lib/settlement.ts, components/SettlementPanel.tsx | one saved record in localStorage, the review on screen | prepare, submit, query, load original |
| Browser guards, transport | src/lib/guards.ts, transport.ts | Web Lock, one-operation lease, one transaction per provider | lock, lease, capture a send |
| Wallet session and roles | src/App.tsx, pages/SettingsPage.tsx, lib/wallet.ts, guards.ts, credentials.ts, ats.ts, deployment.ts | session number, three roles in localStorage, review, credential, SDK check | connect, bind, clear, review, sign, check |
| Browser market client | src/lib/market.ts, components/MarketPanel.tsx | one saved order intent | prepare, sign, submit, poll |
| Fixed swap contract | contracts/NovaHbarSwap.sol | closed, one fixed trade | settle, cancel, reclaim |
| Journals of the milestones T02 to T05 | src/lib/nova.ts, lifecycle.ts, hold.ts, trade.ts, evidence.ts, transport.ts | operations and their evidence in localStorage | review, run, simulate, recover by hash, restore evidence |
| Installation of the SDK | scripts/rebuild-proto.mjs, patch-ats-readonly.mjs, patch-ats-wallet.mjs | files of node_modules | generate, validate, patch, build |
| Rendering, recorded demonstration, contract builds | src/components, src/presentation, scripts | none of their own | - |

How they interact. The browser calls the server over HTTP (commands, settlements,
operations) and the wallet for signatures and transactions. Several server instances
may share one database; every transaction that writes takes the row lock of the
market first. Pages of one browser share localStorage and one Web Lock, hear of each
other by storage events, and of the wallet by events that come later. The server signs nothing: it prepares a transaction, a party's wallet
sends it or not, somebody reports its hash, and the server reads the chain and
records what it proves. Contract and token call each other inside one transaction.

What is hard:

* a command is validated at Prepare and applied at Submit, up to 300 seconds and many
  other commands later, on another instance with another clock;
* the store loads no receipts, so idempotence rests on the status of the command row;
* self-trade prevention interrupts matching in the middle of the candidates;
* the contract calls the token and an account before it is done, and the Hold it
  relies on can change outside it;
* one unresolved settlement operation blocks all others, the wallet may send an
  operation twice, late or never, and equal locks of two matches have equal calldata;
* the server proves a transaction from the states at the ends of blocks;
* the browser reads a shared record, awaits for seconds or minutes and writes it back;
* a page may be closed, and gives up its lock, while its wallet prompt is still open;
* the milestones send each of their transactions exactly once although storage, answers
  and pages are lost, and what the preflight allowed must later verify on the chain;
* the wallet may change its account, and another page the roles, during any await;
* an installation may be stopped in the middle of patching the SDK that signs.

What makes each part correct is in the property tables of section 3; the hazards they
answer to, at their lines, are the `hazards` of PROJECT.json.

## 2. Modules

| Module | Models | Relation |
|---|---|---|
| MatchingBook | book.go as operators on a book value; the matching loop is a fold over the candidates in order of priority | used by the next two |
| SerialBook | one caller applies commands and expires orders, each command once, whatever the matching | abstract specification of the store |
| BookMachine | the in-memory book: what is true of every book it can reach | SerialBook with the operators of MatchingBook |
| CommandStore | the four tables, one action per database transaction, skewed clocks, the ticker | implements SerialBook with the same operators (`ImplementsBook`) |
| Escrow | NovaSettlement.sol and its Holds, one atomic step per successful call | abstract specification of the contract |
| NovaSettlement | the same calls split at their external calls, with failure and revert | implements Escrow (`ImplementsEscrow`) |
| SettlementStore | server operations, wallets, blocks | composed with Escrow, which it extends |
| SettlementClient | browser panels between awaits, over one saved record and one lock | the server reduced to its operations |
| OrderClient | the order panel and the poller of each tab between awaits, over one saved intent and the same lock | the server reduced to what CommandStore keeps: a command is decided once |
| Journal | what the milestones share: records, intents, lock, prompts, wallet, recovery and reviews between awaits | extended by the next four |
| Creation | T02, nova.ts: one asset is created; query from ActivityPage | |
| Lifecycle | T03, lifecycle.ts: three roles, an issuer, KYC, one issuance | |
| HoldSteps | T04, hold.ts: a Hold created, executed in part and released, two simulations, restoring | |
| Trade | T05, trade.ts with NovaHbarSwap.sol: deploy, lock, settle or cancel or reclaim, two simulations | |
| Milestones | the four journals with users, wallet and chain, and their properties | composes Creation, Lifecycle, HoldSteps, Trade |
| WalletSession | the wallet, roles, sessions, reviews, credentials and SDK checks of several pages | |
| SdkInstall | the postinstall scripts on the files of the SDK | |
| BrowserBuild | an installation, a build, and the pages served from it | composes SdkInstall and WalletSession; implements WalletSession |
| MatchingBook_proofs | lemmas about the book: what every Apply and Expire keeps | used by the next two |
| BookMachine_proofs, CommandStore_proofs | theorems about the in-memory book and the tables | |
| Settlement_proofs | theorems about Escrow, that NovaSettlement implements it, and theorems about SettlementStore, the contract's steps included | |
| OrderClient_proofs, SettlementClient_proofs | theorems about these modules | |
| Milestones_proofs | theorems about the journals of T02 to T05 | |
| BrowserBuild_proofs | theorems about WalletSession, and that BrowserBuild implements it | |
| MC... | small instances for TLC | |

Names follow the source. Where an action stands for a whole handler it includes its
trailing effects: `Save` is part of every accepted submission, `Expire` of every
reading, `EndSubmit` of every way a submission ends. A definition headed "Mutant" is a
faulted form of the definition that follows it; it belongs to no specification. It is
there to show that the property it is paired with in PROJECT.json can fail.

Correspondence worth knowing:

* **MatchingBook.** `Valid` is every early return of Apply, `MatchStep` one turn of
  its loop, `Candidates` the filtered slice, `Precedes` the comparison by which it is
  sorted, and `LastInTurn` the end of the sorted slice: the fold takes the candidates before
  it first. `WithReceipt` is the end of Apply. `MaxInt64` and `MaxQuantity` are constants so that the overflow guards bite
  in a small instance. Decimal parsing and the address pattern are left out.
* **CommandStore.** A request that rolls back, or crashes before its commit, is a
  stuttering step; a lost answer is a later call. Real time is `clock`; an instance
  reads any value within `Skew` of it. A signature is only whether it recovers to the
  owner. Origin and host checks and JSON decoding refuse a request before any state
  is touched, and are left out.
* **Escrow, NovaSettlement.** The terms of a deal stand for their digest, which
  assumes that keccak has no collisions. `CheckHold`, `ValidTerms` and the `Can...`
  operators are the requires of the contract. Parties are externally owned
  accounts, and the entries are nonReentrant, so one call is under way at a time. The
  token's KYC, roles and pause are "the external call may fail".
* **SettlementStore.** A block is a second of block time. `BlockProves` is what
  verifySettlementChain compares: the state at the end of the block of the transaction
  and the balances at the end of the one before. A proof is evaluated when the block
  is complete and kept with the transaction, since later readings ask for the same
  blocks. The contract is deployed, and every match is newer than the deployment.
  `OutOfBand` is every call of Escrow that nobody prepared at the server: Holds made,
  deals registered, settled, cancelled and reclaimed directly. `NewHolds` and `Offers` are
  what a run tries of them.
* **SettlementClient.** A handler is its steps between awaits. A tab may be closed at
  any of them; the lock is then released while the wallet prompt stays open
  (`orphans`). The checks of account, KYC, balances and contract state may stop a
  handler at any step (`PrepareFails`, `SubmitFails`). The two awaits of a submission
  before the prompt, preflight and SDK connection, are steps of their own. `shown` is what
  a panel has read of the record, which another panel may have changed since (`Hears` is
  the storage event); `Views` is what a poll found of the unresolved operation, at any time
  before. The query that follows a returned hash, under the lock of its submission, is
  `SubmitQueries`.
* **OrderClient.** The same method for market.ts. A tab has two handlers, its panel
  (prepare, sign, or the query button, one at a time since `working` is set) and its
  poller. The two checks of the deadline against the server's time are one guard each,
  merged with the step that follows: a deadline that passes in between is a deadline that
  passes right after. A submission that was posted may be taken by the server long after
  the panel gave up, or never. What a panel displays beside the saved intent only disables
  more buttons and is left out.
* **overwritten**, in both clients, is a history variable: what has happened to be saved
  over an intent or record without the lock. The code keeps no such thing and no guard reads
  it; it is there so that what holds whatever overlaps can be told from what a late write
  undoes.
* **Journal and the milestones.** An operation is a position in `intents`, a transaction
  hash a position in `txs`, and a state of the token the number of transactions that have
  succeeded: what the code compares of two states, `Digest`, is determined by it. `Put`
  and `Replace` are the two ways in which the libraries save a record, and the order of
  records is kept since recovery takes the first that fits. A run (`RunStarts` to `Ends`)
  stops at each await: probing the storage, connecting the SDK, the prompt, the answer,
  polling. Recovery is two steps, the receipt (`Verifies`) and the Mirror node
  (`Settles`), with every precondition of the assert...Transition functions between
  (`LifecyclePrecedes`, `HoldPrecedes`, `TradePrecedes`, `SwapPrecedes`). The statuses
  confirmed and mirror-pending are one. The simulations that a review replays read only
  the history of the chain, so all of them are part of its first step. Exact calldata is
  `Call`: the action, the Hold or swap, and the expiry.
* **Closed milestones.** This build sets novaCreationClosed, lifecycleClosed, t04Closed
  and tradeClosed: its pages no longer submit, and no page calls the submissions of T02 to
  T05. Live on ActivityPage are the query of the creation (recoverNova) and the historical
  check of T03 (verifyT03History, hold.ts:28), which recovers the six recorded hashes one
  after another: six times `LifecycleQuery`. `ClosedTabs` are the pages with these flags. The
  run has none, as in the builds in which the milestones were carried out.
* **WalletSession.** A page is one task (the lease of guards.ts) with the session number
  it began in; a check (`Check`, `WalletAnswers`, `Answered`) is checkWalletReview before
  and after its request to the wallet. `Invalidate` is invalidateWalletSession with the
  listener of SettingsPage. `Reloads` lets the number go on rather than begin at 0, which
  only bounds the loads: nothing of an earlier session survives a reload. No page of this
  build offers signCredential, whose handler is modelled from its library.
* **SdkInstall, BrowserBuild.** A file is as published, as the scripts make it, or other
  (half written, or of another release). rebuild-proto stages and then replaces; the two
  patches validate all their files and then write them one by one. A write has a middle.
  `Serves` follows a complete installation, as `npm run build` follows `npm ci` in the
  workflow.

## 3. What the runs check

Every passing run explores its whole state space. CHECK_DEADLOCK is FALSE
everywhere because all instances are finite: bounded requests, operations,
transactions and time end, and a market where nobody does anything is legal.

### book_machine (MCBookMachine, BookMachine.cfg)

Up to four commands of two owners, prices 1 and 3, quantities 1 and 2, lifetimes that
end at time 2 and at time 3, commands at times 1 and 2.

| Property | Says |
|---|---|
| QuantityAccounted | each unit of an order is in one column, and the matched column is the sum of the matches, for maker and taker |
| NeverCrossed | no resting buy and sell could still match |
| MatchesWithinTerms | owners differ, price of the maker within both limits, notional within int64, both orders alive |
| SequenceCountsReceipts | numbers are 1, 2, ... with no gap or repetition; a retry gets none |
| PriceTimePriority | (action) an order is filled only if everything better is used up; self-trade prevention stops exactly there |
| HistoryKept | (action) no order changes its terms, no quantity comes back, a receipt is for ever |

Why these bounds are enough: four commands are a taker over two makers and a Cancel, or
three makers; 3 x 2 exceeds MaxInt64 = 4, so the notional guard refuses; sequence
numbers run out exactly at the fourth command; an order of lifetime 2 dies at the
second in which the next command runs.

### command_store (MCCommandStore, CommandStore.cfg)

Three commands of two traders and a stranger, one or two units bid for two offered, forged
signatures, two sequence numbers, clock 1..2 and readings of it one second off, 0..3.

| Property | Says |
|---|---|
| ImplementsBook | (refinement) the rows are a book, and each transaction one command, one expiry or nothing: no retry, race or crash applies a command twice or in part |
| TablesAgree | orders, matches and commands tell the same story |
| DecisionIsFinal | (action) a decided row never changes |
| OrdersAuthorised | what rests, and what was cancelled, was signed by its owner and in time |
| RejectedOnlyWhenFull | validation at Prepare still holds at Submit: a signed command in time is refused only when the numbers are used up |
| EveryCommandDecided | (liveness) a prepared command is decided |

Three commands are a maker, a taker and a third that meets the end of the two sequence
numbers; the clock passes the deadline of a command (1) and of an order (2).

Fairness: `FairSpec` has weak fairness of real time and of expiring with some reading.
The second is the ticker of cmd/api/main.go:32-35, which runs every second in a local
server; readings catch up because they are within Skew of a clock that advances. Owners
owe nothing. A server without the ticker (in the cloud, main.go:33) expires only
when it is read; nothing is claimed for it.

### escrow, nova_settlement

* *escrow*: two traders, two matches, two Holds each, all interleavings up to one second
  past the expiry. `ReadyIsBacked` (the Hold of a payable deal is intact until it expires),
  `OneDealPerHold`, `SpentHoldsAreEmpty`, `EveryHoldHasAWayOut` (no instant, the second of
  the expiry included, at which NOVA in a Hold of this escrow can be got back by no call
  of its owner), `FinalIsFinal` (action).
* *nova_settlement*: the calls taken apart, with two amounts, prices and values, foreign
  Holds and unfit terms. `ImplementsEscrow` (every call is atomic for everybody else),
  `BalancesExplained` (between calls NOVA and HBAR of each account differ from the
  start by exactly its settled deals, and the contract keeps nothing).

### settlement_store (MCSettlementStore, SettlementStore.cfg)

Two matches whose locks have equal calldata, one unit of NOVA, three operations and three
transactions, with duplicates, reverts and the traders' own calls: the same Hold made
directly, and deals at another price, under either match, registered over the first Hold,
their own or the one that the server locked. Three operations and the time given are enough
for every end of a row: settled, cancelled, reclaimed and returned rows are all reached. The
server reads the present block (Lag is 0); what it prepares in one block is still mined in
any later one, up to a second past the expiry, and the theorems are for any Lag.

| Property | Says |
|---|---|
| RecordedIsTrue | whatever the server records of a deal is true of the chain and stays true |
| ShownDealsAreExclusive | once the table shows a deal as Ready or ended, the contract has no other deal under its match or over its Hold |
| OneWay | (action) statuses go one way, each step by one verified operation; only the lock fills in the Hold |
| StoreTypeOK | types, and at most one operation is unresolved |

NovaSettlement.sol:59-75 takes any valid terms under any match id from the owner of a Hold, so
the table does not know every deal of the chain, and nothing here says it does. A seller may
so make its own match unsettleable: with other terms registered over the Hold that the server
locked, the server's register reverts for ever and the row stays Locked. The Hold can still be
got back at the contract (EveryHoldHasAWayOut).

### settlement_client (MCSettlementClient, SettlementClient.cfg)

Two panels, two operations, two transactions, one mistyped hash; queries, loads and panels
that show an older record overlap with everything. An answer to a query and "Load original
operation" are the two writes without the lock, and what they write over an attempted,
unresolved record is in `overwritten`.

| Property | Says |
|---|---|
| OnceUnlessOverwritten | an operation is sent twice only after one of those two wrote over its attempted record; prepare, submit, refusals, lost answers and closed tabs alone never send again |
| KeptUnlessOverwritten | what was sent and is unresolved is what the record names, as attempted, with the same exception |
| FirstHashKept | (action) no other hash replaces that of a transaction; it is dropped only by an answer that was on its way, or by a panel that showed another operation |

What the documents promise has no such exception and is false: run *sent_once*, below. Two panels are the one that submits and the one that
queries, loads or holds a review meanwhile; one panel may leave a prompt open and go on.

### order_client (MCOrderClient, OrderClient.cfg)

Two tabs with a panel and a poller each, two commands, answers however late. One tab is
visible throughout: `Visible` are the tabs whose poller runs (MarketPanel.tsx:44), the hidden
one queries by its button only.

| Property | Says |
|---|---|
| KeptUnlessOverwritten | a command that the wallet was asked to sign and the server has not decided stays the saved intent, which blocks every other, unless a query about another command was answered over it |
| OutcomeIsTheServers | what is saved as decided is what the server decided |
| IntentResolves | (liveness) whatever is pending, a time comes at which nothing is; and an intent that the server has not decided comes to an outcome that is saved before the intent is replaced, unless a late answer overwrote it |
| TypeOK | types, and whoever signs has the lock |

That nothing is ever answered over it is what docs/plans/003 promises (`IntentKept`), and
false: run *unblocked_early*. Two commands are the one that is queried late and the one that
is overwritten.

Fairness: deadlines pass; each poller starts a query when the intent is pending (the
two-second timer of MarketPanel.tsx:44) in a visible tab; and strong fairness of the
answers to its queries, since requests may fail and tabs be reloaded over and over, but not
every time. Nobody is obliged to sign, and the server never to take a posted command:
reading it after its deadline expires it (Store.Get).

### milestones (MCMilestones, Milestones.cfg)

Two pages of one browser, symmetric, in one milestone at a time from any of 17 starts: how
many of its steps are done, one or two further operations, and whether the storage was lost
so that only exported evidence is left. One mistyped hash, one second of validity. Every
page may be closed at any step, every prompt answered late, refused or lost, every
transaction fail by its rules and in T02, T03 and T05 for lack of gas.

| Property | Says |
|---|---|
| ResolvedIsTrue | what the journal shows as over is over: complete and failed are the outcome of the one transaction of that operation, rejected means that nothing was or can be sent; and the wallet was asked once |
| OneInFlight | at no time is there a second prompt or transaction under way |
| OncePerAction | no step happens twice on the chain |
| Recoverable | a mined transaction whose record is not settled can be settled: what the preflight allowed is what recovery asks for |
| TypeOK | types, and the lock is with whoever needs it |

Two pages are the one that leaves an open prompt or an unsettled record and the one that
goes on; two further operations are a step and its repetition or the next one. The starts
cover each step of T04 and T05, and of T03 the last role, the grant and the issuance.

What is assumed: users type the hash of the transaction they look for, or a wrong one that
is no transaction's; a block holds one transaction; storage is lost only between sessions, and
not in T02; a write to storage that is allowed succeeds. Two assumptions are named
constants because the code does not guarantee them. `RestoresAlone`: restoreHoldEvidence
(hold.ts 504-516) takes no lock, so users restore only while no handler runs. `Reverting`
leaves out T04: recoverHold takes the first record that has the hash or is unresolved with
the action (hold.ts:212), and every recovery moves its record behind the others, so that
querying the failed hash of a first attempt a second time settles the retry, whose prompt
may still be open, as failed. With "t04" in Reverting TLC finds this as a violation of
ResolvedIsTrue. From the expiry on T04 recovers no success (hold.ts, assertHoldTransition),
which Recoverable says.

### wallet_session (MCWalletSession, WalletSession.cfg)

An installation in any number of attempts, then two pages, one with a wallet of three
accounts to which all roles were bound before, up to three sessions after its first, and one
undelivered piece of news of the wallet.

| Property | Says |
|---|---|
| SessionIsTrue | a review or credential of the present session is of the account and roles that the page has now, and a shown SDK check began in it |
| RolesAgree | no two roles are one account, and a page that saves and has heard everything shows what is saved |
| LoadedIsPatched | no page loads an SDK that is patched in part |
| AllOrNothing | (action) a patch changes published files only, and none while a file of its own is neither published nor patched |

Three sessions are A, B and A again, or an account and a change of the roles around it. The
view leaves out results of earlier sessions, which no step reads. The page without a wallet
changes, loads and hears roles. React 19 renders discrete updates before the next event, so
that what a page shows is its state; at most one file per extraction is not the published one.

### Findings

| Run | Shows |
|---|---|
| sent_once | recoverSettlement writes back the record it loaded before its request, without the lock. If the operation was submitted meanwhile (another tab, or the same tab after selecting another match, since the panel is keyed by match), the record says again that nothing was attempted, while the wallet has sent the operation and its answer was lost. The server has no hash for it, so it is prepared, reviewed and submitted once more. settlement.ts:146: "Query the original intent; do not resend."; SettlementPanel.tsx:51: "Querying never resubmits."; docs/plans/004-matched-settlement.md:41: "Unknown stays pending and queries original operation". |
| unblocked_early | recoverIntent does the same with an order intent: a poll that was answered late, after the next command was prepared and offered for signing, replaces its intent by that of the command before. docs/plans/003-matching-engine.md:57-59: "Persist public intent before signing ... unblock only on confirmed terminal outcome." |
| reported_recovers | Balances, Hold and state are compared at the ends of blocks. A mined, reported transaction that shares its block with another movement of the parties' NOVA is never verified, and its operation keeps the one slot. README.md:28: "Unknown operations recover using original IDs/hashes, never automatic transaction resubmission." |

Some further weaknesses need no run. recoverSettlement saves a typed hash before the server
has checked it (settlement.ts:135) and then refuses every other, so that a mistyped hash
blocks the right one. And (settlement.ts:124) if the answer to a
preparation is lost, the panel offers the stored operation only for query, as
attempted, and this browser never sends it. In createNova, what fails between the saved
intent and the prompt is saved as mismatch (nova.ts:387), which blocks a creation although
nothing was sent. The T04 weaknesses at hold.ts:212 and hold.ts:504 are described with the
run milestones.

## 4. What is proved

BookMachine_proofs proves, for any commands, times and limits on prices and quantities, from
the assumptions stated in MatchingBook and BookMachine (numbers are integers, a quantity is no
larger than int64):

| Theorem | Property |
|---|---|
| QuantityConserved | QuantityAccounted |
| BookNotCrossed | NeverCrossed |
| SequenceIsReceipts | SequenceCountsReceipts |
| MatchesAgreed | MatchesWithinTerms |
| PriceTimeHolds | PriceTimePriority |
| HistoryStays | HistoryKept |

The invariant `BookOk` is of MatchingBook_proofs, and ApplyKeeps and ExpireKeeps say that every
operation keeps it. Its parts need each other: that a taker's matches are its matched column
(`TotalsOk`) needs that its id occurs in no earlier match, which is that both orders of a match
are in the book (`MatchesOk`) and ids are not given twice (`OrdersOk`); that sequence numbers
name receipts needs that the receipts are numbered (`ReceiptsOk`).

The matching loop is a fold over a set, and a total is a fold over another, so most lemmas are
about them. Folds are recursions under a CHOOSE: TotalsExist and AfterExists show that there is
a function that satisfies the recursion, by the least number of elements for which there is
none, since induction theorems cannot be instantiated. What is true after the candidates in S
have had their turn is `After`, and MatchedAll concludes it for all of them from the step Turn
and a least set for which it fails. PriorityIsAnOrder and LastIsLast show that the candidate
whose turn is last is the one all others precede, which PriorityTurn and PlacedNotCrossed rest
on: a candidate is used up before the next is touched, or else the taker is.

CommandStore_proofs proves, for any owners, commands, signatures, sequence numbers, clock
error and bounds, from the assumptions stated in MatchingBook and CommandStore:

| Theorem | Property |
|---|---|
| TablesAlwaysAgree | TablesAgree |
| OrdersAlwaysAuthorised | OrdersAuthorised |
| RefusedOnlyWhenFull | RejectedOnlyWhenFull |
| StoreImplementsBook | ImplementsBook: every transaction of the database is one call of the in-memory book, or none |
| DecidedOnce | DecisionIsFinal |

The first three are of the invariant `Consistent`: the book of the tables is a BookOk, so that
MatchingBook_proofs applies; a row is as Prepare checked it (`RowsOk`), which nothing later
undoes, because orders stay and a Place is under an id of its own; and the match rows are
those of the receipts (`MatchesRecorded`). That Submit refuses only when the numbers have run
out is then that each guard of Apply follows from the row and the deadline.

For the last two the invariant is small: the commands table is a sequence of rows, each under the request id
of its command (`RowsInPlace`), and the time of the book is within the clocks' error
(`TimesInRange`). The argument is that Apply reads no receipts (`ReceiptsAreNotRead`): on
the book that `lock` loads without them it does what it does on the book of the tables, and
the row that the transaction decides is the receipt it would have written. That the command
has no receipt yet is that its row is pending, which rests on RowsInPlace.

Settlement_proofs proves of Escrow, for any set of accounts, matches, Hold ids, amounts, prices, offers
and times, from the assumptions stated in Escrow (traders are accounts, the contract is none
and is not the other escrow, numbers are natural):

| Theorem | Property |
|---|---|
| TypeCorrect | TypeOK: no call takes more NOVA or HBAR than there is |
| ReadyBacked | ReadyIsBacked |
| SpentHoldsEmpty | SpentHoldsAreEmpty |
| DealsAreDistinct | OneDealPerHold |
| HoldsHaveAWayOut | EveryHoldHasAWayOut |
| FinalForEver | FinalIsFinal |

None of the invariants is inductive alone. That a Ready deal is backed is preserved by
another deal's settlement only if the two rest on different Holds (`DistinctKeys`); a
registration keeps Holds distinct only because every registered deal is in
`usedHold` and `matchDigest` (`Recorded`); a new Hold cannot be confused with a used one
because used Holds exist and ids are not given twice (`UsedWasCreated`); and a used Hold
that is not empty has a Ready deal because an ended one is empty (`EndedIsEmpty`).
`Inductive` is the conjunction. InitInductive and StepInductive show that it is inductive,
with one lemma per action; EndOfDeal is what the three ways a deal ends have in common,
EmptiedHold what emptying a Hold leaves.

It then proves ContractIsAtomic, `CallSpec => ImplementsEscrow`, from the same
assumptions: the contract taken apart at its external calls implements Escrow, so that what
the six theorems say of Escrow holds of what anybody sees of NovaSettlement. The refinement
mapping shows the saved state while a call is under way. That the last step of a call is an
atomic call needs the invariant CallInvariant (CallsAreGuarded): the guards that the call
passed hold in the saved state, and the current state is the saved one with what the call
has done so far (`Delivering`, `Paying`, `Returning`). It is preserved because one call is
under way at a time and time does not pass during it. There is one lemma per action for the
invariant and one for the refinement.

BalancesAreExplained (`CallSpec => []BalancesExplained`) rests on the refinement and assumes
besides that an id of a Hold is one of finitely many (HoldIdsAssumption; it is a uint256),
since the property adds up the Holds of an account. The invariant, SeenExplained, says the
same equations of the balances that Escrow sees, the saved ones while a call is under way;
there they hold at all times, and each step of Escrow keeps them: a new or returned Hold
moves an amount between what its holder has free and in Holds, a settlement moves the Hold
of the seller to the buyer and the price the other way, and nothing else is counted. That a
deal is counted once rests on matchDigest: a match that is registered is never registered
again. The sums are folds over sets whose order of adding is left open; that they grow by an
added element's value (`SumAdds`) and change by what one value changes (`SumChanges`) is
proved from a smallest set for which it would fail.

Of SettlementStore it proves, for any matches and their terms, any traders, lag and bounds,
from the assumptions stated in Escrow and SettlementStore:

| Theorem | Property |
|---|---|
| SettlementsGoOneWay | OneWay |
| TableIsTrue | RecordedIsTrue |
| ShownDealsStandAlone | ShownDealsAreExclusive |
| StoreIsTyped | StoreTypeOK |

Two invariants, the second on top of the first. `Protocol` is about the tables: one
operation holds the slot (`OneUnresolved`), and while it does its match stays in the status
its preparation found (`SlotKeepsMatch`), so that its verification is the only way on.
`Truth` is about the chain. Every step of it, by the server's transactions or behind its
back, is a `ChainMove`: a Hold that was made keeps all but its amount, and stays empty once
empty; deals are only added, on Holds not used before; a final state stays. So what a
successful transaction did (`Happened`) is true for ever, and a recovered operation records
just that, because the transaction has its sender and call (`SameCall`) and the terms of a
match are fixed from the lock on (`Fixed`). Of the server's checks the proof needs only the
success, the sender, the call and the Hold's id in the event: the balances and the Hold at the end of the block, which
keep some operations from ever being verified (run reported_recovers), are not what makes the
records true.

StoreIsTyped needs a third, `Typed`: the types with two facts that carry them, that terms
keep the times they were prepared with (`TermsDated`), so that the contract's deals stay
within its types, and that an operation has a hash exactly in the statuses from reported on
(`HashesKept`), which is what report and recovery test.

ShownDealsStandAlone rests on all three, with `DealsApart`: every deal of the contract is the
one that matchDigest has for its match, and no two are over one Hold. A registration keeps
this because it refuses a match that has a deal and a Hold that is used, whoever registers.
The table's deal is among them (`Truth`), so no other shares its match or its Hold.

OrderClient_proofs proves, for any set of tabs and any number of requests:

| Theorem | Property |
|---|---|
| TypeCorrect | TypeOK |
| ShownOutcomes | OutcomeIsTheServers |
| IntentIsKept | KeptUnlessOverwritten |

None assumes anything of users or of when queries are answered. The first two are of
`Inductive`: whoever signs holds the lock and signs a command that was prepared, and a
decision on its way to a handler is the server's; it is preserved because the server never
takes a decision back (`Matures`). IntentIsKept needs `Keeping` as well, about the commands
that are *open*: undecided and not overwritten. While somebody has signed, at most the
request under the lock is open; before the wallet is asked, none is. It is preserved by an
answer to a query (QueryEndsKeeps) because an open request is the saved intent: an answer
about it is pending, as the server's (`AnswersAreTheServers`), and one about another puts it
among the overwritten. By every other step it is preserved without that exception.

SettlementClient_proofs proves, for any panels, operations and typed hashes:

| Theorem | Property |
|---|---|
| TypeCorrect | the types of the state |
| NeverSentTwice | OnceUnlessOverwritten |
| UnknownKept | KeptUnlessOverwritten |
| HashNotReplaced | FirstHashKept |

Nor do these assume anything of what overlaps or what panels show. An operation is *exposed*
from the moment the wallet is asked for it, unless it refuses: by a prompt, by a prompt that
nobody waits for, or by its transaction. It is *excused* when it is resolved or overwritten.
The invariant says that the saved record names every exposed operation that is not excused,
as attempted (`SavedKnows`). Whoever prepares or submits has the lock and is alone
(`Exclusive`): what it found when it began, that nothing exposed is open, still holds when it
saves what it prepared and when it asks the wallet, because nobody else asks and a write
without the lock can only excuse (`Fits`, one clause per step); and a second prompt for the
same operation needs one that is excused. A hash is of its operation wherever it came through
the server (`ServerInOrder`), which HashNotReplaced rests on.

BrowserBuild_proofs proves of WalletSession, for any pages, accounts, saved roles and bounds:

| Theorem | Property |
|---|---|
| TypeCorrect | types, and only a page that signs has the lock |
| SessionStandsForAll | SessionIsTrue |
| RolesComeToAgree | RolesAgree |

The invariant adds to these that a task of the present session works with the roles and,
from its first check on, with the account of the page; a check that is still wanted began in
the present session; and no session number is ahead of its page. It is preserved because
every change of the account or the roles advances the number (`Invalidate`), so that all
that was of the present session is of an earlier one afterwards. That no two roles come to
be one account needs only each page's own roles, since a page saves what it shows.

and of any build:

| Theorem | Property |
|---|---|
| PagesHaveThePatches | LoadedIsPatched |
| NoPatchByHalves | AllOrNothing |
| PagesAreSessions | BuildSpec => Spec of WalletSession, whose theorems so hold of the pages of any build |

Its invariant follows the installation: every script before the one under way has all its
files patched, the one that writes has only published and patched files outside of the file
it is in, and what it has still to write are exactly the published ones; from `Installed`
on everything is patched, and served pages are of such an installation.

Milestones_proofs proves, for any pages, hashes, bounds and starts that are CarefulStarts, from
the assumptions stated in Journal and Milestones:

| Theorem | Property |
|---|---|
| MilestonesTypes | TypeOK |
| MilestonesResolved | ResolvedIsTrue |
| MilestonesOneInFlight | OneInFlight |
| MilestonesOncePerAction | OncePerAction |
| MilestonesRecoverable | Recoverable |

CarefulStarts is what the run assumes of T04, stated of the starts in T04 only: restoring
RestoresAlone, and no transaction of T04 that fails for lack of gas (section 3,
milestones). About T02, T03 and T05 the theorems have no hypothesis. A period of validity
is positive (JournalAssumption; it is a day in trade.ts).

A behaviour stays in the milestone it starts in, and there are two invariants. CreationInv is
that of T02, where at most one operation is ever before the wallet or on the chain.
`JournalInv` is that of T03, T04 and T05. An operation is *exposed* from the moment its
record is saved until its handler gives up without having sent it or its transaction is mined
(`Exposed`); it has the turn while it is exposed or while an unresolved record without a hash
names it (`Claimed`). The core is that one operation at most has the turn (`OneClaim`), that
an exposed one has an unresolved record (`ExposedKnown`) and that its action is not done yet
(`ExposedNew`); that no operation is sent twice (`Ledger`); and that what a record claims is
so (`RecordTrue`): once it is resolved or has the hash of a transaction, nothing
else was or will be sent for its operation. Under the lock a handler, a
recovery included, writes back the journal it has read (`PagesTrue`, one clause for each
step). CarefulStarts is used twice: the restoring of T04, which takes no lock, finds nothing
exposed; and the recovery of T04, which finds a record by its action if none has the hash, does
not take one for another's transaction, since no other has the calldata of the operation that
has the turn (`HoldsTrue`). There is one lemma per action.

Recoverable needs a second invariant on top, `Preflights`, about states further back. Its
part `MinedReady` says of every mined operation that it was `Ready` in the state in front of
its transaction: the digest that was reviewed is that of this state, what precedes it in T03,
T04 or T05 is done, and in T05 the swap and the Hold are those it names. The preflight
finds this in the state of that moment. It is still so when the transaction is mined, because
the exposed operation is the only one and nothing else can be mined in between; afterwards the
chain only grows (`Extended`), so that a state that has passed stays what it was. What is left
is that all that recovery asks for follows from what the preflight found and, for the expiry of
T05, from the contract drawing the line at the same second (`InTime`).

Only model-checked: the two liveness properties, EveryCommandDecided and IntentResolves, since
the prover does not cover liveness under fairness. Every other property of a passing run is a
theorem.

## 5. What is not modelled

* The deploy operation of the settlement store with its cutoff, and the Mirror node
  cross-check (settlement_rpc.go 432-546): planned.
* Transport errors of the server's reads: a read that fails changes nothing.
* EIP-712 encoding, ECDSA, decimal parsing, address patterns, origins, formatting.
* Validators, sanitizers and evidence export; navigation, rendering and the recorded
  demonstration: functions of their input without protocol state.
* The details of what the milestones read: pages of Mirror logs, balances as numbers, event
  topics. Each is the comparison of two states or of a transaction with its record.
* Writes to localStorage that fail in the journals, and the block of a simulation being
  later than the expiry, from which on nothing is offered anyway.
* build-swap, build-settlement and verify-public-contracts: one compiler call or one upload,
  with no state. The scripts under docs/evidence are records of finished trials and the
  tests are not part of the program.
* Static configuration.

## 6. Plan

What would add most, in this order:

1. **SettlementStore, extended**: the deploy operation with its cutoff, the Mirror
   cross-check and its failures; then SettlementClient composed with it, for the lost
   preparation.
2. **NovaHbarSwap** as an instance of the atomic contract, so that the steps of Trade are
   shown to be calls of Escrow.
