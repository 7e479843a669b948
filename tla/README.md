# ECON: specifications, model checking and proofs

ECON lets autonomous agents sell work and trade "economic objects" for native
coin (MON).  The repository holds the contracts (`src/contracts`), a backend
that each agent runs (`src/backend`), an SDK with settlement adapters
(`src/src/sdk`, `src/src/settlement`), an indexer (`src/indexer`), integrations,
a user interface and a guild of Python agents.  Paths below start with `src/`,
which stands for the repository's root: `src/src/sdk/store.ts` is the
repository's `src/sdk/store.ts`.

This directory models the parts that keep state, checks them with TLC on small
instances and proves the main facts about them with TLAPS for every instance.

1. Inventory  2. The modules  3. The runs  4. What is proved
5. Statements the code does not keep  6. Not modelled, and why

## 1. Inventory

### Components, their state and their operations

| component | state | operations | what makes it correct |
|---|---|---|---|
| credit vault contract | balances, reservations, controllers, pool, coin | `deposit`, `depositFor`, `withdraw`, `reserveCredits`, `reserveCreditsWithDirectPayment`, `settleReservation`, `releaseReservation`, `recycleReservation`, `setAgentController` | every wei has one owner; a reservation is closed once; nobody loses a claim except by spending it |
| backend `POST /run` | idempotency store, suspended handlers, the signer's pending transactions | validate, claim, verify, execute, settle or release, record, answer; the global timeout; restart | a client is charged only for work that was done, told the truth, and never left hanging |
| backend, other routes | caches of the Nansen and the Qwen proxy | ask, answer, time out | what is shown is not older than it says |
| object contract | objects, approvals, operators | `createObject`, `approve`, `setApprovalForAll`, `transferObject`, `transferFrom`, `setStatus` | only the owner, and those the *present* owner approved, move an object |
| escrow contract | escrow records, coin | `lockEscrow`, `lockObjectEscrow`, `submitDelivery`, `verifyAndRelease`, `refund` | coin in = coin out, once per escrow; coin to the seller against the object to the buyer |
| marketplace contract | listings | `listObject`, `cancelListing`, `buyObject` | a sale moves object and coin together; no coin stays behind |
| identity registry contract | agents, wallet map | register, update | the two maps are inverse to each other |
| SDK store | agents, balances, policies, objects, escrows, transactions | read and written by all of the SDK | written by one call at a time, between two awaits |
| SDK engine and policy | transactions, policies | `buy`, `evaluate` | each purchase paid once; reserve and limits kept |
| SDK escrow manager | escrow records | create, lock, deliver, verify and release, refund | the seller is paid once, after delivery |
| SDK agent runtime | capabilities | dispatches purchase, escrow, recovery | capability, then policy, before anything moves |
| SDK recovery (`egc/`) | plans, executed plans, objects in flight | scan, plan, value, execute | a plan takes effect once; one execution per object; every lock is given back |
| SDK credit ledger | credits, reservations, pool, requests | grant, reserve, consume, release, recycle, request, fulfil | no credit twice, none lost |
| settlement adapters | the store (local), the chain (Monad), local listings | pay, transfer, lock, release, refund, buy | an answer is what happened |
| CRE service and card; CRE workflow and harness | scans, processed objects; windows | scan, demonstrate; trigger | an object is swept once; callers that share a window settle an object once |
| wallet executors (MetaMask, Dynamic) | treasury, records, connection, client that signs | check, sign, send, wait, debit | the books are what was settled |
| Mera session, application, agent builder | the session, signer, mode, agents | ceremony, sign out, connect, switch, publish | keys live only in the active session |
| Nansen and Qwen clients, panels | caches, requests in flight, what is shown | open, ask, answer, reload | fresh, of its own address, and ending |
| Envio client and console | queries, rows, badge | open, refresh, announce, answer | the source named is the source of the rows; what is summed up is there |
| demonstration loop | step, history, runs | start, reset, next, reopen | nothing settled twice in a pass |
| indexer | entities per contract | one handler per event | the projection of the events is the contracts' state |
| Python agent guild and its vault | credits, reservations, pool; a pipeline's stage | grant, reserve, consume, recycle, top up, spend; scout, analyst, executor | a stage that goes through was paid |
| scripts | none | deployment, seeding, demonstrations | (not modelled) |

### How they interact

The backend verifies a reservation by reading the vault (`CreditVerifier.ts`),
runs the task, and sends the vault a settlement or a release from the agent's key
(`CreditSettlement.ts`).  Clients send the vault transactions of their own in
the meantime.  Escrow and marketplace call the object contract's `transferFrom`,
which checks approvals its owners give and withdraw independently.  The SDK's
engine, escrow manager and recovery share one store and call one settlement
adapter (in memory or on chain) at an `await`; the application exchanges the
adapter whenever a session or a wallet comes or goes.  The CRE service and
the recovery console execute plans of the same collector.  The indexer sees the
contracts' events, the console asks the index.

### What is hard

* **Interleaving at awaits.** Each handler is a sequence of awaits; another
  request, a timer, a click or a transaction of the client comes between any two.
* **The chain is another process.** What is read may be stale when a transaction
  is mined; a transaction whose answer is lost may still be mined; the contract
  alone decides which of two closings of a reservation counts.
* **Timeouts.** The global timeout answers the client and leaves the handler
  running; the execution timeout turns a settlement into a release; a wait for a
  receipt that fails is taken for a failed payment.
* **Restarts and reloads.** The backend's store, the caches, a card's memory of
  what it processed are in memory; broadcast transactions are not.
* **Failures half way.** Payment made and transfer failed, or the reverse.
* **Limits checked early.** The policy is evaluated before the await that pays.

The list of hazards, each at its line and with the properties that cover it, is
in `PROJECT.json`.

## 2. The modules

| module | models |
|---|---|
| `EtherTotals` | the sum of a ledger, the rounding to a double, and their lemmas; the least-number principle |
| `ECONCreditVault` | `src/contracts/ECONCreditVault.sol` |
| `CreditCustody` | the abstract specification the vault implements: stakes held and closed once |
| `RunRoute` | `src/backend/src`: the `/run` handler over `ECONCreditVault` |
| `Chain` | accounts, coin and clock, shared by the other contracts |
| `ECONEconomicObject`, `ECONMarketplace`, `ECONEscrow` | the contracts of these names, the last two over the first |
| `ConditionalPayments` | the abstract specification the escrow implements |
| `Trade` | object registry, marketplace and escrow on one chain |
| `ECONIdentityRegistry` | the contract of this name |
| `IndexedChain` | `src/indexer/src/EventHandlers.ts`, and all five contracts it follows, event by event |
| `EconomicStore` | the SDK's store and the table of suspended calls |
| `Settlement` | both settlement adapters, and their exchange |
| `PolicyEngine`, `EconomicEngine` | `policy.ts`, `engine.ts` |
| `AgentRuntime` | `agent/runtime.ts`, `escrow.ts` and the views that call the escrow manager |
| `RecoveryPlanning` | detection, forecast, eligibility, valuation and strategies of `egc/` |
| `Recovery` | the collector and `RecoveryExecutionService.ts`, beside purchases and sales |
| `RecoveryScan` | the CRE service, its card, the console, over `Recovery` |
| `CREWorkflow` | Chainlink's workflow and its harness |
| `CreditLedger` | `src/src/sdk/creditVault.ts` |
| `AgentGuild` | the guild's contract and its Python pipeline |
| `DynamicWallet`, `GatedExecution` | Dynamic's wallet; the two policy-gated executors |
| `Session` | Mera sessions, `App.tsx`, `PasskeyModal`, `AgentBuilder` |
| `NansenProfiles`, `QwenReasoning` | proxy, client and panel of each; the second composes both |
| `EconomicLoop` | the demonstration's loop |
| `EconomicHistory`, `IndexHistories` | the live views of the index; its six histories under the console's tabs |
| `MC*` | instances for TLC |
| `RunRouteProofs` | theorems about the vault contract and the route over it |
| `TradeProofs` | about the trading contracts, the identity registry and the index |
| `EconomyProofs` | about the SDK's runtime and its credit ledger |
| `RecoveryProofs` | about the recovery and the scans over it |
| `WalletProofs` | about sessions and the executors of payments |
| `ConsoleProofs` | about the demonstration, the console's views, profiles and advice, the guild, the CRE workflow |

`RunRoute` composes server and vault, `Trade` three contracts, `IndexedChain` the
five contracts and the indexer, `AgentRuntime` runtime, views, engine, escrow
manager and adapters, `RecoveryScan` service, console, collector and adapters,
`QwenReasoning` both proxies, clients and panels.  `MCPrograms`, `MCWallets` and
`MCViews` put programs side by side that share nothing: a variable says which of
them a behaviour is of, so nothing about them depends on the others.

### ECONCreditVault

One action per external function, named as in the source; its first parameter
is `msg.sender`.  A transaction is atomic, and a failed `require` reverts it, so a
call that fails is a step that does not happen; that is why the guard of an
action is the conjunction of the function's requires.  `ether` is the
contract's balance and `wallets` what each account holds outside; a payable call
moves coin from one to the other (`ReceiveValue`), and a payout the other way
(`SendValue`), which fails for an account that does not accept coin (not in
`Payable`).  `blockTime` advances by `Tick`.

`retained` is a history variable: what `settleReservation` consumed for agents
without a controller, which the code leaves in the contract and counts nowhere.
The solvency equation needs it.

Amounts are naturals.  That is justified, not assumed: `BackedByCoin` shows that no
ledger entry exceeds the coin in existence, so additions cannot overflow as long as
that is below 2^256; subtractions have their guard in the model as in the code.

Reentrancy is not modelled: both payouts change the state before they send
(`withdraw`, `settleReservation`), so a nested call behaves as the next
transaction.  Events and view functions change no state.

### RunRoute

`at[q]` is the await at which the handler of request `q` is suspended:

| `at` | await | source |
|---|---|---|
| `verifying` | the vault's `getReservation` | `CreditVerifier.ts:50` |
| `checkingTx` | the payment transaction's receipt | `CreditVerifier.ts:77` |
| `executing` | the task, under `withTimeout` | `run.ts:125` |
| `settling`, `settleWait` | sending the settlement, its receipt | `CreditSettlement.ts:51-52` |
| `releasing`, `releaseWait` | sending the release, its receipt | `CreditSettlement.ts` |

An action is what the event loop runs between two awaits.  `Accept` looks up and
claims in one step because no await separates them; everything else can come in
between.  What the rest of the world does:

* `GlobalTimeout` answers 504 (`middleware/timeout.ts`) and leaves the handler
  running: the flag it sets is read nowhere.  When the handler answers later,
  `res.json` throws, which the actions `Complete` and `Fail` follow to where the
  exception is caught;
* `SubmitSettle` and `SubmitRelease` put a transaction in `pending`, or have it
  taken by the node and its answer lost; a call whose gas estimate reverts is not
  sent (`SettleReverts`, `ReleaseReverts`);
* `Mine` includes the signer's next transaction, in nonce order, with the vault's
  own action or as reverted;
* `Restart` empties the store and drops the handlers; `pending` survives;
* `Others` are transactions of clients and of the deployer, and time.

The verifier reads a reservation's amount as a JavaScript number
(`CreditVerifier.ts:61`), which holds every integer up to 2^53 (`SafeInteger`) and above
it only the multiples of a spacing that doubles with the number (`Spacings`).
`AsNumber` is the nearest of them, a tie going to the even one.  What the server says it returned is computed from this number, so `OutcomeIsTrue` asks for the vault's
amount up to 2^53 wei and for one within a spacing above.

The store is keyed by the text of the reservation id, which the vault decodes to 32
bytes: `Keys` are spellings, `IdOf` decodes, and two spellings of one id are two
entries of the store.

What `RunRoute` leaves out: the deployer settling or releasing by hand (it may,
and then `OutcomeIsTrue` speaks of a reservation somebody else closed);
transactions the node drops or the signer replaces; a clock of the server that differs from the chain's; the
content of tasks and results.

### The trading contracts

Again one action per external function, with `msg.sender` first.  Marketplace and
escrow call `transferFrom` of the object contract with their own address as
`msg.sender`: the action of the one contains the action of the other, and a
transfer the registry refuses reverts the whole.  `lockEscrow` stands for
`lockEscrow` (with `NoLink`) and `lockObjectEscrow`.  In `Trade` a sale and a
release compete for an object.

`approvedBy` is a history variable: who made the last approval of an object.
What nothing reads is left out: an object's type, value and metadata, a listing's
time, an escrow's condition and proof.  Corners of the code that are kept: a listing id
0 never counts as used (`Fresh`); an escrow that was never locked can be "refunded" by
anybody, which pays nothing to address 0 and leaves its id usable (`RefundAllowed`,
`PayOut`); a seller that rejects coin, or a fee recipient that does, makes the sale
revert (`Accepts`).  Not modelled: replacing the object contract by one other than
the registry (`setEconomicObjectContract` sets it to the registry), and a contract
that pushes coin into another by force.

### The indexed chain

Each transaction of the five contracts appends the events it emits, in the order of
the source, to `pending`; a handler of `EventHandlers.ts` takes the oldest one.
The entities are records of what the handlers store; sums that an entity keeps
(credits, volumes) are kept as sums.  The console adds up amounts as numbers of MON:
`formatWeiToMon` and `AddedTo` round each to a double, whose spacing at that size is one
of `MonSpacings`, and `GET_ESCROW_ACTIVITY` is the set of answers the query may give: the
newest `EscrowLimit` rows (25 in the code), rows of one block in any order.  `IndexAddsUp`
is about each of these answers.  Calls whose events no handler takes
(approvals, fees, metadata, deposits, withdrawals) emit nothing here.  The
contracts are the modules above, `ECONCreditVault` by INSTANCE.

### The SDK: store, adapters, engine, runtime, recovery

JavaScript runs one piece of code at a time, so a step is what a call does from one
await to the next, and `calls[c]` is where the asynchronous call `c` is
suspended: its operation, its await, what the answer was and the local variables
that are used afterwards.  The local adapter changes the store before its
caller's await returns, so its answer is part of the step that asks; the Monad
adapter is a request that is `sent`, then `Mined` or `NotMined`, and answered `ok`
or `failed`; a mined request may be answered `failed`, because a wait for a
receipt that throws is caught as a failed payment
(`MonadSettlementAdapter.ts:143`).  It may also stay `sent` for ever, because the adapter
awaits a wallet's user without a timeout.  `setSettlementAdapter` exchanges one for the
other at any time.  The escrow contract is open to its parties without the SDK:
`ActOnChain` is a delivery, a release or a refund that one of them sends.

Amounts are integers in units of 0.00001 MON; the store rounds balances to
0.001 MON (`RoundMilli`), and so does the model.  Days are ticks divided by four, so
that "since midnight" is one comparison.

Variables marked "history" (`payments`, `releases`, `refunds`, `planOf`, `sent`,
`moved`, `overtaken`, `guessed`, `untracked`, `askedFor`) only record: no guard of an
action reads them.

`Recovery` has one step per await of `executePlan`: the guard and the lock before the
first await, the payment, the transfer, and the `finally` that gives the lock back on
every way out.  Its plans come from `RecoveryPlanning`, which is the collector's whole
judgement with its rounding.  `RecoveryScan` adds a scan's awaits (plan, Qwen's
advice, policy, execution) and a card that is mounted anew with an empty set of
processed objects.

### Sessions, wallets, clients and views

`Session` numbers sessions; `live` are those whose keys have not been wiped, and
each view, the adapter and the application hold numbers.  A ceremony is a step to
start and a step to end; what a component does after the await is the second.
`DynamicWallet` sets wallet and client apart, since the client comes when a connector
has answered.  `GatedExecution` has one step per await of the two executors, and beside them what
the rest of the SDK does to the same agent: `moveBalance` (whatever the local settlement
takes or adds), `buy` and `BuyEnds` (which count for the daily limit), and
`handleUpdatePolicy`.  Amounts are natural numbers of 0.00001 MON, so that the store's
rounding to 0.001 MON makes a small payment vanish and shifts others; the error of the
floating-point operations themselves, far below that unit, is not modelled.

`NansenProfiles` and `QwenReasoning` abstract a profile to whether it is available
and the time its oldest part was answered, and advice to its time; a tick is as
long as a request that ends can take.  A request to Nansen, which has no timer, and the
body of Qwen's answer, before which the timer is cleared, may hang for ever
(`ProfileHangs`, `AdviceHangs`).  `EconomicHistory` keeps rows and the source named
over them; an agent's timeline asks for the parties that contain its id
(`_ilike %owner%`), and `Matched` says which agents those are;
`EconomicLoop` counts what each pass asks to settle.

`CREWorkflow` has the harness's executions, with the set of their caller or without one,
beside the scheduled workflow, and counts the settlements of an object since the callers
made their present set.

In `IndexHistories` the index is the sequence of its events, and an answer is how
many of them it had: what a history shows is then a function of that number and of
what it is about (`ShownOf`), and the question is whether all it shows is of one
moment since it was opened.  One history is mounted at a time, and the window of an
agent's or an object's covers the console; a mounting that is gone can still be
answered.  The metrics that the analytics wait for and show nowhere count only as an
answer that must come; the time range of a query is not modelled.

## 3. The runs

| run | question | bounds |
|---|---|---|
| `vault` | is coin never paid twice or lost, does a claim only shrink by what was spent, is each reservation closed once, does the vault implement `CreditCustody` | 3 accounts (deployer; requester with 2 wei; an agent's key without coin), 1 agent, 2 reservations, amounts 0..2, expiries 0 and 1, time up to 2 |
| `run_route` | at most one handler per claim, at most one closing per reservation, true answers, charged only for work, every request ends | 2 requests, price 2, reservations of 1 to 3 wei, 1 restart; `instance`: two spellings of one id, time fixed, an amount that is not the price; or one spelling, expiries 0 and 1, time up to 2, the amount is the price; or one spelling, no restart, an amount of 5 or 7 where numbers are exact up to 4 and then 1, 2 or 4 apart |
| `trade` | present-owner approvals, no coin with the marketplace, coin for open escrows and no more, conditional payments, no object moves without right, coin conserved | 2 accounts with 200 wei, 1 object, things cost 150 and 150 or 180 is paid, fee recipients: the market, which rejects coin, or nobody; deadline 1; `floor`: 2 listings, time up to 1; or 2 escrows, time up to 2; or one of each, time up to 1 |
| `economy` | is a purchase paid once and truthfully recorded, a seller paid once by the store, and by store and chain only after an exchange, the reserve kept | 3 ids of which 2 are registered, 1 object, 2 calls, 1 escrow of the demonstration data, amount 400, two policies that can be exchanged, 1 exchange of the adapter, midnight between the two ticks |
| `recovery` | one execution per object, every plan executed once, reported as it was, every lock given back unless its wallet never answers | 2 agents (one inactive at first), a disk with every right and a pass that can only be refunded, 2 plans, 2 calls, 1 exchange of the adapter, expiry between the two ticks |
| `scan` | does one service sweep an object once, is what is executed what the policy permitted, beside the console and the demonstration | 2 scans, 2 mountings of the card, 3 calls, 2 plans, four kinds of advice, two policies, the Monad adapter |
| `scan_double_spend` | *violated*: a buyer pays for one object once | as `scan` |
| `programs` | credits stay accounted for in the ledger and in the guild's vault, no more stages go through unpaid than had an unreadable balance, callers that share a set settle an object once | `program`: ledger (2 agents, 2 reservations, 1 request, amounts 1 and 2 of a grain of 2, up to 9 roundings); guild (2 stages, 1 other agent, 1 pipeline, 2 runs, 5 credits); workflow (2 candidates, 3 caps, 2 sets, 4 triggers) |
| `wallets` | are the books what was settled and moved, to the rounding, do limits hold unless an execution was overtaken, do keys live in the active session only | `user`: payments (1 registered agent, 2 calls of which each is an execution, a purchase or another debit or credit, amounts 40 and 400 of which the smaller is rounded away, 2 policies, 2 wallets, midnight between the ticks); passkeys (2 of which one is known, 2 ceremonies that succeed, 2 wallets, 1 connection, 1 publication); connections (the same with 2 connections, 2 answers of connectors, 1 ceremony that succeeds) |
| `index` | do the entities, caught up, equal the contracts' state, are their sums coin, as far as limit and rounding let them, are the registry's maps inverse | 2 accounts, 1 object, listing, reservation and agent id besides 0, 2 events that wait, a query for 1 row, numbers exact up to 16 wei and then 1 or 3 apart; `scope`: objects with marketplace, objects with escrow, escrow alone with time and a second escrow (`Spare`), registry, vault with time (`Timed`) |
| `advice` | is nothing shown too old or of another address, does every question end that does not hang | 2 addresses, 2 objectives, both caches 1 tick, 2 requests, time up to 4 |
| `views` | is nothing settled twice in a pass, does every run end whose settlement answers, is the badge true, is a timeline its agent's, is a history of one moment | `used`: the loop (2 clicks, 2 views, 2 passes); or one panel (2 agents, of which the id of one contains the other's, 1 row, 2 events, 2 queries, 2 openings); or one tab of the histories (1 object, 2 actors where an agent's history is, 1 row, 2 events, 2 queries, 2 mountings) |

**Why the bounds are enough.**  Two reservations are the fewest that can be confused
with each other and that can overdraw one balance; with 2 wei a deposit can be split,
a surplus can exist and two reservations can compete for it; three time
values give before, at and after an expiry.  Two requests race each other, come one
after the other or repeat one another; two spellings allow two handlers to work on one
reservation, which one spelling never does; one restart is enough for a
transaction of a forgotten handler to race a new one.  One object is enough for sale,
gift and release to compete; two listings and two escrows are the fewest where an
older promise of it meets a newer one; 150 wei has a fee, 180 leaves an excess.  In
the SDK every race is one of two calls on one object or one agent, so two calls
suspended at a time are the interesting case, and one exchange of the adapter
between them puts the start on one side and the answer on the other.  Ticks of six
hours with midnight between two of them are the only way the daily limit can be
reset.  Two escrows and a query for one row are the fewest where a row is cut
off.  SafeInteger and FineWei are small so that 5 wei and 100 wei are beyond them; what the
runs cannot show of real doubles the proofs do, which take any spacings.  `scan` has three
calls, because a double payment takes two buyouts beside
whatever the console does.  One event that is handled while another waits is
the most a handler can be behind; two waiting show the order.  The choosers
(`instance`, `floor`, `program`, `user`, `scope`, `used`) are fixed in the initial
state: they split what would be one large instance into small ones, each of which
has its own interesting bounds, and lose only behaviours that mix them.

Agents and reservations are interchangeable in `programs`, which has no liveness
property: hence its symmetry.  No other run uses any.

**Deadlock.**  `vault` and `trade` check for it.  The others may stop: when all requests,
calls, clicks and ticks of an instance are used up nothing is left to happen.

**Fairness.**

* `run_route`: `WF(Handle(q))` for each request: Node runs the callback of an await
  that has returned and of a timer that has expired, `withTimeout` bounds the task, and
  ethers' calls return or throw.  `WF(Mine)`: the chain includes the transactions it
  accepted.  Nothing is assumed of `FinishTask` (a task may run for ever), of RPC
  errors, of the global timeout or of clients.
* `recovery`: `WF(Resumes(c))` for each call, as above, and nothing else: a request of
  the Monad adapter need not end, because it waits for a user's answer without a timeout
  (`MonadSettlementAdapter.ts:174`).  `LocksAreFreed` says that a lock which is never given
  back is held by an execution that awaits such a request for ever.
* `advice`: `WF(Completes(q))`, of which a request that hangs is no instance: the network
  and the proxies end every other.  `EveryQuestionEnds` says that a spinner which turns
  for ever is that of a hanging request of what is shown.
* `views`: `WF(GoesOn(d))`: timers fire.  Nothing is assumed of the settlement of a step,
  which may be a wallet's prompt.  `EveryRunEnds` says that a run that does not end
  awaits its own settlement for ever.

Users, wallets, views, clocks and adapters' exchanges are never assumed to act.

## 4. What is proved

The theorems hold for every value of the constants that the named assumption of each
module admits.  Two assumptions go further than that and are named in the theorems
that need them: `WholeReserves` and `OrchestratorAlone`.

* `EtherTotals`: the sum of a ledger is a natural number; changing one entry
  changes the sum by the difference; an entry, and two disjoint sums, are at most the
  total.  The library's induction theorems take an operator, which no installed prover
  can instantiate; the least-number principle takes a *set* of naturals
  (`LeastNumber`, from the well-foundedness of the naturals), and with it an induction
  over one set at a time can be done: so `Total`, which counts units, is shown to be
  the fold that `Sum` is (`SumIsTotal`).  `NumberIsClose`: the nearest number is within
  half of its spacing; `FoldDrifts`: a fold that rounds each sum is, after any number of
  additions, at most one spacing per element off the exact sum.
* `RunRouteProofs`, the vault by itself: with

      IInv == TypeOK /\ ClosedOnce /\ Solvent /\ Conserved

  `Init => IInv`, and one lemma per external function shows that it preserves
  `IInv`.  None of the conjuncts is inductive alone: `TypeOK` needs the guards for
  the subtractions, `Solvent` needs `ClosedOnce` for the refund
  `amount - consumedAmount`, and `BackedByCoin` is a consequence of `Solvent`
  and `Conserved`.  From it follow `TypeCorrect`, `AlwaysSolvent`,
  `AlwaysBackedByCoin`, `AlwaysClosedOnce`, the action properties `TermsNeverChange`
  and `ClaimsAreOnlySpent` (what an account can claim, by its balance and its open
  reservations, falls only by what it withdraws or what is consumed of its own
  reservations), and `Refinement`: the vault implements `CreditCustody`.
* `RunRouteProofs`, the route: `ServerIsAClient` shows that server, clients and chain
  together take only the vault's steps, so that the vault's theorems carry over.
  `RunInv` then says which handler holds which claim, what each suspended handler
  knows of its reservation, and which transactions are pending; from it follow
  `ClaimsAreHeld`, `ReservationsCloseOnce`, `ResponsesAreTrue` and `ChargesAreEarned`.
  `ResponsesAreTrue` holds for any `SafeInteger` not below the price and any spacings; the
  price is assumed to be exact because ethers refuses to send an inexact number.
* `TradeProofs`: `TradeInv` is types, approvals of existing objects by their present
  owners, terms of escrows, and the three equations about coin.  `ApprovalsAreCurrent`,
  `MarketplaceKeepsNothing`, `EscrowHoldsWhatItOwes`, `CoinIsConserved`,
  `EscrowImplementsPayments` (the escrow implements `ConditionalPayments`),
  `ObjectsMoveByRight`, `ListingsDoNotChange` (for every id but 0).  The registry:
  `WalletsAndAgentsMatch`, from `RegistryInv`, for every agent id but 0.
* `TradeProofs`, the index: `IndexFollows` and `IndexSums` (and, beside the other
  contracts, `WalletsAndAgentsStayMatched`), from

      IndexInv == ContractsOK /\ IsQueue(pending) /\ AreEntities(CaughtUp)
                  /\ ObjectsShown /\ EscrowsShown /\ ListingsShown
                  /\ AgentsShown /\ ReservationsShown

  which is about the tables once the waiting events are handled (`CaughtUp`), so that a
  handler's step changes nothing in it (`HandledFirst`) and a transaction's events are
  handlers applied at the end (`HandledLast`).  These two lemmas are about the fold
  that `CaughtUp` is, for a queue of any length: its recursion has a solution, and two
  ways along the same queue do not come apart, by the least place where they would.
  Then each event changes one row, and the row is what its transaction made of the
  contract.  `IndexSums` follows from that and from the lemmas about rounded folds
  (`ShownSum`, `LockedIsShown`), for any limit of the query and any spacings.  The
  contracts' own invariants (`ContractsOK`) are needed: an escrow that
  is released was locked before, so that there is a row to change; an active listing is
  of an object; no escrow is VERIFIED, so that what the console shows as locked is what
  the contract holds; a reservation that closes was open, so that its row was all
  zeros.
* `EconomyProofs`, the runtime: `RuntimeInv` says of every suspended call what its
  purchase or escrow looks like (types of its record, whether it was paid, that no
  second call is out for one release).  `RuntimeTypes`, `SettledPurchasesArePaid`,
  `SellersArePaidOnce` (with parties that act on the chain by themselves: store and
  chain pay together only after an exchange), and `BuyersKeepTheirReserve`,
  which assumes `WholeReserves`:
  each policy's reserve is a multiple of 0.001 MON.  The assumption is needed:
  balances are rounded to that unit, so a reserve that is a fraction of it can be
  missed by less than half a unit.
* `EconomyProofs`, the credit ledger: `LedgerStaysSound`, from

      LedgerInv == TypeOK /\ DriftOK /\ ConsumedIsEmpty /\ \A q \in Requests : RequestOK(q)

  Each rounding is off by at most half a grain, so the books and what was granted are
  never further apart than half a grain for each rounding there was (`DriftOK`); the
  exact equation is not true of the code.  That a request is not overfulfilled needs
  that what was fulfilled is whole thousandths (`RequestOK`): only then does
  rounding what is missing not add to it.
* `RecoveryProofs`, executions: `RecoveryInv` relates locks to suspended executions and
  remembered keys to executed plans.  `OneExecutionAtATime`, `PlansExecuteOnce`.
  `PaidInv` adds what each call has paid so far and for which plan: for a plan that is
  reported executed a refund was credited once, a buyout was paid, and nothing was for
  the rest (`ReportedIsRecovered`).
* `RecoveryProofs`, scans: `ScansKeepLocks` carries the two theorems about executions
  over to the service, the console and the demonstration.  `AdviceIsHeeded` (what is
  executed is what the policy permits) needs `AdviceInv`: a scan that asks or
  executes has a plan about its object, and from the check to the execution the scan
  runs alone, so that no policy changes.  `ObjectsAreSweptOnce` needs
  `SweepInv`: scans of one card come one after the other (`InTurn`), what was swept
  is remembered until a demonstration puts it back (`SweepsKnown`), so that a
  later scan about the same object has such a demonstration before it (`PutBack`).
* `WalletProofs`, sessions: `ControlInv`.  `OneSessionLives`, `LocalIsLocal`,
  `PasskeyAndRegisteredAgentsStand`, which says nothing of agents of a connected wallet:
  the code makes those with the zero address too.
* `WalletProofs`, payments: `ExecutionInv` says what a suspended execution knows
  (`CallsInv`), how far a balance may be from the endowment, what was moved and what was
  settled (`BooksInv`: half a thousandth for each settled payment), and, of an execution
  that was not overtaken, that what the policy permitted is still permitted when it
  settles, on that day *and on any later one* (`LimitsInv`): an execution checked before
  midnight settles after it.  `BooksAlwaysBalance`, `LimitsHoldUnlessOvertaken`, for any
  amounts and policies.
* `ConsoleProofs`: `AsksOncePerPass`, because a step is counted before it works
  (`LoopInv`); `ConsoleStaysHonest`, because a view takes an answer only with the
  source and the agent it was asked for (`HistoryInv`), for whatever ids a pattern
  matches, and an answer to a mounting that
  is gone reaches nothing (`HistoriesInv`).  `NothingIsTooOld` adds up the times that
  one entry spends in the caches of proxy, client and panel and on its way
  (`AnswersInv`); `PanelIsOfItsAddress` is one of its conjuncts.  A cache's time to live
  is at least one tick there (`ProfileAssumption`), as it is in the code.
* `ConsoleProofs`, the guild: `GuildCreditsAddUp`, from `GuildVaultInv` (who is not
  registered holds nothing; a closed reservation holds nothing).  `GuildStagesArePaid`,
  from `PaymentsInv`: what a stage read of its balance is still there when it spends,
  and each stage spent its cost as often as it went through.  It assumes
  `OrchestratorAlone`: one pipeline, and no stage's agent spends elsewhere; without it
  the balance that was read may be gone when it is spent.  Reads may fail at any time: the
  stages whose balance was guessed to be 100 are counted (`guessed`), and no more than
  these go through unpaid.
* `ConsoleProofs`, the workflow: `SettlesOncePerWindow`, because what the callers that
  share a set settled is in it.

`ConsoleProofs` is about the specification that the run `views` checks.  `MCWallets` and
`MCPrograms` run one of several programs each, and the theorems about those are about
each program's own specification.  Each inductive invariant was checked by TLC on the
bounds of section 3 before it was proved.

Every safety property of a run is stated by a theorem.  Only model-checked, because out
of the prover's reach: liveness (`EveryRequestEnds`, `LocksAreFreed`,
`EveryQuestionEnds`, `EveryRunEnds`).

## 5. Statements the code does not keep

**Shown by a run.**  `docs/integrations/chainlink-cre.md:184` says that processed object
ids are tracked to prevent double-spends.  The id is added only after a
successful execution (`creService.ts:323`).  In the run a buyout's payment is mined,
but the wait for its receipt ends in an error, which the adapter reports as a failed
payment; the plan is rejected, the scan reports FAILED and remembers nothing, and the next
scan of the same card finds the object and has the same buyer pay again
(`scan_double_spend`).

**Met while modelling**, without a run of their own.  The models behave as the code does,
and the properties are stated so as to hold of it.

* Vault: `settleReservation` for an agent without a controller leaves what was
  consumed in no ledger, though `ECONCreditVault.sol:171` says "else retain in agent
  pool".  An expired reservation can still be settled; `CreditVerifier.ts:19` calls it
  dead.
* Run route: a recorded outcome is erased when `res.json` throws after the 504, so a
  retry does not get the same answer (`src/backend/README.md:169`); `req.timedOut` is read
  nowhere, so that a request answered 504 is still charged (`middleware/timeout.ts:4`);
  a claim is dropped also when waiting for a settlement that was mined failed
  (`IdempotencyStore.ts:41`).
* Run route: `creditsReturned` of a reservation above 2^53 wei is what a double holds of
  it (`CreditVerifier.ts:61`), not what the vault returned.
* Marketplace: listing id 0 never counts as existing (`ECONMarketplace.sol:89`).
* Escrow: the deadline unlocks no refund once a delivery was submitted
  (`docs/audits/integration-matrix.md:31`).  An escrow without an object contract pays
  and leaves the linked object where it is (`ECONEscrow.sol:136`); `LinkedAtDeployment`
  is TRUE in the runs, as `scripts/deploy.js` leaves it.
* SDK escrow manager: `refund` asks nothing of the record's status, and the local
  adapter pays it, also after a release or a refund (`escrow.ts:121`).  `SellerPaidOnce`
  is therefore about the seller.  When the adapter was exchanged after a lock on the chain,
  the store pays the seller and the contract lets a party release there as well.
* Recovery: a rejected buyout may have paid before, against "zero state mutation"
  (`docs/audits/final-readiness-report.md:76`).  A plan for a strategy the
  executor does not know stays EXECUTING.  A stale local listing sells an object its
  seller no longer owns (`LocalSettlementAdapter.ts:342`).
* Wallets: two executions of one agent that overlap are each checked against limits that
  neither has used yet (`docs/integrations/metamask-agent-wallet.md:127`), and so it is
  with a purchase, a debit or an edited policy between check and debit;
  `LimitsUnlessOvertaken` says that nothing else breaks them.  A payment below half a
  thousandth of a MON is settled and never debited (`store.ts:102`).
  A client that answers late is one of another
  wallet than the one shown (`DynamicProviderBridge.tsx`).
* Session: the builder shows an ended session as a live signer (`AgentBuilder.tsx:207`).
* Index: `MetadataUpdated`, `CreditsDeposited` and `CreditsWithdrawn` have no handler
  (`docs/integrations/envio.md:13`).
* Guild: a balance that cannot be read counts as 100 and receipts' status is not read, so
  that such a stage goes through unpaid (`executor_agent.py:21`); two pipelines, or an
  agent that spends elsewhere too, break `StagesArePaid`.  `src/agent_ecosystem/README.md:5` describes a
  `sweepDust` the contract does not have.
* Advice: the client's key for Qwen's answers leaves out policy and balance
  (`qwenClient.ts:33`); the answer to an earlier objective replaces a newer one
  (`QwenReasoningModal.tsx:43`).  A spinner may turn for ever (`nansenClient.ts:61`).
* CRE: only callers that hand in a set are kept from settling an object again
  (`creRunner.ts:96`); the scheduled workflow settles its object at every trigger.
* Console: the locked sum is that of the newest 25 escrows (`EscrowHistory.tsx:24`); an
  agent's timeline has the events of agents whose ids contain its own (`client.ts:392`).

## 6. Not modelled, and why

* Scripts (deployment, seeding): run once, by hand, and keep no state.
* Backend: health and metadata routes, CORS, request ids and rate limits; the
  store's size, which grows with every request and has no bound in the code either.
* SDK: the list of events, capped at 250, subscribers, services and the lookups of
  discovery, on which no state depends; an object's version, which no
  caller compares; `createNativeAgent` and `connectExternalAgent`, which register an
  agent as the others do; `RECOVER_OBJECT`, which is a plan and its execution.
* Adapters: the Monad adapter's calls are their effect on the contracts; its encoding
  of ids and addresses is left out.
* Wallets: the doctor command, the faucet, bindings of agents to wallets.
* Data services: mapping of rows, prompts and texts of the external services, which are
  requests that are answered or not.
* User interface: rendering, styling, the landing page and views nothing mounts.
* Python guild: its mode without a key, which calls nothing, and the two health servers.
* Reentrancy of the contracts (see `ECONCreditVault`), gas and events nobody handles.
