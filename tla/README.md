# Verification of the Mallchain application

TLA+ models of the parts of this repository where state, order and failure
matter. The repository holds a Cosmos SDK chain (`app/`, `x/`), a JavaScript
marketplace beside it (`The_MarketPlace-main/backend`), a small wallet API
(`backend/src`), frontends, contracts and data directories. Two parts are
modelled. Of the chain: its ledger, the guard of its minting function, points
and badges, the ante handler, and genesis export. Of the marketplace backend,
whose handlers load, await and save documents that other handlers and other
processes save too: the dispatch of deliveries, wallets, task campaigns with
the monthly conversion, and orders with their stock. TLC checks the models on
small instances; TLAPS proves every invariant and every action property that
the runs check for every value of the constants, and that one specification
implements another. Liveness is left to TLC.

To check: `tlc -config <run>.cfg <MC module>` for a row of section 4,
`tlapm <module>.tla` for a module of section 6.

## 1. Inventory

### 1.1 The chain

| component | state | operations | what makes it correct |
|---|---|---|---|
| `x/mlcoin` ledger | wallets, KES balances, emission record, market prices and volumes, one sequence, transaction and trade logs, currency rates; bank coins through `x/bank` | BuyMallcoin, SellMallcoin, TransferMallcoin, MintMallcoin, SetCurrencyRate, MintToWallet, BeginBlock (rates) | supply cap over both minting paths; prices ordered and positive; logs dense, nothing overwritten; balances equal to a replay of the logs; rates follow demand |
| minting guard (`mlcoin/keeper/keeper.go`, `mint.go`) | one flag in process memory, a mutex, copies of the keeper | WithMintingEnabled, MintToWallet | a mint needs an opt-in of its own caller; an opted-in mint is not refused |
| `x/mallpoints` | points records, conversion window | AwardPoints (proof of work or badge), ConvertToMallcoin | points are spent once; a conversion takes points exactly when coins are minted |
| `x/badge` | badges | IssueBadge, HasUserBadge | one badge per user; only its holders convert |
| ante handler (`app/app.go`) | a count and replay keys in the mlcoin store, on the delivery state and on each node's CheckTx state | every transaction in CheckTx, recheck and delivery | at most ten deliveries per block; none twice; a proposer's mempool can be delivered |
| genesis of the modules | – | InitGenesis, ExportGenesis | what was exported comes back under the key its owner uses |
| `x/vault` | encrypted key, TOTP secret, failure counter, lock | SetupVault, ConfirmVault, UnlockAndSign, DisableVault | the lock falls after five failures, also through the message server |
| `x/mallcoin`, UpdateParams everywhere | params | UpdateParams | a guarded write |
| `app/`, `cmd/` | – | wiring, commands | SDK configuration |

How they interact. Purchases mint through `WithMintingEnabled` and
`MintToWallet` of their own keeper; `x/mallpoints` mints through the same two
functions of the same keeper object, asks `x/badge` for the badge, and knows
nothing else of the ledger. The ante handler shares only the store key with
`x/mlcoin`. `TransferMallcoin` and `MintMallcoin` move coins of `x/bank`, the
other handlers move balances of the module's own wallets: two currencies of the
same name that no handler exchanges.

What is hard. Messages are delivered one at a time on a cached store that is
dropped when a handler fails, so the ledger has no interleaving *within* a
message; its difficulties are wrapping `uint64` arithmetic, floors, two minting
paths and two logs on one sequence. What does interleave is everything outside
the delivery store: the minting flag is a field in memory that deliveries and
gas simulations share, and the ante keys exist once per node beside the
committed ones and are thrown away after every block. Restart from an export is
the one crash-like event that loses state.

### 1.2 The marketplace backend (`The_MarketPlace-main/backend`)

| component | state | operations | what makes it correct |
|---|---|---|---|
| delivery dispatch (`workers/assignmentWorker.js`, `workers/requeueWorker.js`, `queues/deliveryQueue.js`, `scripts/recoverAssigning.js`, `services/deliveryService.js`, `controllers/deliveryController.js`) | task documents, the bull queue | createTask, the assignment job, the sweep of stale tasks, the recovery script, assignAgent, agentAcceptTask, confirmPickup, confirmDelivery | one job at a time has a task; a task that is being assigned gets out of it; a delivered task is not offered again |
| wallets (`controllers/walletController.js`, `utils/transactionHelper.js`, `controllers/checkoutController.js`, `routes/wallet.js`, `routes/jobs.js`) | balance, escrow, transaction log | deposit, withdraw, send, reserve, release, refund, hire, checkout | nothing but an unchecked negative amount takes a balance or escrow below zero; both agree with what was logged and held |
| campaigns, tasks and conversion (`controllers/tasksController.js`, `routes/tasks.js`, `routes/tasksCreator.js`, `jobs/conversionJob.js`, `controllers/checkoutController.js`) | points, coins, campaigns, participations, conversion records, the month of the last run | create campaign, start, verify and reward, post a task, complete a task, convert, check out in coins | a campaign pays at most its budget, and at most as much again for each reward that overwrote another; points are neither made nor lost; coins have records |
| orders and stock (`controllers/checkoutController.js`, `orderController.js`, `productController.js`, `sellerController.js`) | products, orders, inventory log | checkout, confirm payment, status changes, stock changes of the seller | nothing oversold; items taken once; the log, with what shortfalls write off, explains the stock |
| M-Pesa (`routes/mpesa.js`, `controllers/mpesaController.js`, `workers/b2cWorker.js`) | pending payments | start, callback, payout | – (nothing follows the first write, see section 7) |
| shops, jobs, adverts, disputes, chat, analytics | documents | CRUD handlers | mostly a single document write each |

Each handler loads documents, awaits, and saves absolute values, and the
process serves many requests between two awaits; several processes run the
same jobs. `save()` of Mongoose writes the fields that were changed and nothing
else, so what overlaps is decided field by field. `runInTransaction`
(`utils/transactionHelper.js`) uses a transaction on a replica set and, on a
standalone server, runs its callback a *second* time without a session, on the
in-memory documents that the first run changed.

What the code does in these paths, and what a reader of the handlers alone
would not expect:

- `models/DeliveryHistory.js` and `models/DeliveryLog.js` export an object in
  place of the model, as some thirty other models do. A handler that uses one
  fails there, after its save: `createTask`, `assignAgent`, `confirmPickup` and
  `confirmDelivery` answer 500 with the task already changed, the payout of a
  delivery is never reached, and `assignTaskToAgent` always throws after it has
  assigned. The advert, dispute and growth handlers fail at their first query.
- The enum of `WalletTransaction` lacks the types that `reserveEscrow`, advert
  charges and the hiring of an applicant log; `checkout` calls `recordTx`,
  which is not exported. All of them report a failure after the money moved.
- On a standalone server a send moves twice its amount and logs it once, and
  `verifyTask` charges its campaign twice. A send to oneself keeps what it
  received.
- A confirmation that finds too little stock sets it to zero in a *second*
  update, without a sale or a log entry; what was put into stock between the
  two updates is wiped out with the rest. A paid order that was packed or
  delivered can be confirmed again, and its items are then taken again.
- Nobody looks at the sign of the amount of a send, a hold or a release, of a
  budget, a reward or a total, or of the quantity of an item. A send, a hold or
  a refund of a string appends its digits, since `+=` meets a string.
- `/tasksCreator/create` takes the cost of a task without a test of the
  balance, and before the task is saved, which the enum of its platform may
  refuse: the platform it falls back to, `General`, is not in that enum.
- `checkoutMallcoins` takes the coins and then fails at `recordTx` too.
- `assigning` is not a status of the schema of a delivery task
  (`models/DeliveryTask.js:17`): the worker's `findOneAndUpdate` runs no
  validators.
- The interval of the sweep (`workers/requeueWorker.js:17`) starts a callback
  whether or not the one before has ended, so sweeps overlap.

### 1.3 The wallet API and the rest

`backend/src` (auth, vault, tx, market and mallwallet routes mounted; buy,
invite, mallpoints, payment and liquidity handlers in the tree), the two
Solidity contracts, `operator/`, `mallwallet/`, `hardhat-node/`, three
frontends, the `blockchain_*` and `local*` data directories, generated protobuf
code and `node_modules`. `The_MarketPlace-main/blockchain/x` is a copy of `x/`.

## 2. Plan

Done: `Mlcoin`, and `MarketMaker`, the abstract market it implements;
`MintGuard`; `Mallchain`, which composes points and badges with the ledger;
`ChainExport`, which composes restarts with all of `Mallchain`; `Ante`; and, of
the marketplace, `DeliveryTasks`, `MarketWallets`, `PointsEconomy` and `Stock`.
Each has its proofs: `ChainProofs` for the four modules of the chain's ledger,
a module of its own for each other.

Left, in this order:

1. `DeliveryTasks` with the agents' profiles (availability, load), once the
   delivery models export what their users import.
2. `MarketWallets` composed with `Stock`: a checkout that debits and a
   confirmation that takes the items, with the invariants of both.
3. `x/vault`, when an application wires it in.

## 3. Modules

A message whose handler returns an error leaves no trace in the store, so the
guard of an action is the conjunction of the early returns of its handler and a
refused message is a stuttering step. Storage errors of the SDK (a failed
`Get` for another reason than "not found") and gas are left out, except in
`MintGuard`, where a panic on gas matters.

### Mlcoin (`x/mlcoin/keeper`, `module.go`)

Each variable is a collection of the keeper: `wallet`, `kes`, `rates` are
partial functions because handlers distinguish a missing record from a zero
one; `txs` and `trades` map the number in `TX-n`/`TR-n` to the record; `circ`
is `EmissionState.Circulating`; `bank` is external. Integers wrap at `W`
(`Add`, `Mul`). `BuyMallcoin`, `SellMallcoin`, `TransferMallcoin`,
`MintMallcoin`, `SetCurrencyRate` are the handlers; `MintToUser` is what
`x/mallpoints` calls; `BeginBlock` is `UpdateCurrencyRatesFromCommunity`.
Abstracted: address and currency validation, events, timestamps (a height
stands for both), and the `Locked` and `TotalEarned` fields, which no guard
reads. A new rate is not one number but any that the float64 expression may
round to: `Nudged` is the exact quotient, off by the half of `math.Round` and by
one part in `Precision` for the operations before it, and `Converted` is what
the conversion to `uint64` makes of that – at least 1, and one of `Unfit` when
the float is out of the word, which Go leaves to the machine. Totals are
`uint64` sums (`Activity`) and the demand is the difference of their `int64`
casts (`NetDemand`), so both wrap as in the code.
`SetCurrencyRate` is implemented and tested, but `tx.proto` does not list it in
the service; the model lets the authority call it, without which
`BeginBlock` would have nothing to do.

`MarketMaker` is the abstract market: coins, ask and bid as unbounded integers,
with purchases, grants and sales. `ImplementsMaker` maps `circ` to `coins` and
the two prices to `ask` and `bid`.

### MintGuard (`keeper.go:89-105`, `mint.go:11-19`)

The flag, and for each run of a handler where it is. The two assignments happen
under the mutex; `MintToWallet` has a value receiver, so the copy of the keeper
made by the call is the read, and the mutex it locks afterwards protects only
that copy's pointer. `Enable`, `Call`, `Mint`, `Disable` are these steps.
`Delivered` runs exclude one another, `Simulated` ones do not.

### Mallchain (`x/mallpoints`, `x/badge` over `Mlcoin`)

Adds points records, badges and the history variable `awarded`. The ledger's
`MintToUser` is no longer free: it occurs only inside `ConvertToMallcoin`,
after the points were taken. The proof of work of an award is a Boolean input:
whether a digest has the zero bits is the client's luck.

### Ante (`app/app.go:225-288`)

`keys` is what the handler keeps in the store: the height and count under
`ante:global:count` and the replay marks. One copy is committed, one per node
is its CheckTx state. `CheckTx`, and `Block` with the recheck that follows it.
The routes of a transaction through CometBFT and baseapp are external; `valid`
is the set of transactions that the SDK's own checks accept. A block is either
reaped from a mempool or, to cover other proposers, one of `Foreign`. A list
of transactions is run by a recursive function over its prefixes (`Ran`), which
is what lets the proofs speak of lists of any length; what the block delivered
or refused leaves every mempool, so it is left out of the recheck.
Genesis transactions give the count its value at height 0.

### ChainExport (`genesis.go` of the three modules over `Mallchain`)

`Restart` is ExportGenesis followed by InitGenesis, between any two messages.
A record is stored under the `Index` field it carries; a handler that creates a
record leaves `Index` empty, so after a restart that record is under `""`, and
of several one is left (`lost`). The file is not validated on the way, as
InitChain does not. `CoinsCounted` is what an export must not break: the coins
in the wallets, with those of the record under `""`, are at most what genesis
gave out and Circulating has grown by.

### DeliveryTasks (workers and `deliveryController.js`)

`status` and `assignee` are the fields of a task that handlers test and write.
A job goes through `waiting`, `locked` (its `findOneAndUpdate` set
`assigning`), `found` or `nobody`, `loaded` (the copy that `assignTaskToAgent`
saves); a request through `loaded` and its save. `jobWrites` and `reqWrites`
hold the fields that a `save()` will write: those whose new value differs from
the *loaded* one. A sweep finds a set of stale tasks, then resets them one by
one by id and enqueues each. `Sweeps` are the callbacks of the interval that are
under way at a time, each with its own `found` and `requeue`: they overlap, and
one may reset a task that another has reset already and a job has locked again.
The recovery script resets tasks that are
`assigning` at that moment in one filtered update. Bull is external: a
processor that throws, or dies at any await, is tried again while attempts are
left. Time is abstracted: a task in
`assigning` may be found stale at any moment, which includes every clock the
sweep could read. The search for an agent returns any agent or none.

### MarketWallets (`walletController.js`, `transactionHelper.js`, checkout, hiring)

A request is its route, caller, peer, amount and the copies it took. The amount
is any integer of the body, and `text` says whether it came as a string;
`Accepted` is what each handler asks of it – a deposit and a withdrawal that it
be positive, a send that it be there, the others nothing. `Plus` is `+=`: with a
string it shifts the number by the digits of the string. `pc`
separates the load, the read in the transaction, each save and each log write;
the step that fails in the code (a log type the schema refuses) ends in
`failed`, with the money moved. `replicaSet` chooses between transactions and
the second run of the callback; in the second case the saves of a send are
separate steps and the amount is applied twice. `astray` is a history of
wallets one of whose saves overwrote another, or whose number had a string
added: the properties that cannot hold of those are stated for the others.
`NoOverdraft` and `EscrowCovered` are stated for all: they name the only calls
that take a balance or escrow below zero.

### PointsEconomy (`tasksController.js`, `routes/tasks.js`, `conversionJob.js`)

A request charges the publisher and opens the campaign, starts a task, or
rewards it; each read and each save is a step, with the transaction of a reward
one step on a replica set and one save after the other without. Budget and
reward are integers of either sign, as only zero is refused: a negative budget
credits the publisher and opens a campaign below zero, a negative reward debits
the worker. `Errands` are requests outside of campaigns: a task that is
completed for its reward, one that is posted at a cost nobody tests
(`SavePost`), a checkout in coins. What the exceptions of the properties are is
kept in histories: `outside` and `spent` (what errands moved), `paid` and `over`
(what a campaign gave, and how many of its rewards overwrote another),
`docked` (users who lost points without a test), `shoppers`, and `raced`.
A wallet is made with no points, with 1000 (`tasksCreator.js:28`) or with a
million (`walletController.js:54`): `GenPoints`. `Runners` are
server processes with the monthly job: each reads whether the month was
converted, walks the wallets it found, and writes the run down at its end.
Coins are counted in the points they were converted from, which leaves the
rate out. The campaign handlers are mounted by the tests
(`tests/tasks.integration.test.js`), not by `app.js`; the job is started by
`app.js`, and `/tasks/complete` is mounted.

### Stock (`checkoutController.js`, `orderController.js`, `productController.js`, `sellerController.js`)

A confirmation loads the order, saves it as paid, and takes the items it loaded
one after the other: the atomic update that tests the quantity (`TakeItem`) and
the log entry after it (`LogSale`, or `MissSaleLog` when that write fails, which
the loop survives); or, if the update matched nothing, a second update that
writes off what is there by then (`WriteOff`). Quantities are integers of either
sign. `UpdateOrder` writes any status and any items, as `/api/order` writes the
body of the request. The seller's routes load a product and
save an absolute quantity; two of them log, one of these without awaiting the
write. A request may stop at any step, which is also how a process that dies
looks: an order is then paid with items not taken. Three histories name the
exceptions of the properties: `raced` (a save over another change), `clamped`
(more taken out than there was) and `unlogged` (a change without its entry);
`lost` counts what shortfalls wrote off.

## 4. Runs

| run | module, cfg | what it shows |
|---|---|---|
| market | MCMlcoin, MlcoinMarket | in every order of purchases, sales and conversions: the cap, prices ordered within the initial spread, Circulating never below the volumes, wallets and KES equal to a replay of the logs modulo wrapping; every step is one of `MarketMaker` |
| rates | MCMlcoin, MlcoinRates | over three blocks and a sliding window, in a word of seven bits that rates, volumes and their casts leave: a rate stays a word and, where the window fits an int64 and the rate the word, moves with the net demand by at most a tenth and the roundings; volumes are those of the log; every message kind takes its numbers from one sequence |
| guard | MCMintGuard, MintGuard | two deliveries and two simulations: the guard is closed whenever all runs are out, is closed again, and refuses an opted-in run only under overlap |
| guard_claim | MCMintGuard, MintGuardClaim | **refuted**: an opted-in mint succeeds – a simulation can clear the flag under a delivery, on one node only |
| mallchain | MCMallchain, Mallchain | points are conserved against the ledger's logs, coins are issued only against KES or points, and the composition implements `Mlcoin!Spec` |
| ante | MCAnte, Ante | at most the limit per block whatever is proposed; no second delivery; mempools always fit; a reaped block shares one limit with the block before it |
| export | MCChainExport, ChainExport | whatever restarts lose, no coin is in two records or uncounted: the coins there are never exceed what genesis gave out and Circulating has grown by; and a second restart loses nothing more |
| balance_claim | MCChainExport, ChainExportBalanceClaim | **refuted**: an export is the state of the application – KES, market, logs, badges and new records are not in it or come back out of reach |
| delivery | MCDeliveryTasks, DeliveryTasks | two jobs, a request, two overlapping sweeps and the recovery script on one task: only one job at a time has a task that was not reset, only a job that died strands one, a delivered task is opened again only by who had it in hand before, and no task stays in `assigning` for ever |
| wallets | MCMarketWallets, MarketWallets | three requests of every kind on two wallets, with negative amounts and strings: with transactions a balance goes below zero only where a negative send or refund was added to it, and escrow only by negative holds; balance and escrow are what log, holds and releases say but for the named exceptions |
| points | MCPointsEconomy, PointsEconomy | three requests for campaigns, an errand and two conversion runs: a campaign pays at most its budget and as much again per reward that overwrote another; points go below zero only for users docked without a test; points are conserved, coins have records, a completed campaign is spent and stays completed |
| stock | MCStock, Stock | three requests on one product and an order whose items may be replaced, also by items below zero: nothing sold that did not come in, items taken once, the log explains the stock with what shortfalls wrote off |

Every property of a passing run is paired in PROJECT.json with a mutated
definition of the code (a dropped guard, a lost write, a swapped field) under
which TLC finds the property violated. Types are an invariant of the rates run,
where staying a word is the question; elsewhere they are lemmas of the proofs.

### Bounds and why they are enough

- `Mlcoin`: two addresses, because a trade touches one and a transfer two.
  `MaxSeq` 8 allows four trades: enough for both prices to hit their floor from
  a sale larger than they are and to rise again. `StepUnit` 1 keeps the
  relation of amount and price step with small amounts. `W` = 4096 is above
  every price and below what one large sale pays, so KES wraps. Amounts 1, 7
  and 60 are a small trade, the daily limit, and a sale above Circulating.
  `MaxVolume` keeps volumes from wrapping, as their real counterparts need
  2^64 coins.
- rates (1,915,628 states): window of one block against three heights, so trades
  enter and leave the window. `W` = 128 lets a purchase of 60 with others pass
  the largest int64 and a rate of 120 outgrow the word; rates 0, 3 and 20 reach
  the floor, rounding both ways and the zero an authority may set.
  `Precision` 64 makes the error of the floats as visible as half a unit.
- guard: three runs suffice for every interleaving of a run with one that
  clears and one that sets; two of each kind are checked.
- mallchain: amounts 0, 3 and W-1 (an award that wraps); two awards per address
  and three log entries make a refused conversion after a partial spend.
- ante: limit 2 instead of 10 with four transactions, three blocks: two full
  blocks in a row and one after.
- export: two restarts, one genesis address and two later ones, so that two
  records compete for the empty index.
- delivery (367,924 states): one task and one agent, two jobs because the
  second is what a reset puts beside the first, two sweeps because the second
  is what the interval puts beside the first, two attempts so that a retry
  meets a task changed since, one request. `MaxEnqueued` 2 lets a sweep put a
  job beside a stale one. More tasks only repeat this: no step reads two.
- wallets (2,134,623 states): three requests, since a lost update takes two and
  the third sees what it left; balances 3 and 0 and the amounts 2 and -1, each
  as a number or a string, let two debits fit each and not together, and reach
  each exception. Requests are interchangeable (symmetry); both values of
  `replicaSet` are initial states.
- points (1,774,883 states): a budget of two rewards, so that the second
  completes the campaign and a third would overspend, and a campaign whose
  budget and reward are -1; errands of 2 and -1; publisher and worker made with
  2 and 0 points; two runners. A campaign below zero never runs out, so its
  states are bounded to two calls at a time (`MCCalls`, a constraint). Requests
  for campaigns, and runners, are interchangeable.
- stock (1,665,999 states): one product and one order, as orders meet in nothing
  but the stock: `UpdateOrder` with other items lets confirmations of different
  items compete. Baskets of one item of two and of items of 1 and -1, so that a
  confirmation is interrupted between items and one puts back; deltas -2 and 1,
  levels -1 and 3, because nothing refuses a negative level. Requests are
  interchangeable.

### Fairness and deadlock

`MintGuard`: weak fairness of `Call`, `Mint` and `Disable` of each run. A
handler that is inside `WithMintingEnabled` waits for no other handler (the
mutex is held for one assignment), and the deferred clear runs on error and
panic too. `Enable` has none: nobody promises that messages arrive.

`DeliveryTasks`: weak fairness of the steps of each job (`JobStep`), since bull
runs waiting jobs and hands stalled ones out again, and of `SweepEnqueue` by
some sweep. For each task strong fairness of being found by some sweep and of
being reset by some sweep. The interval fires again and again, whether or not
earlier callbacks have ended, and also after its process was restarted; `Sweeps`
bounds how many are under way, nothing in the code does. A sweep may die with
tasks in hand, and a job may save a task that one was about to find, so both
steps are enabled and disabled again; strong fairness says that not every sweep
that could find or reset the task dies before it does. No
fairness of requests, of new jobs, of the recovery script or of a fault.
`NoTaskStaysAssigning` needs the sweep: with a sweep that looks for another
status (the run's mutant) it fails.
`JobsEnd` says that every job leaves the queue.

The other specifications are safety only: a process of theirs may stop at any
step. Their runs switch deadlock checking off because the bounds stop them
(each request is used for one call). The guard's and the delivery's runs check
it.

## 5. Findings

`guard_claim` and `balance_claim` are the findings of PROJECT.json, each with
the line of the code and the line that says otherwise. `guard_claim` is the one
that could split nodes: the store outcome of a delivered message depends on
what one node happens to simulate.

Statements of the repository that the code does not keep and that need no run
to see:

- `x/mlcoin/types/genesis.go:45` speaks of a daily emission;
  `x/mlcoin/keeper/mint.go:32` limits each single mint.
- `market.proto:38` and `tx.proto:90` call the price of a trade the price at
  the time of purchase; `msg_server_marketplace.go:81` records the one after it.
- `x/mlcoin/types/genesis.go:7-11` makes allocations part of the total supply;
  `mint.go:27` compares Circulating alone.
- `app/app.go:235` and `:261` call the limit per sender; the key at `:244` is
  global.
- `utils/transactionHelper.js:4-6` says that a standalone server runs the
  callback as a normal batch; it runs it a second time.

## 6. Proofs

Assumptions: `ConstantsAssumption` (constants are of their types; the supply
plus one daily limit, and volumes plus the initial price, fit into `W`;
`Precision` is any positive number and `Unfit` any words), `ExportAssumption`
(a genesis file is finite), the `PointsAssumption` of `Mallchain` and
`AnteAssumption`; for the marketplace `DeliveryAssumption`, `WalletAssumption`,
`StockAssumption` and the `PointsAssumption` of `PointsEconomy`. The last four
type the constants and no more: amounts, quantities, budgets, rewards, deltas
and levels are integers of either sign, since no handler checks theirs. What is
not negative is only what the code sets itself: the points and the money a
wallet starts with. Users and campaigns of `PointsEconomy` are finitely many, as
documents in a collection are, for a sum over all of them to exist. TLC
evaluates the assumptions on every run of the modules. Everything else is
arbitrary: addresses, requests, jobs, sweeps, transactions, their number, and
every interleaving.

### Sums and remainders: `LedgerLemmas`

Half of the properties compare a balance with what a log adds up to. The models
use `SumFunctionOnSet`, which is a fold, and the induction theorems of the
library take an operator as a parameter. `LedgerLemmas` does the induction over
a *set* of good numbers or subsets (`NatSetInduction`, `SubsetInduction`, both
from the well-foundedness of `<`), shows that the table of partial sums that
the fold chooses exists (`SumsExist`), and derives the laws every other module
cites: a sum is an integer (`SumClosed`), any element can be taken out first
(`SumSplit`, so the order of the fold does not matter), a sum changes by what
one value changes by (`SumAdd`, `SumUpdate`), elements of value 0 can be left
out (`SumOfSupport`), and values that grow make it no smaller (`SumMonotone`).
Balances that wrap are compared by `Congruent`, with
`ModCongruent` for the way the properties state it.

### The chain: `ChainProofs`

- `MlcoinTyped`, `LedgerTyped`, `PricesStayOrdered`, `SupplyNeverExceeded`,
  `CirculatingCovers` from the inductive invariant `MarketInv`. Prices alone
  are not inductive: an unbounded price could wrap. The strengthening bounds
  the buy price by 62 plus the volume bought, which is where the assumption on
  volumes is used; the cap is not inductive without the types, since `Add`
  wraps.
- `LogNumbering` from `LogInv`: the numbers of both logs together are exactly
  those below the sequence, each in one log only. A sale draws the trade's
  number first and a purchase the transaction's, so each kind has its own step.
- `WalletsReplayed`, `KesReplayed`, `VolumesAreTrades` from `AccountInv`:
  records are typed, balances are *congruent* to their history, and volumes are
  sums. Equality modulo `W` of the history is not what a step preserves, since
  a deduction subtracts from the wrapped balance; congruence is. Each message
  has a lemma that says what it appends to the logs (`BuySums`, `SellSums`,
  `MintSums`, `TransferSums`), and the proofs rest on `LogInv`: a record is
  written under a number that no record had.
- `MlcoinTyped` with the rates from `ConvertedIsWord`: whatever the floats and
  casts come to, what is stored is a word. `RatesFollow` from `NudgeSpans` and
  `NudgeBounds`: for any precision, a rate that fits is within a tenth and the
  roundings of the old one, and not on the wrong side of it. That needs the
  demand to be the true one: `DemandIsExact`, since volumes are sums of naturals
  (`VolumeTyped`) and the property speaks of windows that fit an `int64`.
- `LedgerImplementsMaker`: `Spec => ImplementsMaker`. From `MarketInv` a
  wrapped sum that passes its check is the true sum, so each trade maps to a
  `Purchase` or a `Sale` with the step it used, a conversion to a `Grant`, and
  everything else leaves the market alone.
- `MallchainKeepsLedger`: every step of the composition is a step of
  `Mlcoin!Next` or leaves the ledger alone (`MallStepIsLedgerStep`). With it
  the ledger's theorems hold of the composition
  (`ChainSupplyNeverExceeded`), and with the typing of points (`PointsTyped`,
  which says that no deduction goes below zero) `NoFreeIssue` follows:
  circulation grows only with a recorded trade or against as many points.
- `PointsBackTheMints` from `PointsBacked`, which is the property as a
  congruence: an award adds to both sides, a conversion takes points and logs a
  mint, a purchase logs a mint and a trade.
- `CoinsStayCounted` from `CountInv`, which counts the record under the empty
  index with the wallets: a sale that does not lower Circulating still lowers a
  wallet, a mint raises Circulating by as much as a wallet or by more (the cap
  keeps the one from wrapping, nothing the other), and a restart keeps a part of
  the records, one of the rest under `""` (`SumMonotone`), and Circulating.
- `RestartTwice` from `ExportInv`: a state with nothing since the last restart
  (`Fresh`) holds only addresses of the genesis file and the initial market.
- `MarketOutlivesRestarts` and `NoFreeIssueAfterRestart`: the cap, the order of
  prices, dense logs and paid issue hold of `ExportSpec`, so across any number
  of restarts. `CirculatingCoversVolumes` is *not* among them: a restart sets
  volumes to 0 and keeps `Circulating`, which sales may have taken below the
  genesis file's. That is why `MarketInv` is split into `MarketCore` and that
  conjunct.

### The ante handler: `AnteProofs`

`AnteInv` gives `BlocksAreLimited`, `MempoolsFit`, `LimitIsShared` and
`NoReplay`. None of the three invariants is inductive. The strengthening is an
equation: what a node's CheckTx state has spent of the limit is what the last
block spent plus the length of its mempool (`Spent`). With it a mempool fits, and what is
reaped from it shares the limit with the block before. `Sound` adds that no
height has more replay keys than its count. `RanSound` carries both over a list
of any length by induction over the table of the run, whose existence is
`RunExists`.

### The minting guard: `MintGuardProofs`

`GuardIsClosedAtRest` and `RefusedOnlyByOverlap`, for any number of runs, from
`GuardInv`: an enabled run whose flag is gone has been disturbed. Without that
conjunct the refusal property is not inductive, as it speaks of the state after
the read only.

### The marketplace

`DeliveryTasksProofs`, for any number of tasks, agents, jobs, requests and
overlapping sweeps
- `DeliveryTyped` from `Typed`, which adds to the types what a busy job or
  request has in hand (a task, an agent). The statuses are those the handlers
  write, `assigning` included, not those of the schema.
- `LockExclusive` from `LockInv`: a task that a job holds and nobody reset is
  neither absent nor `unassigned`, so it cannot be locked again. The lock
  property alone says nothing of the status that the next lock tests.
- `OnlyFaultsStrand` from `HeldInv`: some job at a task in `assigning` will
  write its status (`WillMove`). A job that loaded the task as assigned will
  not, so that a job holds the task is not inductive.
- `DeliveredClosed`, from the types: which steps can write `unassigned`, and who
  has the task in hand before each.

`MarketWalletsProofs`
- `NoWalletOverdrawn` and `EscrowStaysCovered`, with the types (`WalletsTyped`),
  from `WalletInv`: a copy that passed a test covers its amount until it is
  saved (`Tested`), whatever has become of the wallet, and a copy that is
  negative had its cause when it was taken (`Copied`): an answered send or
  refund, or a hold, of a negative amount. Those causes never go away, as an
  answered request stays as it is (`HistoryStays`).
- `EscrowAccounted` and `LogExplainsBalance` from `AccountInv`. The log
  explains a balance only when its requests are settled, which no step
  preserves. `Balanced` says what holds in between: the balance is what the log
  says plus the `Drift` of each request that has begun – what it has moved and
  not logged, or, for a send that runs its callback twice, moved too often – for
  every wallet that is not `astray`, whatever the sign of the amounts. A
  settled request drifts by nothing, or by a debit whose entry was refused.

`PointsEconomyProofs`
- `PointsInv` (`StoresOK`, `RequestsOK`, `RunsOK`) is the types, with what a
  request between two steps has in hand.
- `BalancesStayCovered` from `BalanceInv`: a negative number, in a wallet or in a
  copy a request or a runner took of it, belongs to a user who was docked before
  (`Excused`), so a save of a stale copy adds no other.
- `BudgetHolds` (`SpendingBounded`) and `CompletedIffSpent` from `CampaignInv`.
  That a campaign pays at most its budget is not an invariant: rewards that were
  tested on one copy all pay. What a step preserves is that what was paid is
  covered by what is gone from `remaining` plus a budget for each overwrite
  (`Within`), because no copy ever exceeds the budget (`Payable`): an overwrite
  puts back at most that. `Settled` ties the status to what is left while
  nothing was overwritten. `CampaignsStayClosed` follows step by step.
- `CoinsOnRecord` from `ConversionInv`: coins of a user who bought nothing are
  covered by the records plus what runners between their save and their record
  owe (`Owing`), and so is what a runner copied; cover never shrinks, as a record
  pays what was owed. With the coins spent the two are equal while no save
  overwrote another.
- `PointsNeitherMadeNorLost`: the equation over four sums is inductive with
  `CampaignsOK` – a campaign that does not exist has nothing left – and `Whole`,
  with transactions no request is between two saves.

`StockProofs`
- `StockInv` gives `NothingOversold`, and the types (`StockTyped`) – a product
  that is not listed is empty, and sales, alone and with the stock, are covered
  by supply, which every step that is not in one of the exceptions preserves: an
  item below zero moves from sales to stock, a write-off takes stock alone.
- `OnceInv` gives `ItemsTakenOnce`: a confirmation whose copy was unpaid, of an
  order not reopened, is the first; an order whose items were taken is paid,
  and `num` carries the number of confirmations that a request saw.
- `LogExplained` from `Explained`: at any moment the stock and what was `lost`
  are what the log says plus the `Debt` of the requests between a change and its
  entry. A request between its failed update and the write-off owes nothing yet:
  what it writes off is what is there when it writes. A new level
  and its entry can be written in either order, hence a debt of either sign.

### Model-checked only

Liveness: `GuardCloses`, `NoTaskStaysAssigning` and `JobsEnd`; fairness and
ENABLED are beyond the prover. And the two claims that the runs refute.

## 7. Not modelled

- `x/vault`. It is not in `app_config.go`; `app.go` supplies an empty keeper,
  so no transaction reaches it.
- Other writers of wallets: the seeding of a superadmin as money and coins
  (`walletController.js:51-55`; its points are in `GenPoints`), `/buy`
  (`routes/wallet.js:89-185`, which tests a copy before an external mint and
  saves after it), an administrator's corrections (`routes/admin.js`:
  `revert-transaction` from :261, `refund-order` from :324), seller rent, and
  payment by QR code (`services/walletService.js:70`), whose log entry lacks its owner: with
  transactions it moves nothing, without them money without an entry. They load,
  test and save like the modelled ones, and are not part of what the properties
  say of a wallet. PIN failure counters. Withdrawals by OTP are reachable only
  without the pending record they look up; the payment of a hired applicant only
  once a job is `escrowed`, which the hiring never gets to.
- M-Pesa: the callback's first write is a `Transaction` that its schema
  refuses, so no deposit is ever credited, and `mpesaController.js` cannot be
  loaded. Repeated callbacks, the hazard one would model, never reach a wallet.
- Agents' profiles and the payout in deliveries: behind models that are not
  exported (section 1.2).
- The wallet API (`backend/src`): handlers that forward to the chain or to a
  payment provider; buy, invite, mallpoints, payment and liquidity are in the
  tree, several without a route.
- Parameters and queries: a guarded write and reads.
- The advert, dispute and growth handlers whose models are not exported: they
  fail at their first query. Shops, chat, analytics and the rest of the CRUD handlers,
  frontends, contracts, data directories, generated and vendored code: one
  document write each, no protocol of their own, or not this program's logic.
- A simulation of a transaction in the ante handler: it leaves no state.

The mapped lines are a small share of the repository. Of its 75,000 lines of
JavaScript and TypeScript most are user interface (two copies of one frontend)
and CRUD handlers without a state two actors share; the chain's modules, which
are mapped almost whole, are Go.
