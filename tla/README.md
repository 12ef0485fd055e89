# YuktiOptions: a verification project

TLA+ models of the trading core of the YuktiOptions backend (FastAPI,
SQLAlchemy on PostgreSQL, Redis), TLC configurations that check them on small
instances, and TLAPS proofs for every instance. Paths such as
`services/order_service.py` are relative to `src/app/`.

## 1. The system

Users hold one wallet each, place orders on three symbols and own at most one
position per symbol. A separate process, the market engine, draws a price per
symbol each second. Everything else runs in the coroutines of one server
process, and meets in the database: the server takes no lock in memory, only
row locks (`SELECT ... FOR UPDATE`) under PostgreSQL's READ COMMITTED.

```
 market engine --SET price:<symbol>--> Redis <--GET-- POST /orders (market)
       |                                                   |
       +--PUBLISH market_data--> matching engine ----+     |  wallets
                            \--> WebSocket listener -+-----+  positions
                            \--> stop-loss engine ---------+  orders
                                 POST /positions/update-sl +  wallet_transactions
```

| Component | State it keeps | Operations | What makes it correct |
|---|---|---|---|
| order placement (`order_service.py`, `endpoints/orders.py`, `schemas/order.py`) | none but its transaction | `_place_pending`, `_buy`, `_sell` and their refusals | balance and holding never overdrawn, one ledger entry per execution, a price that was shown |
| order matching (`order_matching_service.py`) | snapshot of candidate orders, phase | `_scan`, `_trigger_order`, `_execute_order`, run by two subscribers per tick | no order executed twice, no stop-limit order before its trigger, crossed orders settle |
| stop-loss engine (`stoploss_service.py`) | candidates of a tick, task handle | `_check_symbol`, `_try_execute` | sells only what is held and only on a stop in force; stops fire |
| stop and target editing (`endpoints/positions.py`) | row read without a lock | `update_stop_loss` | stop below target, only on open positions |
| database (`core/database.py`, `models/`, `alembic/`) | four tables, row locks | lock, commit, rollback | lost updates and deadlocks excluded by the locking protocol |
| market feed (`scripts/market_engine.py`, `core/redis.py`) | price key, channel, subscriber queues | SET, PUBLISH, deliver | the key changes before the tick is heard |
| WebSocket market broadcast (`endpoints/ws.py`) | client list, listener task | connect, disconnect, broadcast | one listener at a time, which serves the list in order and ends with it |
| portfolio stream (`endpoints/ws.py`) | cached positions, prices, the time of the last refresh | subscribe, take a tick, reload, send, close | positions no older than its clock admits, all at the last price that was not lost; ends with its peer |
| engine lifecycle (`main.py`, `matching_engine.py`, `stoploss_service.py`, `core/redis.py`) | two task handles, the shared Redis client | start, stop, crash, close | engines run as long as the server does, and take nothing after it |
| registration (`user_service.py`) | users | check, insert | one user per email and mobile, each with a wallet, and true answers |
| refresh tokens (`endpoints/auth.py`, `user_service.py`) | refresh_tokens | login, refresh, logout | a session lasts until a transaction that uses up its token takes effect |
| wallet service (`wallet_service.py`, `endpoints/wallet.py`) | none but its transaction | `credit`, `debit`, `create_wallet`, listing | no booking lost, entries listed in the order of the balances, true answers |
| order book, portfolio views | none | read, sum | sums agree with the rows |

The hard part is the first five together; the two WebSocket endpoints, the
life of the engines, registration, refresh tokens and the wallet service are
protocols of their own. They meet the rest only through lost ticks (the
broadcast, an engine that has ended), through users with wallets (registration)
and through the lock on the wallet row, which the wallet service takes as the
orders do. Every
order can be handled by two subscribers and a request at once; each transaction
locks two or three rows, one at a time, at awaits where everything else may
run; each also *reads* rows that it does not lock (the scans, the read of
`update-sl`, the price key) and acts on what it saw; any statement may fail;
the listener can be cancelled in the middle of a transaction; ticks are
delivered at most once. `PROJECT.json` lists these hazards line by line with
the properties that cover them.

## 2. Modules

| Module | Models | State | Actions, after the code they stand for |
|---|---|---|---|
| `TradingModels` | `models/`, `schemas/`, pure arithmetic | constants only | `Triggers`, `Executable`, `StopHit`, `AvgPrice`, `AfterFill`, `CannotPay`, `CannotDeliver`, ... |
| `Database` | PostgreSQL as the services use it | `wallet`, `position`, `orders`, `ledger` (committed rows); `txn` (locks held and values read under them, per session) | `TakeOrder`, `TakeWallet`, `TakePosition`, `CommitFill`, `CommitStatus`, `Rollback` |
| `MarketFeed` | market engine, Redis | `price_key`, `outbox` (SET and not yet PUBLISHed), `feed`, `cursor` | `SetPrice`, `Publish`, `TakeTick`, `SkipToEnd` |
| `OrderService` | `POST /orders` | `req` | `PlacePending`, `PlaceMarket`, `LockWallet`, `LockPosition`, `CommitOrder`, `FailRequest` |
| `OrderMatching` | `process_price_update` in each subscriber | `mat` | `ReceiveTick`, `Scan`, `TriggerOrder`, `ExecuteLocksOrder/Wallet/Position`, `ExecuteCommits`, `ExecuteFails`, `ScanFails`, `Resubscribe` |
| `StopLoss` | the stop-loss engine | `stp` | `EngineReceives`, `EngineScans`, `EngineLocksWallet/Position`, `EngineCommits`, `EngineSaleFails`, `EngineCrashes`, `EngineResubscribes` |
| `StopEditor` | `POST /positions/update-sl` | `edit` | `ReadPosition`, `WriteStops`, `EditFails` |
| `Trading` | all of it over one database | all of the above | `Next`, `Fairness`; states the properties |
| `AtomicTrading` | what the system promises | tables and the prices shown | `Place`, `MarketOrder`, `Trigger`, `Fill`, `TurnDown`, `StopSale`, `SetStops` |
| `TradingInv` | | | the inductive invariants `IInv`, `MoneyInv` and `OrderInv` |
| `TradingProofs` | | | types, plans and the lock order; locked reads, ledgers and balances |
| `OrderProofs` | | | triggers, the refinement of `AtomicTrading`, receipts, averages, holdings; sums over finite sets |
| `MarketSockets` | `ConnectionManager`, `market_ws` | `clients`, `task`, `listener` (where each listener task is, whether cancelled, its `_broadcast`), `socket`, `got` | `Connect`, `HandlerEnds`, `Subscribes`, `Resubscribes`, `TakesTick`, `Sends`, `EndsBroadcast`, `EndsMatching`, `CancelDelivered`, `RedisFails`, `Closes`, ... |
| `Registration` | `create_user`, `users` | `request`, `users`, `wallets` | `CheckEmail`, `CheckMobile`, `Insert`, `Commit`, `Refresh`, `Fails` |
| `Sessions` | login, refresh, logout, `refresh_tokens` | `now`, `call`, `rows` | `Login`, `Present`, `Lookup`, `FindRow`, `DeleteRow`, `Create`, `Insert`, `Commit`, `CommitUnheard`, `Fails`, `Tick` |
| `WalletService` | `WalletService`, `endpoints/wallet.py` | `call`, `wallet`, `ledger`, `clock` | `Submit`, `LockWallet`, `Flush`, `Commit`, `Refresh`, `InsertWallet`, `CommitWallet`, `ListEntries`, `Fails` |
| `PortfolioStream` | `portfolio_ws`, `_load_positions`, `_calc_portfolio` | `pc`, `peer`, `prices`, `cache`, `portfolio`, `since`, `age`, `late`; around it `position`, `quoted`, `backlog` | `Open`, `Subscribe`, `Load`, `Note`, `TakesTick`, `Reload`, `Reloaded`, `Resubscribes`, `Send`, `SendFails`, `Close`, `LoadFails`, `RedisFails`; `Trade`, `Publish`, `ClockTick`, `PeerLeaves`, `PeerMissed` |
| `Engines` | `lifespan`, `start`, `stop` and `_run` of both engines, `get_redis`, `close_redis` | `server`, `client`, `task`, `backlog`, `cause` | `Startup`, `Shutdown`, `CloseRedis`, `LoopEnds`; `Begin`, `Subscribe`, `TakeTick`, `Handled`, `DbFails`, `RedisFails`, `CancelDelivered`, `Unsubscribe`, `Close` |
| `SocketProofs`, `RegistrationProofs`, `SessionProofs`, `WalletProofs`, `PortfolioProofs`, `EngineProofs` | | | the safety invariants of these |
| `MCTrading`, `MCSockets`, `MCRegistration`, `MCSessions`, `MCWallets`, `MCPortfolio`, `MCEngines` | | | inputs and symmetry of the runs |

How the code becomes actions:

- **One action per await that matters.** A coroutine can lose control at an
  await; what others can observe is a lock taken, a row read and a commit. Code
  between two of these is one action. A transaction that locks one row only
  (`_trigger_order`, the UPDATE of `update-sl`) is one action, since nothing
  it does before its commit is visible or blocks anyone in between.
- **Reads and writes.** A locking read stores what it saw in `txn`; the commit
  computes every write from those stored values, never from the tables, so a
  read that its lock fails to protect is a lost update in the model as it is
  in PostgreSQL. A row that is absent cannot be locked; the insert at commit
  then collides with the unique key if another transaction got there first
  (`InsertCollides`), and the statement fails.
- **`FAILED`.** A refusal in `_execute_order` is merged with the lock that
  precedes it: the session has the lock for that one step.
- **`update-sl`.** SQLAlchemy's UPDATE names only the columns whose new value
  differs from the loaded one, which is what `Column` says.
- **Failures.** With `DbMayFail` any statement or commit may raise, at any
  step of any transaction. In a request this leaves `get_db` with a rollback;
  in `_execute_order`, `_trigger_order` and `_try_execute` it is caught, rolled
  back, and the loop continues; in `_scan` it ends the call; in the scan of
  `_check_symbol` it ends the engine's task. A commit whose acknowledgement is
  lost takes effect and raises: in the trading core and in `Registration` and
  `WalletService` that is the commit action followed by that handler, in
  `Sessions` an action of its own, `CommitUnheard`. There it uses a token up for
  a client that is answered an error and never hears of the new one.
- **Reads that time out** (`Resubscribes`, `Resubscribe`, `EngineResubscribes`).
  The client of Redis waits 5 s for a read and is told to retry after a timeout
  (`core/redis.py:15`): `listen()` then connects and subscribes again inside the
  same loop, and what was published meanwhile is lost without a sign. In
  `MarketSockets` the listener's position jumps to the end of the channel; in
  `PortfolioStream` the backlog is dropped, and `quoted` is `Lost` for its
  symbols up to their next tick. Any other error of Redis leaves the loop
  (`RedisFails`).
- **Cancellation and lost ticks.** `Resubscribe` is the WebSocket listener
  cancelled at any await when its last client leaves, and started again at the
  end of the feed, or a Redis connection restored. It is allowed for every
  matcher, the matching engine included, which has more behaviours than the
  code: cancelling the engine mid-tick happens only at shutdown.
- **Money** is in hundredths of a rupee: `price * quantity` is then exact, as
  it is in the code before `quantize`, and only the average price rounds, half
  to even as `Decimal.quantize` does.
- The scans return rows in no order, so each loop takes its candidates in any
  order.
- **Cancellation of the listener** (`MarketSockets`). `cancel()` only sets a
  flag; `CancelDelivered` raises at the await the task stands at, and the flag
  does not make the task `done()`. A failing send that empties the list makes
  the listener cancel itself, and it runs on to its next await, in
  `process_price_update`. A send to a peer that has left may raise or vanish.
- **Unique indexes** (`Registration`, `Sessions`). An INSERT waits for an
  uncommitted transaction with its key, inserted or being deleted, and then
  finds what was committed. A DELETE waits for the row version it has found and
  deletes no other: a row with the same token that was inserted meanwhile stays.
- **Equal tokens** (`Sessions`). A JWT is a function of its user, its type and
  an expiry in whole seconds, so the model's token is the pair of user and
  expiry, and `Lifetime` stands for the seven days. `Tick` may happen between
  any two steps.
- Hashing a password is only a delay: its result plays no part.
- **Amounts finer than the columns** (`WalletService`). Balances are hundredths,
  amounts thousandths, and `Quantize` rounds half to even. The sign is tested
  before the rounding, the balance after it. `created_at` is taken when the
  entry is flushed, one step before the commit, from a clock that grows.
- **A cache and its clock** (`PortfolioStream`). `since` is the time since
  `last_refresh`, `age` the time since the database read the positions. A query
  is two steps, the reading (`Load`, `Reload`) and the return of the await with
  what was read (`Note`, `Reloaded`), and time may pass and trades may commit
  before, between and after them. The first load takes `last_refresh` after its
  query (`endpoints/ws.py:191`), which leaves the positions older than their
  clock says, by `late`; a refresh uses the time of the tick that caused it,
  before its query (lines 205 and 208), and is never late. `since` stops at
  `RefreshSecs`, from which the code tells nothing apart, and `age` at `MaxAge`.
  Nobody receives on the socket, so that a peer has left is
  noticed only by a send that fails, after the server has missed its pings.
- **Tasks that are stopped** (`Engines`). `stop()` cancels and does not wait.
  `CancelDelivered` raises at the await the task stands at; in a task that has
  not begun it runs no line; in the `finally` clause it skips the rest. The
  Redis client retries nothing but timeouts, so an error of Redis leaves the
  loop, while a database error leaves it only in the scan of the stop-loss
  engine. The handling of one tick is one action here and the subject of
  `OrderMatching` and `StopLoss`.

## 3. What TLC checks

Safety, in `race`; `HoldingsMatchOrders` and `ImplementsAtomic` also in `stops`:

- `NoOverdraft`, `LedgerChains`, `OneEntryPerExecution`:
  balance, ledger and executed orders agree, whatever interleaves.
- `LockedReadsCurrent`: what a transaction read is in force up to its commit,
  and an absent position row stays absent although no lock protects it: the
  wallet lock, always taken first, does.
- `HoldingsMatchOrders`: a holding is what was bought less what was sold.
- `AverageWithinBuys`: the rounded running average never leaves the range of
  the prices bought at, across closing and reopening a position.
- `WaitsAscend`: the waits-for relation follows order, wallet, position, so it
  has no cycle. TLC's deadlock check is on as well in `race`, `stops` and
  `live`; `Quiesced` is the only state in which the system may stop.
- `StopWaitsForTrigger`: a stop-limit order leaves `pending` only after a tick
  that hit its trigger.
- `ImplementsAtomic`: the system implements `AtomicTrading`, in which each
  order, stop and sale is a single step against the state in force. The
  refinement mapping is the identity on the four tables; `quoted` is the set
  of prices published or about to be.

Liveness, in `live`: `RequestsAnswered`, `CrossedOrdersSettle`, `StopsFire`.

| Run | Instance | Question |
|---|---|---|
| `race` | one user, three requests of all types, two matchers, prices {2, 3}, opening balance 5, two ticks; failures, lost ticks | do money, holdings and orders agree when both subscribers and the owner handle the same orders? |
| `stops` | one user, two requests, a matcher, two stop-loss engines, one update-sl | is a holding sold once, and only on stops in force? |
| `live` | one user, two requests, a matcher, an engine, one update-sl; no failures | do requests, crossed orders and stops get done? |
| `sockets` | three clients, three ticks; errors and reconnections of Redis | does one listener at a time serve the list in order, and end with it? |
| `register` | three requests, an address in two spellings and another, a number or none; failures | is there one account for each, with its wallet, and is everybody told the truth? |
| `sessions` | four requests, one user, two seconds, tokens that expire with their second; failures | does a session survive overlapping and failed requests, and do requests that wait for each other end? |
| `wallets` | three calls, two users, one of them without a wallet; amounts that are negative, round to nothing, round up, and overflow; failures | is every booking in the balance, in the order that is listed, and is everybody told the truth? |
| `portfolio` | two symbols, two prices, one trade, a backlog of two ticks, a refresh after one time unit, ages up to two; errors of Redis and the database, reconnections | is what the stream shows as fresh and complete as it can be, and does it end? |
| `engines` | both engines, two ticks waiting; errors at every await | does an engine end only for cause, stay quiet after its stop, and end then? |
| `stop_order`, `stranded`, `engine_down` | smallest that show it | the disagreements of section 5 |

The runs beside the trading core state:

- `sockets`: `OneListener` (no tick twice, and `cancel()` reaches the listener
  there is), `IdleListenerStops`, `TicksInOrder` (copies of the list, failed
  sends and newcomers do not disturb the others; between two ticks a client
  misses only those published before a subscription that came in between, of
  another listener or of the same one after a timeout), and `IdleListenerEnds`.
- `register`: `OneAccountEach`, `WalletWithUser`, `AnswersHold`, and
  `RegistrationsAnswered`.
- `sessions`: `SessionsLast` and `RefusedForCause` (a token that was handed out
  is removed, and refused before it expires, only by a transaction that
  presented it and took effect, whether or not its client heard so; requests
  that are rolled back or overlap cost nobody a session), `WaitsAscend` (a refresh that
  holds a deleted row waits only for one that deletes a younger token, so the
  waits form no cycle as long as the clock does not run backwards), and
  `RequestsAnswered`.
- `wallets`: `HistoryChains` (the entries, sorted by a time taken before their
  commits, lead from the first balance to the present one), `AnswersTrue` (a
  call books once at most and as it answers), and `TypeOK`, which bounds every
  balance by zero and the width of the column.
- `portfolio`: `PositionsFresh` (a tick without a refresh is shown with positions
  read less than `RefreshSecs` before, or less than `RefreshSecs + late` while
  those of the first load are in use), `ShowsLastPrices` (a stream that has
  caught up shows the last published price of each position, of a symbol bought
  later, too, unless that price was lost in a reconnection), `CatchesUp` and
  `GoneStreamsEnd`. Without `late`, or without the exception for lost prices,
  TLC finds either property violated.
- `engines`: `EndsForCause`, `QuietAfterStop` (no tick is taken and no client
  made once `lifespan` has stopped the engines) and `EnginesEnd`.

Bounds. Two of each contender is the smallest number that races, and three
requests let a holding be bought, sold and rebought under a race. Two ticks let
a stop-limit order be triggered by one and filled by the other, and let a
subscriber lag behind the other. Two prices lie on either side of every limit,
trigger and stop. The opening balance pays for some but not all of the orders,
so that refusals happen. A second engine in `stops` is more than the server
starts in one process; it stands for a second server process. One symbol is
enough: symbols meet only in the wallet, as two orders of one symbol do. One
user is enough for the tables: no transaction reads the rows of two users; that
a loop over the orders of several users lets go of one before it locks the next
is `WaitsAscend`, which is proved for every set of users. `MaxTicks` and, in
`Sessions`, `MaxTime` bound what would grow for ever. Three clients let one
connect and one leave while a listener serves the third; three registrations
let one wait for a second while the third has committed; four calls are two
sessions of one user with two overlapping refreshes. Three bookings let one
wait for a second while the third has committed, and `MaxMoney` is twice what
two credits reach. `MaxBacklog` and `MaxTrades` bound `portfolio`: a stream that
has a second tick waiting may skip or reorder it, a trade before, within and
after a reload are three cases of the same one trade. `RefreshSecs = 1` lets a
tick come before and when a refresh is due, and `MaxAge = 2` lets the first
positions be as old as a refresh period, and older, before they are on the
clock. Three ticks let a client miss one to a reconnection between two that it
is sent. The passing runs have between
40 000 and 730 000 states.

Fairness. A coroutine that can run is run by the event loop, and PostgreSQL
grants a row lock once it is free: weak fairness of each accepted request, each
subscriber's processing and each accepted update-sl. Weak is enough, since a
lock that stays free stays grantable, and the model has finitely many requests.
No fairness is assumed of users, of the market, of reconnections. The same
holds of the listener task and the WebSocket handlers (the server pings its
peers and closes dead connections, so every send ends), and of registrations
and token requests, whose failures are allowed for and never assumed; nothing
is assumed of peers, of the publisher, or of the clock. In `Engines` the tasks
and a shutdown that has begun go on; nobody need ever shut the server down. In
`PortfolioStream` the handler runs, time passes, the server's pings find a dead
peer, and somebody publishes again and again, as the market engine does for as
long as it runs: without ticks a stream neither refreshes nor ends. Its
reconnections could take every tick away before it is read, so taking a tick is
strongly fair: reads time out when nothing has come for 5 s, and ticks that come
again and again are read at times. `live` has
no failures, because the code does not promise these properties with them: a failed
execution is not retried until another tick crosses.

## 4. What is proved

For any sets of users, symbols, requests, subscribers and engines, any prices
and any number of ticks:

- `InductiveInvariant`: `Spec => []IInv`, `MoneyInvariant`: `Spec => []MoneyInv`,
  and `OrderInvariant`: `Spec => []OrderInv`;
- `TypeCorrect`: `Spec => []TypeOK`, in particular no holding below zero;
- `LockOrder`: `Spec => []WaitsAscend`, the lock order of the docstrings, and
  `NoDeadlock`: in any set of sessions one waits for none of the others;
- `ReadsStayCurrent`: `Spec => []LockedReadsCurrent`;
- `LedgersAddUp`: `Spec => []LedgerChains`, no wallet update is lost;
- `NeverOverdrawn`: `Spec => []NoOverdraft`;
- `StopsAwaitTrigger`: `Spec => []StopWaitsForTrigger`;
- `Refinement`: `Spec => ImplementsAtomic`, that is, `Spec` implements
  `AtomicTrading`;
- `ChargedOnce`: `Spec => []OneEntryPerExecution`;
- `HoldingsAddUp`: `Spec => []HoldingsMatchOrders`;
- `AveragesInRange`: `Spec => []AverageWithinBuys`.

`TypeOK` is not inductive: that `position.quantity -= quantity` stays a natural
depends on the check made when the row was locked, one or more steps earlier
and by the same session. `IInv` therefore adds `Plans`: what each session has
locked and seen at each point of its code (`RequestPlan`, `MatcherPlan`,
`EnginePlan`, `EditorPlan`). A step of one session keeps its own plan by the
code (`RequestKeeps`, `MatcherKeeps`, `EngineKeeps`, `EditorKeeps`), and keeps
the plans of the others because it leaves their transactions alone, deletes no
row and changes no order's user, symbol, side or quantity (`StepKept`, with
`RequestPlanKept` and its like). `LockOrder` follows from `IInv` without another
induction: who holds a lock is past wanting it (`HoldersLookAhead`).

`LedgerChains` is not inductive either: the commit writes the balance that was
read when the wallet was locked, so it needs `ReadsCurrent`, that the balance
read is still the wallet's. That in turn needs `LocksExclusive`, and for
positions `WalletGuardsPosition`: every position lock is taken under the wallet
lock of its owner, which is the only thing that stops two first buys from
inserting one row twice. `NoOverdraft` needs `Funds`: the balance seen was
enough for the order at the price it will be filled at. `MoneyInv` is `IInv`
with these. The second part of `TradingProofs` reduces the steps of all three
kinds of transaction to four effects on the database (`MovesOn`, `GainsWallet`,
`GainsPosition`, `CommitsAs`), proves once that an effect keeps the books
(`EffectExclusive`, `EffectLeaves`, `EffectCurrent`, `EffectLedger`), and then
that each step has one (`RequestEffect`, `MatcherEffect`, `EngineEffect`).
update-sl, which locks nothing, is apart (`EditorBooks`): its UPDATE waits for
the row lock.

For orders the question is whether a session that acts on what it saw on a
snapshot is still right to. `OrderInv` is `MoneyInv` with `OrderRules` and
`Terms`. `OrderLocks`: a subscriber that has locked an order holds it alone, so
that the order is still waiting when it commits. `MatcherTerms`: each order that
is yet to be handled is of the tick's symbol, is crossed by it or, in phase 1, a
stop-limit order, and if it is a stop-limit order its trigger was hit by some
tick; this outlives the snapshot because ticks are never taken back and no step
changes what an order asks for (`TicksAreShown`, `TablesSame`). `RequestTerms`
and `KeysShown` say that a market price was shown, `EngineTerms` that the row
locked for a sale has a stop that the tick hits, `EditorTerms` that what is
written was asked for.

Under `OrderInv` each step of a session is one of `AtomicTrading` or leaves its
variables alone: `RequestBooks`, `MatcherBooks`, `EngineBooks`, `EditorAtomic`
and `PublisherAtomic`, one for each kind of session, put together in
`OrderNext`. `Refinement` follows. The last three theorems are then proved of
the atomic steps, not of the steps with locks: `AtomicCases` shows that an
atomic step books one execution of an order not executed before (`BooksOnce`) or
none at all (`Unbooked`).

- `ReceiptsKept`: such a step adds the one receipt of that order.
- `AveragesKept`: a mean of naturals, rounded to a natural, leaves no range of
  naturals that holds them (`RoundStaysWithin`, `AverageStaysWithin`); it needs
  that executed orders have a price (`PricesRecorded`).
- `HoldingsKept`: the sum grows by the quantity of the new order. `MapThenSumSet`
  is a recursive function on the subsets of its set. That it exists
  (`SumsExist`), depends only on the members (`SumsAgree`), and may be taken
  apart at any member (`TotalOf`) would be inductions on the size of the set;
  each is proved by contradiction, from a smallest subset that would be an
  exception (`SmallestSet`). The sets need to be finite, which
  `FinitelyExecuted` adds to the invariant: the orders of all time may be
  infinitely many, those executed so far are not.

Beside the trading core, for any number of clients, ticks, requests, addresses
and numbers:

- `SocketInvariant`: `Spec => []SocketInv` of `MarketSockets`, and from it
  `SocketTypes`, `AtMostOneListener`, `NobodyNoListener`, `DeliveredInOrder`.
  `TicksInOrder` speaks of neighbours in what was sent; that the next tick sent
  fits needs `UpToDate` (what a client was sent last is what the listener took
  last, or the one before while it is still to be sent to, unless nothing was sent
  since the listener last subscribed), and this holds for a new listener only
  because there is one listener. `IdleListenerStops` needs
  `Listed` and `DeadAreGone`: only a peer that has left fails a send, so a
  client that is there is never struck off the list.
- `RegistrationInvariant`: `Spec => []RegistrationInv`, and from it
  `RegistrationTypes`, `AccountsDistinct`, `WalletsComplete`, `AnswersTrue`.
  `OneAccountEach` is not inductive: the row that is about to be committed was
  compared when it was inserted. `IndexesUnique` says that inserted rows, too,
  collide with nothing; a row that must not wait and meets no committed one
  keeps it.
- `SessionInvariant`: `Spec => []SessionInv`, and from it `SessionTypes`,
  `SessionsSurvive`, `RefusalsJustified`, `WaitsDoNotCycle`. `SessionsLast` is
  not inductive: a commit, heard of or not, takes the row it has found out of the table, and only
  `DeletersHold` (an open transaction that has deleted a row is the only one,
  and the row is that of the token it presented) says that the session lost is
  the one used up. `InsertersHold` says the same of the row a commit adds, and
  `Handled` that who presents a token was handed it (`Stored`: a row is of a
  request whose commit took effect), so that a lookup that finds
  nothing is explained by `SessionsLast` itself. `WaitsAscend` follows from the
  invariant without an induction: the row in the way is that of the token which
  the other has presented, it is the token just made, and tokens made are not
  older than tokens presented.
- `WalletInvariant`: `Spec => []WalletInv` of `WalletService`, and from it
  `WalletTypes`, `HistoryTrue`, `BookedAsAnswered`. `OneWriter` gives
  `SeenInForce`, that the balance seen under the lock is still there and every
  entry committed is older than the one about to be; `Progress` ties where a
  call is to what it has committed.
- `EngineInvariant`: `Spec => []EngineInv` of `Engines`, and from it
  `EndedForCause` and the action property `StoppedStayQuiet`. `StoppedLeave` is
  what they need: after the stop each task has its cancellation before it, or its
  loop behind it.
- `StreamInvariant`: `Spec => []StreamInv` of `PortfolioStream`, and from it
  `ShowsFreshPositions` and `ShowsPublishedPrices`. `QuotedLast` says that the
  prices are up to date but for the backlog: of each symbol the last tick in the
  backlog has the price published last, or there is none and the price is known
  or lost (`TickArrives`, `TickTaken`). While no query is under way and a refresh
  is not yet due, `age <= since + late`: the clock of a refresh is noted before
  its query, and `late` is by how much that of the first load is noted after it.
  `ShowsFreshPositions` is an action property, of the tick that is shown without
  a refresh.

`MCTrading` extends `TradingInv`, so the three invariants can be given to TLC, as
`INVARIANT OrderInv` in any of the configurations; it holds in `race` and
`stops`, as `SocketInv`, `SessionInv` and `StreamInv` do in the runs of their modules.

Assumptions, all named in the modules that declare the constants and evaluated
by TLC in every run: prices and quantities are positive integers, the opening
balance is not negative, payloads satisfy the validators, the kinds of session
have different names, and `Null` is none of the values, no tick among them.

Model-checked only: liveness, since fairness and `ENABLED` are out of the
prover's reach (`RequestsAnswered`, `CrossedOrdersSettle`, `StopsFire`,
`IdleListenerEnds`, `RegistrationsAnswered`, `CatchesUp`, `GoneStreamsEnd`,
`EnginesEnd`), and that `Quiesced` states are the only ones without a successor.
`NoDeadlock` is the part of the latter that the prover can state. Every safety
property that a passing run checks is proved, of the specification as written.

## 5. Where the code and its words part

- `stop_order`: two overlapping update-sl requests, each valid, leave a stop
  above the target (`endpoints/positions.py:55`), against
  `schemas/position.py:38`.
- `stranded`: the broadcast is for "all clients" (`endpoints/ws.py:23`); one
  that connects after `cancel()` and before the task has ended is on the list
  and hears nothing until it leaves or another client connects.
- `engine_down`: `matching_engine.py:4` calls the engine a persistent background
  task; an error of Redis in its loop ends it for good, while the server goes on
  (`matching_engine.py:54`), and nobody starts it again. The stop-loss engine
  ends likewise, and at a failing scan as well (`stoploss_service.py:72`). TLC's
  trace may show either of the two; up to the error their code is the same.

In the model without a run of their own:

- update-sl arms stops on a position that was closed after it was read
  (`endpoints/positions.py:55`), against its own 404 (line 52); they act on the
  next buy.
- The loser of two like registrations gets an internal error instead of "Email
  is already registered." (`user_service.py:62`): the flush at line 46 raises
  outside the `try`.
- Two refreshes with one token are both answered, with different tokens; the
  second has deleted nothing. A refresh in the second in which its token was
  made answers that very token. Both are against "Delete old token, issue and
  persist a new one." (`user_service.py:99`).
- "Delete old token, issue and persist a new one." (`user_service.py:99`) when
  the acknowledgement of the commit is lost: the client is answered an error,
  its token is gone, and the new one is in the table and was handed to nobody.
- `order_matching_service.py:22` says that a second caller that finds the order
  TRIGGERED returns; line 161 lets a phase 1 caller execute it (once, as
  `ImplementsAtomic` shows).
- "Amount must be positive." (`wallet_service.py:48`): an amount of 0.005 is
  positive when it is tested and 0.00 when it is booked (line 50).

Behaviours that no text rules out are in the model too and listed as hazards: a
sale of the whole holding leaves its stops on the row, a lagging subscriber
fills a triggered order at a tick older than its trigger, and a second login
within one second fails.

## 6. What is not modelled

- The branches for a user without a wallet: `create_user` commits user and
  wallet together and nothing deletes a wallet.
- The order in which an INSERT of `create_user` enters its row in the two unique
  indexes: `Insert` takes both at once. Every INSERT takes them in one order, so
  that a wait between them closes no cycle.
- A rollback that itself raises, the connection pool, the widths of `Integer`
  and `Numeric(18, 2)` columns outside the wallet service.
- Malformed ticks outside `Engines`, and malformed price keys, which the code
  skips or refuses and the market engine does not write.
- `scripts/price_publisher.py`, a development stand-in for the market engine.
- The end of the WebSocket handlers at shutdown, a second cancellation that
  arrives within the listener's `finally` and skips `aclose`, and a slow peer
  that holds up a broadcast: `MarketSockets` has no time.
- Access tokens, the form of a JWT and of a password.
- `GET /orderbook` and `GET /portfolio`: each answers from one read of the rows
  and of the price keys, and keeps nothing. The valuation they share with the
  stream is `CalcPortfolio`.
- `alembic/`: the tables are modelled as the migration leaves them, the steps of
  a migration are not; they run once, before the server, and alone.
- The stubs `emotion` and `market`, settings and routing, which have no state.

## 7. Plan

Done, in this order: `TradingModels`, `Database`, `MarketFeed`, `OrderService`,
`OrderMatching`, `StopLoss`, `StopEditor`, `Trading`, `AtomicTrading`, the runs
above, `TradingInv`, `TradingProofs`, `MarketSockets` with `SocketProofs`,
`Registration` with `RegistrationProofs`, `Sessions` with `SessionProofs`,
`WalletService` with `WalletProofs`, `PortfolioStream`, `Engines` with
`EngineProofs`, `OrderProofs`, `PortfolioProofs`.

Next, most important first:

1. Bounded steps towards liveness that need no fairness: that a tick takes each
   subscriber through at most so many steps, as a measure that every step of
   the subscriber lowers.
2. Theorems of `AtomicTrading` alone, for a reader who uses it as the promise.
3. The read-only views: aggregation and rounding as operators checked against
   reference definitions.
4. Column limits as bounds of the trading tables, and validation of stops before
   the columns round them.
