# Verification of the PJSe stock exchange server

PJSe is a Go server for a stock-trading simulation: a web API takes orders, one
goroutine matches them, WebSocket hubs publish the result, and a worker pool
opens and closes the market.  This directory holds TLA+ modules translated from
the source, TLC configurations that check them, and TLAPS proofs about them.

    tlc -config MatchingEngine_book.cfg MCMatchingEngine    (one run)
    tlapm OrderGateway_proofs.tla                           (one proof module)

`PROJECT.json` lists the components, the runs, for every property a plausible
bug of the code that breaks it (the definitions named after it stand before the
correct one and are marked "Mutant"), the source lines of
every definition, the disagreements found and the hazards.

## 1. Inventory

| Component | Source | State | Operations |
|-----------|--------|-------|------------|
| Order engine | `exchanges/channels/processOrders.go`, `utils/queue.go` | per symbol: levels and totals, price trees, overlap tree, order index, execution queues; the trade ledger | open, modify, cancel, match |
| Order routes | `routes/api/v1/market/orders.go`, `middlewares/session`, `middlewares/symbol` | the request channel (500), a result channel (1) per request | POST/PATCH/DELETE on the buy and sell routes, two timeouts of 5 s |
| WebSocket hub | `app/WSHub.go` | clients by user and connection, the day's messages, a buffer per client | register, unregister, broadcast, send to a user, replay since, disconnect all, clear |
| WebSocket handlers | `routes/ws/*.go` | global maps per symbol, a hub per stream (depth, ledger, notify, session) | serve a connection, ping, clear the day's data |
| Worker pool, session clock | `exchanges/channels/workerPool.go`, `exchanges/exchanges.go` | job channel (5), three workers, `MarketStatus`, the cached timetable | tick, session job, two clearing jobs, the timer of the disconnection |
| Accounts | `userDB.go`, `acceptCodeDB.go`, `auth.go`, `admin/users.go`, `admin/activation.go`, `sys/sys.go`, `main.go` | tables users and accept_codes, `sys.json` | first start, register with a code, activate, enable, disable, make codes |
| API keys | `apiKeyDB.go`, `middlewares/auth`, `auth.go` | table api_keys | log in, create, authenticate, expire, clean up |
| Symbols | `symbolDB.go`, `admin/symbols.go`, `market/symbols.go`, `middlewares/symbol`, `ws/ledger.go` | table symbols, the map of ledgers | list, change the status, view, look up and record trades, empty the ledgers |
| Chunked store | `utils/chunkedSlide.go` | chunks of a fixed size | append, latest, range, most recent |
| Start, routing, connections, helpers, read-only routes, generated documentation | `main.go`, `router.go`, `databases/*.go`, `utils/*.go`, `health.go`, `status.go`, `docs/` | none that changes after the start | - |

### How they interact

- A request passes the API key check, `IsOnline` (reads `MarketStatus`) and
  `IsTradable` (reads the symbol's row), then its handler *sends* it into
  `OrderRequestChan` and waits on the request's own `ResultChan`.
- The engine's goroutine is the only writer of the books while it processes a
  request.  It answers first, changes the book, and calls
  `DepthHub.BroadcastMessage`, `NotifyHub.SendMessageToUser` and
  `LedgerHub.BroadcastMessage` *synchronously*: it waits for every connection.
- The worker pool writes `MarketStatus`, broadcasts on `SessionHub`, replaces
  the global maps of the books 30 minutes before the opening and starts the
  timer that calls `DisconnectAll` on the three other hubs after the close.
- HTTP handlers, WebSocket handlers, ping goroutines, engine, workers and timer
  share the hubs, the maps and `MarketStatus` without a common lock.

### What is hard, and what must be true

| Component | Hard behaviour | What makes it correct |
|-----------|----------------|-----------------------|
| Order engine | four copies of an order and two kinds of caches changed by hand; levels walked in a clone; exact fills; early returns in the middle | copies and caches agree; price and time priority; the limit; fill or kill; nothing owed is lost; the engine always returns |
| Order routes | two timeouts against a slow engine; an answer that precedes the change | decided at most once and answered truthfully; the engine never blocks on a handler that left; one sees one's own earlier orders |
| WebSocket hub | no common lock; buffer, copy and direct writes during a replay; eviction against registration; writes and closes that fail, writes that block | no gap and no foreign message; one writer; what is lost is forgotten, what runs is reachable; a broadcast returns |
| Worker pool | jobs skipped, delayed, run twice, ended early, between two loads of the timetable; exact minutes | status follows the timetable, each change is announced once, books are cleared before the opening and only then |
| Accounts | five statements without a transaction, concurrent use of one code, a first start that is cut short | a code gives at most one account; whoever is told of an account has it; nobody precedes the first administrator |
| API keys | a key and its user are read by two statements, the handler runs later; keys are found by a prefix | nobody is admitted without a right held during the call, or refused with every right |
| Symbols, chunked store | listings that race, a map without a lock that the clock replaces under the engine, chunks that fill up | a symbol listed is the one asked for; the map of stores is a list of prices per symbol; an order starts from the last price told |

`PROJECT.json` "hazards" lists each of them at its line.

## 2. Modules

| Module | Models | Uses |
|--------|--------|------|
| `MatchingEngine` | order engine of one symbol | - |
| `OrderService` | abstract: what the order routes promise | - |
| `OrderGateway` | handlers, middlewares, channels, the engine's goroutine | `OrderService` by refinement |
| `WSHub` | hub, connection handlers, broadcasters, timer | - |
| `MarketSession` | scheduler, workers, status, clearing, session socket | - |
| `Invitations` | abstract: what registration with a code promises | - |
| `Accounts` | registration statement by statement, first start, administration | `Invitations` by refinement |
| `ApiKeys` | log in, keys, the two key middlewares, expiry | - |
| `ChunkedStore` | the methods of the chunked list, as operators | - |
| `DayLedger` | abstract: a list of prices per symbol | - |
| `Symbols` | symbols table and routes, the map of ledgers with engine, clock and reader | `ChunkedStore`; `DayLedger` by refinement |
| `MC...` | instances for TLC | |
| `MatchingBook_proofs` | theorems about the book and the matching | `MatchingEngine_proofs` |
| `..._proofs` | theorems: `MatchingEngine`, `WSHub`, `OrderGateway`, `MarketSession`, `Accounts`, `ApiKeys`, `Symbols` | |

The decomposition follows the calls: `OrderGateway` has a request decided either
way, which `MatchingEngine` refines by `Accept` and `Reject`; `MatchingEngine` tells
subscribers in one step, which `WSHub` splits into the writes; `MarketSession`
broadcasts in one step for the same reason.  `Accounts` and `ApiKeys` share the
table users: the first lets a call past the middleware when its caller is an
enabled administrator, the second says what the middleware admits.
`MatchingEngine` takes the last price as one variable, `Symbols` looks at the map and
the stores it comes from.

### MatchingEngine

`book` holds `TempDepth` (`orders`, `total`, `tree`), `TempDepthExecutionSeq` (`seq`),
`TempDepthOrderIDIndex` (`index`) and `TempBidAskOverlapCheck` (`overlap`);
`lastPrice` is the last entry of `TempLedger`; `pc`, `req`, `rem`, `walk` are the
engine's control point and local variables.  `ProcessOpen`, `ProcessCancel` and
`ProcessModify` are operators from book to book, as the functions of those names
mutate it.  `Open`, `Modify` and `Cancel` are the requests of the six routes;
`Accept` does all of `processOrderRequest` up to its call of `processOrder`,
`Reject` answers 400 and changes nothing (a stutter).  Then one action per
execution or decision of `processOrder` (`CurrentPrice`, `KillMarketOrder`,
`StartMarketOrder`, `StartLimitOrder`, ...): between two of them subscribers have
been told something.  The two copies of the market loop and of the limit loop
become `MarketStep` and `LimitStep`.

`due`, `feed`, `told` and `deal` are history: what an owner ordered and has not
been traded, what a depth subscriber last saw of each level, what an owner was
last told, the trade of the last step.

`Deviations` names what the environment does beyond well-formed requests:
`other_side` (a PATCH or DELETE sent to the route of the other side, which the code
does not check), `typed_cancel` (a cancel with a type in its body), `ipo_error`
(`GetIPOPrice` fails).  The code breaks several properties under them (section
3), so `book` runs without.  The theorems of `MatchingEngine_proofs` hold with any of
them, each theorem of `MatchingBook_proofs` names those it needs absent.

`pc = "panicked"` is the death of the process (the goroutine has no recover) and
a real end: these runs do not check for deadlock.

### OrderGateway and OrderService

A request's `pc` follows `IsOnline`, `IsTradable`, `BodyParser`, the select with
the send and the select with the result; `queue` is the channel, `result` what
each result channel holds, `engine` and `current` the goroutine's loop.  `Decide` puts
the answer into the result channel, `Execute` changes the book afterwards.  The
market status and the symbol's status change at any time.  A send may time out
only while the channel is full: Go's select prefers whatever is ready, and 5 s
pass only without it.  A wait may time out whenever there is no result.

`OrderService` has three variables: the engine's `outcome` of a request, the set
`executed` and the `reply`.  The mapping: an outcome is what is in the result channel or
was read from it (`Outcome`), and a handler that gave up before the channel had
room has in truth refused (`TrueReply`), although the client reads the same words.

### WSHub

`clients` and `members` are the `sync.Map` of `sync.Map`s; inner maps have an
identity, because a handler may hold one that the hub has already dropped.  Every
operation of a `sync.Map` is one step, and so is every write (a flushed buffer is one);
`Range` visits what was there when it began and still is, and may visit what came
later.  External and taken from how the code uses them: `WriteMessage` succeeds
or fails on a connection whose peer is gone, and blocks while the peer is there and
does not read (`wire` is "stalled" then, `PeerStalls`), since no write has a deadline;
`Close` works once, one writer per connection.  `PingFails` is the ping goroutine that
cannot write within `writeWait`: in `handleDepth` it closes the connection, in
`handleLedger` and `handleNotify` it returns and nothing else happens (`PingCloses`).
Handlers are one action per call (`Connect`, `LoadOrStore`, `EvictOld`, `ForgetOld`,
`Store`, `StartReplay`, `ReplayOne`, `StartFlush`, `Flush`, `Leave`, `LeaveLast`).  Between
`StartFlush` and the end of `Flush` the handler holds the client's `syncLock` and writes
without reading; a broadcaster that meets it waits (`AwaitLock`, `TakeLock`).
`Broadcast` and `Sending` are the broadcaster's steps, `Disconnecting` those of the
timer.  Every hub is made with `NewWSHub(false)`.  `Broadcasters` has one member,
as on the depth, ledger and notify hubs, where only the engine's goroutine sends.
(`admin/symbols.go:199` would be a second one; it is never reached, since line 172
looks for the price among the *response* headers.)

### MarketSession

`minute` is the minute of the day; a tick happens when all that can be done in the
minute is done.  `toSend` is what `createAndSendJob` has still to send, `jobs` the
channel, `pc` and `previous` the workers.  `processGetSession` is split wherever
another worker's step could matter: reading the old status, updating, returning
early, comparing, announcing, scheduling.  The job loads `PJSe.json` twice, for the
update and for the reminders, and each load looks at the file anew: while it is `edited`
either may fail alone (`Load`), so that `Remind` may end the job with the status
changed.  `pending` is history: whether the status was changed and not announced since,
and whether that was in such a minute.  `book` says of the books only whether their
orders are of today.

### Accounts and Invitations

`users` and `codes` are the tables, `serial` the sequence that gives ids (a failed insert
uses one up), `sysFile` what `sys.json` says of the first code.  A registration's `pc`
is the SQL statement of `CreateUser` that comes next: `CheckExists`, `ReadCode`,
`UseCode`, `InsertUser`, `ReadOwner`, `Own`.  Each statement may fail, and a write that
is reported as failed may have happened.  `UseCode` has no condition on the row; what
lets a code give one account is the condition of the last one (`Unowned`): a
registration that lost the race is told that it failed, though its row remains.  `Start` is what `main` does before it
serves: `GetSys`, `GenerateInitial`, `EditSys`, `PrintInitial`; `Crash` stops the process
anywhere and forgets the handlers.  `Administration` is what a call already admitted
does: make a code, enable, disable, activate the first administrator.

`Invitations` has the account each code gave and the account each client was told of.

### ApiKeys

A connection's call goes `Login`, `CreateAPIKey` or `Arrive`, `Cleanup`, `Authenticate`,
`CheckUser`, then `Handle`, each one statement.  Tokens are model values; `Prefix` is
what the lookup compares before the hash decides (`Rows`, `Found`).  `table` holds
owner, scopes, expiry and status of each key; `Cleanup`, in every call, and the worker
pool's `ProcessClearExpiredAPIKeys` mark expired keys.  `seen` and `arrived` are history:
the values the caller's flag has had during the call, and when it came in.  Of the
scopes only those are told apart that every user has and those of administrators;
`Required = {"admin"}` stands for every scope that `FullAdminScopes` alone has.

### Symbols, ChunkedStore and DayLedger

`ChunkedStore` gives each method of `utils/chunkedSlide.go` as an operator on the store's
value: they hold the store's lock from beginning to end.  `Symbols` has the row of
each symbol with the call that listed it, `symbolListing` as `CheckExists` and `Insert`,
the four status routes (`UpdateSymbolStatus`), which look at no earlier status, and
the engine as it accesses the map `TempLedger`: `Lookup`, `HasTrades`, `MostRecent`,
`GetIPOPrice` on the way in, `BroadcastTrade`, `Record`, `Create`, `AppendTrade` for each
trade.  `ClearTempLedgerData` replaces the map between any two of them, and a nil
store or a map read while it is written ends the process (`panicked`).  `Restart` is the
process stopped and started again: the table stays, the map is empty.

## 3. Runs

| Run | Bounds | Shows |
|-----|--------|-------|
| `book` | 3 orders, prices 1-2, quantities 1-2 | trees match levels; the four copies of an order agree (`CopiesAgree`); best price within the limit and first in the queue first; queues keep their order; fill-or-kill; nothing owed is lost; closed orders are gone; the depth feed is the book; no market order rests |
| `live` | 3 orders, one price, quantities 1-2, issue price may fail | every matching loop ends, over levels with two makers too |
| `remainder`, `endless` | 3 orders | disagreements, below |
| `gateway` | 3 requests, channel of 1 | the routes implement `OrderService`; every handler answers; what was sent is settled; earlier orders are seen |
| `hub_stream` | the depth hub: 2 users, 1 connection, 3 messages, 1 clearing, all values of since | complete stream without another user's messages, new is newer, one writer, every broadcast returns |
| `hub_registry` | the depth hub: 2 connections of a user, 1 message, 1 DisconnectAll | what is reachable runs, what is lost is forgotten |
| `hub_subscriber` | 2 connections of a user | disagreement, below |
| `session` | 3 workers, channel of 5, day of 8 minutes, 1 subscriber, each load of an edited timetable may fail | status and its announcement, clearing, disconnection |
| `accounts` | 2 registrations, 2 names, 2 emails, 3 codes, 2 faults, 1 crash | success means an account and its code; the first administrator precedes everything; one first code is shown; `Invitations` is implemented |
| `api_keys` | 2 users, 2 connections, 2 keys with one prefix, lifetime 1, clock to 2, 1 fault | admitted by right, refused by right |
| `symbols` | 2 symbols, 2 listings, chunks of 2, 3 trades, 1 fault, 1 stop | listed as asked; the store's readers agree; the first price of an order; `DayLedger` is implemented |

### Why the bounds are enough

- *Orders, prices, quantities.*  Three orders give a taker with two makers at one level
  or at two, and a rest behind a maker; two prices give a better level, the limit
  level and the market level 0; quantity 2 against 1 gives fills that are partial on
  either side, and exact.  `MaxQueue` (requests are accepted while every queue is
  shorter) is 4 in `book` and `live`, one more than there are orders, so that no level
  with two or three makers is cut off.  `MaxOverfill` (and no order was executed that
  far beyond what it ordered) is 1, `MaxLeft` (and no more market orders are left at
  price 0) is 1 in `live`.  They are for the deviations: TLC finds none of the three
  reached in `book`, nor in `live` when `Deviations` is empty, so that they cut no run of
  well-formed requests to a server that can read its issue prices.  In `live` itself,
  where it may not (`ipo_error`), requests end when a second market order is left at
  price 0, or one left there has been executed beyond what was ordered; without
  `MaxLeft` the run takes twice as long and finds the same.  `FokCap` is the constant 1e10 of
  the code, made 1 so that a price lies above it.
- *Gateway.*  With room for one and three requests one is with the engine, one in
  the channel, and one finds it full.  500 differs by nothing else, and the proofs
  hold for any capacity.
- *Hub.*  Three messages: one in the copy, one in the buffer, one written directly;
  with them a broadcaster meets a peer that does not read in its own write, and one
  in whose flush it does not get the lock.
  `MaxMessages`, `MaxClears`, `MaxClosings` count events; two connections suffice
  for every race of eviction, registration and removal, since each is between two.
- *Session.*  Of the day only minutes at which something happens are kept: the
  distances between reminders, sessions and disconnection are compressed, their
  order is that of `PJSe.json`.  `MaxStuck` (2 of 3) bounds how many workers the
  database still holds when the minute ends.
- *Accounts.*  Every race of a code, a name or an email is between two registrations;
  a third code is one that an administrator makes after the first start made one and
  repeated it; two faults let one registration fail and its repetition as well.
- *API keys.*  Two keys that begin alike, one call that changes the flag another call
  depends on; the clock passes from before a key's expiry, over it, to after it.
- *Symbols.*  Three trades fill a chunk and open another; two symbols to be mixed up.

### Disagreements between code and comments or documentation

Confirmed by the listed runs: a limit order filled exactly on better levels rests
with its whole quantity (`remainder`); an order without an index entry stops the
engine (`endless`); a subscriber in a map nobody can reach (`hub_subscriber`).

Confirmed by configurations that are kept beside them and are not in the list (TLC
finds each property violated):

| Configuration | Property | The code |
|---------------|----------|----------|
| `MatchingEngine_surprises` | NoEmptyOrderRests, FilledStaysFilled, SlippageBoundsExecution (`tlc -continue`) | reduces an exactly filled maker at the limit price to quantity 0; tells the owner of a filled market order that it is cancelled; compares the slippage with the last trade, not with the level it executes at |
| `MatchingEngine_other_side` | ClosedIsGone | a cancel through the other side's route leaves the order in the book |
| `MatchingEngine_market_rests` | MarketOrdersNeverRest | leaves a market order at price 0 when the issue price cannot be read |
| `MatchingEngine_cancel_trades` | CancelNeverTrades | matches after every status, so that a cancel with a type in its body trades |
| `OrderGateway_busy` | BusyMeansNotTaken | answers "busy, try again" for an order that the engine then takes |
| `OrderGateway_closed` | ClosedMarketAcceptsNothing | executes after the close what was queued before it |
| `WSHub_one_connection` | OneConnection | two connections of a user that register together both stay |
| `WSHub_buffer` | BufferIsSent | never sends the buffer when since is not a number |
| `WSHub_skipped` | CompleteStream | a failed Close ends the Range over the user's other connections |
| `WSHub_stalled` | BroadcastReturns | on the ledger and the notify hub, waits for ever for one peer that answers pings and does not read: in the broadcaster's write, or for the lock that the peer's flush holds; with it the engine waits |
| `WSHub_closing` | AllDisconnected | forgets a client that registers during DisconnectAll, without closing it |
| `MarketSession_subscriber` | SubscribersKnowStatus, ChangesAreAnnounced (`tlc -continue`) | greets a subscriber before it is registered, with a status that may be outdated then; ends a session job whose second load of `PJSe.json` fails with the status changed, and neither announces the change later nor, after the close, ends the connections |
| `MarketSession_hung` | BooksAreOfToday, AnnouncedOnce (`tlc -continue`) | with all workers held by the database, opens the market on old orders, and lets session jobs of two minutes announce a change twice |
| `MarketSession_midnight` | BooksAreOfToday | with an opening before 00:30 the minute of the clearing never comes |
| `Accounts_failed` | FailureCreatesNothing | answers "Failed to create user" after the row was inserted |
| `Accounts_same_name` | UniqueNames | looks for a name before the insert, and the table does not forbid a second one |
| `Accounts_locked_out` | SomebodyCanAdminister | notes the first code in `sys.json` before it is printed: a stop between the two leaves no way to administer |
| `ApiKeys_deactivated` | NoHandlerWhileDisabled | runs a handler for a user disabled since the middleware looked |
| `Symbols_status` | StatusAnswerTrue, LastCloseBeforeIssuePrice (`tlc -continue`) | answers a change of the status with success when no row was changed; starts from the issue price after every morning's clearing, where the comments (`processOrders.go:482-490`, `market/symbols.go:98-106`) put the previous day's close before it and expect the issue price to be hardly ever used |
| `Symbols_panics` | NeverPanics | uses a store that the clock removed, or reads the map while it is written |

### Fairness

- `MatchingEngine`: weak fairness of `ProcessOrder`, the goroutine with a request in
  hand.  None for requests: nothing forces a client to send one.
- `OrderGateway`: weak fairness of each handler from its first check on; the Go scheduler
  runs it and its timers fire.  The engine has none, so that
  `EveryRequestAnswered` holds with an engine that never comes back;
  `SentIsSettled` takes the engine's progress as an explicit hypothesis, because
  `endless` shows that it can fail.
- `WSHub`: weak fairness of every goroutine that has begun, which says nothing of one that
  waits for a lock or in a write that the peer does not read: no step of it is enabled
  then.  Beside it weak fairness of `PingFails`: pings are sent every 20 s and give up after
  `writeWait`.  On the depth hub that is what ends a blocked write.  On the others nothing
  does: the read deadline is moved by every pong, and does not run at all while the
  handler replays or flushes.  Fairness of the peers is not assumed: they need neither
  read nor leave.
- `MarketSession` has no liveness property: `MinuteOver` states what is done when a
  minute ends.  It assumes that what a worker computes and broadcasts is done within
  its minute, and that the timetable, should it be unreadable, is readable again in
  the last minute of the day.
- `Accounts`, `ApiKeys`, `Symbols` state safety only, without fairness.

## 4. Proofs

Assumed are the named ASSUMEs on constants (`...Assumption`), which TLC evaluates in
the runs, and the hypotheses that a theorem states itself: those of
`MatchingBook_proofs`, of three theorems of `WSHub_proofs` and of
`MarketSession_proofs`, below.  Every invariant that a listed run checks is also proved.

`MatchingEngine_proofs`, for any orders, prices, bounds and deviations

- `TypeCorrect`: Spec => []TypeOK.  `TypeOK` is inductive; the lemmas give the type of
  what `ProcessOpen`, `ProcessCancel` and `ProcessModify` return, and a step per action
  uses them.
- `TreesAlwaysMatch`: Spec => []TreesMatchLevels, the one agreement of copies that
  survives every deviation.  `BookStep` shows that a step leaves the book alone or
  applies one of four operations; for each, `TreesAgree` is preserved.  The hypothesis
  needed beside it is the type of the book.

`MatchingBook_proofs`, for any finite set of orders (`FinitelyManyOrders`), any owners,
prices and quantities

- All of it assumes `SidesRespected`, that a modify or cancel is sent to the route of its
  order's side.  `MarketOrdersNeverWait` also assumes `PriceKnown` (`GetIPOPrice`
  answers), `FeedAlwaysFaithful` also `CancelsUntyped` (a cancel says no type).  Each
  is needed: with `Deviations` set to it alone, TLC finds `ClosedIsGone`
  (`MatchingEngine_other_side`), `MarketOrdersNeverRest` (`MatchingEngine_market_rests`)
  and `DepthFeedFaithful` (the bounds of `book`) violated.
- Totals are sums over the orders of a level.  The library's sum is a recursive
  function; that it has one value for every finite set, and what adding, removing or
  changing one order does to it, is proved by taking a set of least cardinality for
  which it fails.
- `CopiesAlwaysAgree`: `BookInv` is inductive.  Beside `CopiesAgree` it needs that a closed
  order has no index entry, so that a cancel or modify of it is refused, and that the
  order of the request in hand rests where the request says.  Every other proof of
  the module stands on it.
- `ClosedAlwaysGone`; `NothingEverLost` (`DueCovered`: what is due of an order is covered
  by its entry, or, while it is matched, by what remains of the request);
  `MarketOrdersNeverWait` (`MarketInHand`); `FeedAlwaysFaithful` (`FeedCurrent`: only the
  level of the request in hand is ahead of its last update).
- `BestPriceAlwaysFirst`: the engine walks a copy of the price tree.  `WalkCovers` says that
  the copy has every level that may still be traded at, so its best is the book's.
- `QueueOrderAlwaysKept`: each operation on a queue takes out or appends one order.
- `FillOrKillKept`: the sum that was compared before the first execution stays covered by
  the levels still to be walked (`FokCovered`).

`OrderGateway_proofs`, for any number of requests and any capacity

- The inductive invariant `IInv` is an account of where a request is: `QueuedOnce` (in
  the channel at most once, and not there while being decided), `PendingIsOpen` (what
  waits for a decision was sent and has no definite answer), `HandlersAgree` (answer and
  result fit the handler's position), `AcceptedIsDone` (accepted is what is in the
  book or being executed), `EarlierAccepted`.  `TypeOK` alone is not enough: that a request
  is decided once follows from its being in one place only.
- `TypeCorrect`, `EarlierOrdersSeen` (Spec => []SeesEarlierOrders).
- `RoutesImplementService` (Spec => ImplementsService): initial states map to initial
  states and each step to a step of `OrderService` or to a stutter (`StepRefines`).

`WSHub_proofs`, for any users and connections

- `AlwaysRunningIfReachable`, with any number of broadcasters and DisconnectAlls.  Beside
  what it says, `IInv` needs that an inner map in use or loaded was created by a
  connection of the same user that has passed its `LoadOrStore` (`Decided`), so that a
  map once dropped is never stored again, and that a handler that is leaving is in no
  map its user has now.
- `TypeCorrect`, with `HubInv`: `Addressed` says what a broadcaster holds at each position.
- `StreamAlwaysComplete`, with any number of broadcasters, failures, clearings and
  DisconnectAlls, under the condition that no inner map ever has two connections at
  once; `CompleteIfConnectedOnce` drops the condition where a user connects once, and
  `WSHub_skipped` shows what is lost without it.  The invariant `NoneMissed`: what is in the
  log and newer than the registration has reached a registered client, is in its
  copy or its buffer, or a broadcaster holds it and has the client before it
  (`Coming`).  `Buffered` says when a client syncs and that it has only its own messages.
- `AlwaysOneWriter`, with MaxClosings = 0 and one broadcaster: the depth, ledger and
  notify hubs before DisconnectAll.  `WInv`: a client syncs from before it can be found
  until its handler has replayed, whom a broadcaster writes to or waits for does not sync,
  and a broadcaster does not write to a client that flushes, which holds `syncLock`.
- `AlwaysNewIsNewer`, with one broadcaster, DisconnectAlls and clearings allowed.  The
  message being sent is the newest of all (`LogOrder`); the copy ascends and follows
  what was written, and the buffer follows both or repeats them (`ReplayOrder`).

`MarketSession_proofs`, for any timetable and any number of workers and subscribers

- `TypeCorrect`, without hypotheses.
- `StatusAlwaysCurrent`, `BooksAlwaysOfToday`, `AlwaysDisconnectedWhileClosed` and
  `AlwaysAnnouncedOnce`, under two hypotheses.  `EnoughWorkers`: the database holds fewer
  workers than there are, and the channel has room for a minute's three jobs.
  `OrdinaryDay`: the sessions lie within one day, the clearing before the opening, and
  the grace period is not longer than the night.  `MarketSession_hung` and
  `MarketSession_midnight` show what happens without them.  That the loads of
  `PJSe.json` succeed is not assumed: `StatusIsCurrent` speaks of the timetable in minutes
  in which they do, and says that a change can stay unannounced only if it was made in a
  minute in which they may fail; `AnnouncedOnce` says that each announcement follows a
  change that was not announced, not that every change is announced
  (`ChangesAreAnnounced`, which the code breaks).
- One free worker means that the channel is empty when a minute ends (`MinuteOver`), so
  the next three jobs are sent; the invariant says how many of them are still to be
  taken and by whom, that at most one session job is under way, that a change which is
  due has its job still to announce it (`StatusFollows`), and where in the day the books
  were cleared.

`Accounts_proofs`, for any number of requests, codes, faults and crashes

- `TypeCorrect`, `SuccessAlwaysOwnsCode`, `PrimaryAdminAlwaysFirst`, `OneCodePrinted`, and
  `KeepsInvitations` (Spec => ImplementsInvitations).
- `IInv` follows a code through the statements: what `CreateUser` learnt of it stays
  true (`CodeIsHeld`), its row is there (`RowIsThere`), emails are unique, owners of codes
  and accounts that wait for theirs are distinct (`OwnersAreDistinct`): this is what
  makes the unconditional `UseCode` harmless.  That the first administrator is first
  needs the stages of the start: until then every code is an administrator's.

`ApiKeys_proofs`, for any users, keys and calls

- `TypeCorrect`, `AlwaysAdmittedByRight`, `AlwaysRefusedByRight` (Spec => RefusedByRight).
  `IInv` adds what a call knows at each position (`CallKnows`) and that a key's scopes are
  its owner's and it is marked as expired only when it is (`KeysAgree`).

`Symbols_proofs`, for any symbols, prices and chunk size

- `TypeCorrect`, `AlwaysListedAsAsked`, `AlwaysStartsFromLastPrice`, and `KeepsDayLedger`
  (Spec => ImplementsDayLedger).  The invariant gives a store its shape (every chunk
  but the last is full, `totalSize` is their sum), from which the place of an item
  follows, and says that the last price of a ledger is the price told last.
- `AlwaysReadsStore` (Spec => []StoreReads).  Each chunk is a part of the list of all items
  (`Cut`).  The loops of `getAllData`, `GetLatest` and `GetRange` are recursive functions:
  the value at each chunk is written down, shown to solve the equation of the loop, and
  two solutions agree from chunk to chunk (`Reaches`, induction over a set of numbers,
  which needs no operator as parameter).

Only model-checked

- Liveness (`EngineReturns`, `EveryRequestAnswered`, `SentIsSettled`, `LostIsForgotten`,
  `BroadcastReturns`), which the prover cannot handle: `EngineReturns` is known for three
  orders, `BroadcastReturns` for the depth hub.
- The disagreements of section 3: a violation is a behaviour, and TLC shows it.

## 5. What is not modelled

- The wording of answers and messages, timestamps, identifiers, JSON; floating-point prices
  (a price is a small integer; the code compares and indexes them, and adds none).
- Several symbols in one order book: the books share nothing but the engine's time.  The
  string of the symbol comes from `c.Params` and is kept after its handler has
  returned; whether the web framework reuses it then is a property of the framework
  (listed as a hazard).
- Torn reads of `MarketStatus` (a string written without synchronisation): whatever a
  torn value is, comparing it with "closed" gives the old or the new result, which
  the interleavings have.
- The replacement of the global maps of the books during a request (a request would have
  to be under way for the 30 minutes without a session before it); for the ledgers
  `Symbols` has it.
- Restart of the engine: books are in memory, `RestoreExchange` is an empty stub,
  `Destroy` is not called because `main` ends in `log.Fatal`.  What a restart does to
  accounts and ledgers is in `Accounts` and `Symbols`.
- Blocking writes outside `WSHub`: `MatchingEngine` and `MarketSession` broadcast in one step,
  as to subscribers who read.  On the ledger and notify hubs one who does not would stop
  the engine (`WSHub_stalled`).
- Two broadcasters on one hub.  The session hub has the workers as broadcasters;
  `AlwaysAnnouncedOnce` rests on one session job at a time, which holds while a worker
  is free.  (`admin/symbols.go:199` would be a second one of the notify hub; it is never
  reached, since line 172 looks for the price among the *response* headers.)
- Passwords, secrets, hashes, checksums of tokens: which key or user a client can prove
  is a model value.  The validity of a key is a number of ticks; the code adds 4 hours
  (`auth.go:137`) where its message says 24 (`auth.go:150`).
- Setters without a caller: `SetUsername`, `SetEmail`, `SetUserPassword`,
  `SetUserAdminStatus`, `SetUserType`, `RevokeAPIKey`, `UpdateAPIKeyStatus`, `SetIPOPrice`,
  `SumTotalStocks`; columns that no check reads: tick size, minimum quantity, `last_used`.
- `symbolNow` always answers with an error, because it reads a parameter that its route
  does not have; routes that only list or read.
- The `sys.json` of the repository says that the first code was made: with it nobody
  becomes administrator.  `Accounts` begins, as a first installation does, without.
- Start, routing, connection pools, read-only routes, generated documentation: wiring and
  I/O.  Redis and historical candles: not used by the server.

## 6. What could follow

1. A composition of `OrderGateway` with `MarketSession`: what a request queued at the
   close meets (`OrderGateway_closed` takes the status as free).
2. `WSHub` with two broadcasters for the session hub.
3. `MatchingEngine`: that a matching loop ends, by a measure that each execution lowers
   (what remains of the request, then the levels of the copy), instead of fairness.
