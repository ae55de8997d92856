# forexx: TLA+ models and proofs

forexx is a peer-to-peer currency exchange built from NestJS services: users
register, get a USD and an NGN wallet, place buy and sell orders that withhold
money, and fulfil each other's orders. The services keep separate PostgreSQL
databases and talk by HTTP, gRPC and RabbitMQ; there is no distributed
transaction. What is hard to get right, and to test, is what this directory is
about: money that moves by remote calls inside a database transaction that may
still roll back, requests that check a state and act on it later, messages that
are delivered at most once, and a cache that requests and a nightly job write.

## The system

| Part | State | Operations | Talks to |
|---|---|---|---|
| api-gateway | its open HTTP calls | checks the header, forwards each HTTP route, passes the answer on | authentication, wallet, order (HTTP) |
| authentication | `user` (email unique), `refresh_token` (one per user) | register, signin, signout, profile | wallet service, by `wallet_queue` |
| wallet | `wallet` (user, currency, balance numeric(18,8)) | createWallets (queue), UpdateWallet, GetWalletByCurrency (gRPC), list | guard |
| order | `order` (amount, totalCost, status), `transaction` (order, user, status; unique per order and user) | createOrder, fulfillOrder, cancelOrder, listOrders | wallet and rate (gRPC), notification (queue) |
| rate | Redis: `currency:<code>`, `currency_set`; a Bull queue | GetExchangeRates, midnight cron, fetchRates worker | exchange rate API |
| notification | the emails it is sending | consumeBrokerMessage, sendEmail (a log line and a sleep) | fed by `notification_queue` |
| global guard | none | asks authentication for the profile of a token | authentication (HTTP) |
| libs/common | none | constants, gRPC types | |

How they interact:

- `register` commits the user, then emits its id; the wallet service inserts
  both wallets in one transaction. Queues are not durable, messages are
  acknowledged on delivery, and the emit is not awaited.
- `createOrder` reads the wallet, awaits the rates, compares, and then, inside
  one transaction, inserts order and transaction and withdraws the hold.
- `fulfillOrder` and `cancelOrder` look the order up *outside* the transaction,
  then UPDATE it by id alone, which waits for the row lock, and make three
  wallet updates (one, for a cancel) while they hold it. `fulfillOrder` inserts
  the fulfiller's transaction and emits a notification last, before the commit.
- A wallet update is one SQL `balance = balance + x`, with a lookup before and
  a read after it. A rollback of the order's transaction does not undo it.
- The answer to a COMMIT may be lost: the rows stay, and `transaction()` rejects.
- The gateway waits for an answer without a timeout. When its connection is
  lost it answers 500 while the handler goes on; `fulfillOrder` and
  `cancelOrder` read the order again after their commit, and answer with an
  error when that read fails. In both cases a client may repeat the call.
- `notification_queue` is not durable, its messages are acknowledged on
  delivery and an email takes two seconds.
- `getExchangeRates` fills a cache that never expires; a job refreshes every
  currency listed in a Redis set at midnight.

What makes each part correct:

- *order*: an order others can see is paid for; it is resolved by requests that
  made all of their updates; order and transaction rows agree; nobody is paid
  before the fulfiller was debited; nobody fulfils an order twice; wallets do
  not go below zero, money is neither made nor lost, and none stays behind a
  rollback. The last three the code does not keep, and the properties say
  exactly when it does not.
- *wallet*: no update lost or doubled; only wallets of the named user change;
  both wallets or none.
- *authentication*: wallets only for users, eventually wallets for every user
  whose id was not lost; at most one refresh token row per user, which holds
  that user's token; a signin answers with a stored token unless a sign-out
  deleted the row meanwhile; a token that had expired on arrival is refused.
- *rate*: what is stored is refreshed, and is not replaced by older rates.
- *gateway*: a call that was answered is not resumed; every call is answered; a
  client that repeats a call after an error does not pay twice, unless the
  connection was lost while the first call ran or a fault inside the order
  service rolled one of the two back after it had moved money.
- *notification*: the owner of a fulfilled order is mailed unless the message
  was lost.
- *guard*: stateless; it refuses a call whose token is expired.

## Modules

| Module | Models | Used by |
|---|---|---|
| `Money` | the two currencies, rounding of a `numeric(p,2)` column | OrderService, OrderBook |
| `OrderService` | order.service.ts: the three handlers step by step, row locks, wallet updates, faults | MCOrderService, Settlement |
| `OrderBook` | abstract: an order book that moves all money of a step at once | Settlement |
| `Settlement` | OrderService implements OrderBook, when an order has one resolver at a time | MCSettlement |
| `Notification` | the emit of a fulfil, `notification_queue`, notification.service.ts | Gateway |
| `Gateway` | the order routes of api-gateway.controller.ts, its header guard, clients that repeat calls, composed with OrderService and Notification | MCGateway |
| `Exchange` | OrderService composed with WalletService: wallet calls served statement by statement | MCExchange |
| `WalletService` | wallet.service.ts: createWallets and updateWalletBalance, `wallet_queue`, restarts | MCWalletService, Registration, Exchange |
| `WalletLedger` | abstract: a ledger that posts each update at most once | WalletService |
| `Registration` | register of authentication.service.ts composed with WalletService | |
| `Session` | signin, signout, profile of the authentication service and global.guard.service.ts | MCSession |
| `RateService` | rate.service.ts, fetch-rates-processor.ts | MCRateService |
| `MC*` | instances for TLC: initial balances, initial states or symmetry | the runs |
| `*Proofs` | theorems about the module of that name; `RegistrationProofs` also has those about WalletService, `OrderServiceProofs` those about Money | |

### OrderService

A *request* is one call of a handler; the ids of creates are also the uuids of
the orders they insert. `caller`, `target` and `dto` are the request's input;
`pc` is the await the handler is at: `new`, `wallet` (createOrder, awaiting the
rates), `found` (fulfillOrder, before it reads its wallet), `checked` (before
the transaction), `call` (awaiting wallet update number `leg`), `record`
(before the fulfiller's transaction row), `commit`, and `done` (its transaction
is committed) or `failed` (it is not). `cut` has the requests that a fault ended
between the beginning of their transaction and the answer to its COMMIT: their
callers are told of an error, although those that are `done` are committed.

| Action | Code (order.service.ts) |
|---|---|
| GetHoldWallet, PriceOrder, CommitCreate | createOrder, 97-202 |
| FindOrderToFulfil, GetPayWallet, LockOrder, NextLeg, LegsDone, RecordFulfilment, CommitFulfil | fulfillOrder, 212-379 |
| FindOrderToCancel, LockOrder, LegsDone, CommitCancel | cancelOrder, 381-474 |
| WalletUnread | a wallet read of one of them is refused or finds no wallet |
| WalletUpdate, WalletRefuse | the wallet service executes the call, or does not |
| Commit (CommitRows) | COMMIT is executed and answered: the rows become visible, the lock is free |
| CommitUnanswered | COMMIT is executed, its answer is lost with the connection or the process |
| Abort, Restart | an answer, a connection or the process is lost before a COMMIT is executed: rollback |

Steps that only this request can observe are merged into the next one: the
inserts of createOrder are invisible before its commit; the two UPDATEs of a
cancel take the row lock and become visible together. `status` and `txn` are
committed values, which is what other requests read under READ COMMITTED, and
`holder` is the row lock. A handler that dies leaves its last call `sent`: the
wallet service may still execute it. The order service reads the wallet as a
value (`seen`). Updates of wallets are atomic here; Exchange shows that they
may be.

Amounts are integers, also zero or negative: `@IsNumber` sets no lower bound, so
a withdrawal may be a deposit and a fulfil may debit the owner. A *cent* is
`Cent` units, so a computed `totalCost` may have a fraction that the column
rounds; `MaxAmount` and `MaxCost` are the columns' bounds. Rates are `rate /
RateScale`.

History variables, which no guard reads: `applied` (the updates of a request
that took effect) and `raced` (wallets on which two debits overlapped). `cut`
is read by Gateway only, for what it answers.

### OrderBook, Settlement

OrderBook is what a user is promised: `book` has the terms of each order placed,
`state` its status, `funds` the balances; Place, Fulfil and Cancel each move all
of their money in one step. Settlement maps OrderService to it: an order is in
the book once its create has committed, its terms are computed from its body and
its cost (`TermsOf`, with what the numeric(p,2) columns make of them), and the
book's balances are the wallets' without the updates of requests that have yet
to commit (`Early`). `SerialSpec` lets fulfils and cancels of one order be
served only one at a time.

### Gateway, Notification

`hop` says what the gateway does with each call: `idle` (not sent), `open`
(forwarded), `ok` or `error` (answered), `lost` (the connection is gone). A call is answered with an error
when its handler was rolled back, lost the answer to its COMMIT (`Errored`), or
failed to read the order again (ReadBackFails). An
OrderService step of a request is a step of the composition (`Serve`), except
that its first one needs the call to be sent. A repeated call is another request
with the same caller and target. A `Patient` client has one call open at a time.
`mail` follows the notification of each fulfil from the emit, which happens in
the step that adds the fulfil to `notified`, to the queue, the consumer and the
email; a restart of RabbitMQ loses what is queued and a restart of the service
what is being sent.

### Exchange

OrderService, with its one-step wallet update replaced by the statements of
WalletService: `Wallet` is an instance of that module in which the update of a
request is its current call, and `upc` where its handler is. QueryWallet is the
lookup, the read afterwards and the failure of either; ExecuteUpdate is the
UPDATE; Deliver is the answer on its way back. `members` are the users whose
wallets exist (Join adds one); handlers look wallets up before they go on
(`Reads`, ReadFails). `Order` is the instance of OrderService that this
implements: there an update has happened once its UPDATE has, so a call that
ended with an error after it maps to an answer that was lost (Abort), and its
handler to one that was cut off (`Misled`, `CutSeen`).

### WalletService, Registration

`handling` follows the message of each user: queued, `open` (transaction of
createWallets), `created` or `lost`. `draft` is what the transaction inserted,
`wallets` the committed rows. `upc` is where an UpdateWallet handler is:
FindWallet, ChangeBalance, ReadBack are its three statements. `posted` is
history. A wallet is identified by user and currency: nothing in the table
enforces that, but an id reaches the queue once (`ImplementsWalletService`) and
its message is handled at most once. `Enqueue` is the environment of
WalletService; Registration replaces it by `EmitUser`.

### Session

Both tokens of a signin are named by the signin, so tokens signed in the same
second, which are equal strings in the code, are distinct here. `at` is where a
signin is: VerifyPassword signs the tokens, FindToken reads the table, and
UpdateToken or SaveToken writes it by what was found. A row's `id` is the signin
that inserted it. A *request* is a sign-out or a call of another service:
Present takes a token from an answered signin, Authenticate is AccessGuard (of
`/signout` and `/profile`), Admit the other service's guard that has the
profile, DeleteToken the sign-out. No access check reads the table, so a user
who signed out is admitted until the access token expires. An UPDATE that
matches no row is no error: after a sign-out in between, a signin answers with a
refresh token that is stored nowhere. `crossed` and `late` are history.

### RateService

Rates are versions, `published` is the API's current one. `pc` and `got` follow
a request (GetCached, FetchMissing, StoreFetched, ListCurrency), `job`, `todo`
and `fetched` follow the worker (StartJob, FetchNext, StoreNext). Commands to
Redis are atomic and take effect when the handler sends them. `rivals`, `due`,
`promised` and `late` are history; `late[j]` are the requests that put rates
older than job j's over those the job had stored (`Reached`).

## Runs

| Run | Instance | Shows |
|---|---|---|
| order_faults | 1 order, 2 fulfils and a cancel, 3 users, every fault | eleven invariants of OrderService; a late fulfil or cancel never commits; every request ends |
| settlement | 2 orders, a fulfil and a cancel of different orders or one after the other of one order, a positive and a negative amount | refinement of OrderBook, conservation of money; a wallet below zero had overlapping debits or a negative order |
| gateway | 1 order, 2 fulfils and 2 cancels of it, of which 3 calls are sent through the gateway; every fault of the order service, lost connections, failed reads after the commit, restarts of RabbitMQ and notification | an answered call is not resumed, repeated calls are safe unless a connection was lost or a fault rolled one back, every call is answered, owners are mailed |
| exchange | an order of either type and a sell of one user, a fulfil and a cancel, a user without wallets, overflowing wallets, lost answers, restarts of both services | refinement of OrderService |
| wallet_faults | 2 users, 2 updates, every fault | refinement of WalletLedger, wallets in pairs |
| register_faults | 3 registrations, 2 emails, every fault | wallets have users, ids emitted once; every user gets wallets or its id was lost |
| session_faults | 3 signins of 2 users, a sign-out, a call, every fault | one row per user with its own token, conflicts have rivals, answers are stored, expired tokens refused |
| rate_faults | 3 requests, 2 currencies, 2 nights, 3 versions, every fault | consistency and freshness of the cache |
| rate_progress | 2 requests, 1 night, no fault | the nightly refresh reaches every listed currency |

Bounds. Two resolvers of one order are the smallest race; the third lets the
row lock pass on, and a cancel among them covers both kinds. Three users let
two strangers, or one stranger twice, fulfil an owner's order. Balances of 9
and debits of 6 (hold or price, depending on rate and type) make a wallet cover
one debit and not two. The rates of `order_faults`, in halves, make a
`totalCost` of 3, 12 or 18 of an amount of 6: one that a balance of 9 covers,
one that it does not, and one that overflows its column. In `gateway` balances
of 20 cover two debits, so that nothing but the code keeps a repeated call from
paying again; `MaxCalls` lets a create and two calls be sent, two alike or a
fulfil and a cancel. `MaxInFlight` bounds how many requests are served at a
time: all of them, or three of the four in `exchange`. `Cent = 4` with odd costs
makes the rounding go both ways, and 5 and -3 round differently. In `exchange`
two creates withdraw from one wallet at a time, a wallet of 9 that may hold 12
refuses a deposit in the middle of a fulfil, and one user has no wallets before
the run gives it some.
Two updates of two users' wallets include two of one wallet and one of a
stranger's. Three requests for two currencies include two racing for one while
a job runs. Three signins of two users put two against one row while the other
user has a row or none; the sign-out can come between the statements of each.
All unbounded counters are inputs: nights, versions, requests.

Users, currencies and orders are interchangeable in OrderService. The MC modules
of the order service use that to fix some initial values (the owner of the first
order, its base currency; in `settlement`, which order the fulfil is of) and not
as a SYMMETRY, which would be unsound for liveness.
`exchange` also fixes the owners and base currencies of both orders, and that
the second sells: two sells share a wallet, which is the case the run is for.

Three runs are expected to find a violation; each shows what a check in the
code is for and that overlapping requests get past it:

- `order_overdraft`: two creates of one user pass `wallet.balance < totalCost`
  with the same balance; the wallet ends below zero (`order.service.ts:153`).
- `order_overwrite`: a cancel that found its order pending waits for the row
  while a fulfil commits, then writes 'cancelled' over 'completed' and refunds
  the owner (`order.service.ts:439`).
- `order_twice`: two users' fulfils that found the order pending both commit
  (`order.service.ts:302`).

The passing runs say what survives these races: `PendingMeansUnresolved` (an
order never comes back), `BooksAgree`, `LateResolverFails` (only overlapping
requests resolve twice), `NoOverdraftWithoutRace`. Settlement excludes overlaps
of one order, and `MoneyIsKept` then has the exact remainder: half a cent per
resolved order, and for a cancelled *sell* the difference between its price and
its amount, since cancelOrder refunds `order.totalCost` in the currency of the
hold.

What the code loses for good, the properties bound and do not exclude. They name
the cases, and say there is no other:

- Money that stays withdrawn, or paid, behind a rollback (`StrandedHasCause`): a
  fault ended the transaction, a later update of a fulfil was refused, or a user
  repeated a fulfil and `UQ_order_user` refused it after its three updates.
  Nothing gives such money back.
- Wallets below zero (`NoOverdraftWithoutRace`): two debits overlapped, or an
  order of a negative amount was resolved whose deposit is a debit (`Drained`).
- The refund of a sell (`Misrefund` in OrderBook) is the rule of the book, not a
  violation of it.
- An email about a fulfilment that a fault rolled back after the emit
  (`NotificationTracksFulfilment`); a user without wallets whose id was lost
  (`LostBefore`); a stored refresh token that nobody was given, since the answer
  was lost (Session reaches it, no property forbids it); a token that expires
  between the guard's answer and the run (`ExpiredIsRefused` is about those that
  had expired on arrival).

### Fairness

Runs with liveness assume weak fairness of what is answered: a handler whose
await returned goes on (the Node.js event loop), PostgreSQL grants a free row
lock, the wallet service executes or answers a call, RabbitMQ delivers what it
holds, Bull hands out a waiting job; in `gateway` also that a call that was sent
arrives, that an answer is passed on and that a queued message is consumed.
No fairness is assumed of users, of midnight, or of any fault: nobody has to
send or repeat a call, and a fault may always or never happen. `order_faults`,
`gateway` and `register_faults` have every fault: a request that was admitted
ends, a call is answered, and a user gets its wallets unless its id was lost. The gRPC clients and the gateway
set no deadline, so a wallet service that never answers is excluded by fairness
and by nothing else. Session states no liveness: its handlers have no loop and
wait for no other handler.

## Proofs

`OrderServiceProofs`, `OrderBookProofs`, `SettlementProofs`, `GatewayProofs`,
`ExchangeProofs`, `RegistrationProofs`, `SessionProofs` and `RateServiceProofs`
are checked by tlapm for every value of the constants that satisfies the
modules' assumptions: requests are partitioned into creates, fulfils and
cancels, amounts are integers, rates and initial balances natural numbers,
faults are of the kinds listed; in Settlement, users and requests are finite, as
a sum of balances needs. Only the two refinement theorems of Settlement assume
more, as their statements say: that nothing fails inside the order service,
`Faults = {}`.

Every invariant and every action property of the passing runs is stated by a
theorem, and so are the refinements.

**Order service.** None of the properties is inductive alone. The invariant is
`Bookkeeping`:

- `TypeOK`;
- `Control`: where a handler is determines which of its wallet updates took
  effect, `applied[r] = 1..leg` or `1..leg-1` (`DebitFirst` follows);
- `TransactionsExclude`: a resolver's transaction is open exactly while it
  holds the row (`RowLocksExclude`);
- `Books`: an order exists once its create is done, passed checks are about
  existing orders, pending means unresolved, a status has a request that caused
  it, both tables agree, a user other than the owner has a transaction exactly
  if its fulfil committed;
- `Fresh`: a fulfil about to commit is its user's first. This is where the row
  lock is needed: between the insert and the commit nobody else can commit.

`Funded`, `Paid`, `PendingIsUnresolved`, `TablesAgree` and `FulfilledOnce`
follow. `NotifiedOfPaid` adds `Announced`, who was notified of is past its last
update. `OverdraftNeedsRace` adds `Covered`: for a wallet that never had two
debits at once, the one request that read it and has still to debit it is the
only one (`SoleDebitor`), the balance is at least what it read (`StillThere`),
and what it read covers its debit (`CheckedCovers`). Deposits need no check as
long as none of them is negative; a wallet that a negative one reached is in
`Drained` from then on (`DrainedGrows`), and nothing is claimed of it.

`StrandedMoney` adds `Severed`: a handler that ended while its update was under
way is in `cut`. With it every step that ends a handler without its commit is
excused: before the transaction nothing has moved (`Control`), an abort or a
restart in it adds to `cut`, a create or cancel that is refused had one update
only, and `UQ_order_user` refuses a user whose other fulfil is done (`Books`).
`LateNeverCommits` is about a property with a nested box:
`Late(r)`, the order is resolved and r is not past its check, is preserved by
every step (`LateStep`), since no step makes an order pending again.

**Order book.** `MoneyConserved` is about sums over finite sets: the supply of a
currency over users, the holds and refunds over orders. The library defines such
a sum by recursion over the subsets of the set, with an arbitrary choice of the
next member. Its laws are proved first, from one principle: a set of subsets of
a finite set that is not empty has a smallest member (`MinimalSubset`), so no
subset violates a law if no smallest one does. `FoldExists` and `FoldUnique`
make the recursion meaningful, `SumTakesOut` frees it from the choice, and
`SumAdds` and `SumChanges` are what the steps need. The invariant of the book is
`Listing` (its types, and an order is in it exactly if it is not absent)
with the claim itself: placing moves the hold from the supply to the holds, a
fulfil moves it back as the payout, which rounding makes differ by half a cent
at most, and a cancelled sell adds to the misrefund what it gets too much or too
little. What
the theorem assumes of the terms, `OffersFit`, Settlement proves of every order
body and rate (`OffersRound`).

**Settlement.** The mapping counts a wallet update as made when its request
commits: the book's balances are the wallets' without the updates that are
`Early`. What is assumed of the requests, `OneAtATime`, is that a fulfil or
cancel is not served while another of its order is; requests of different orders
interleave freely. `Settled` is the invariant: `Bookkeeping` and `Undisturbed`
of the order service (no call is refused, an ended handler awaits none),
`OneAtATime`, `Current` (the order of a fulfil or cancel
that passed its check is still pending), `Clean` (a request that failed had
moved nothing: the only refusal after an update is that of a second fulfil,
whose order is not pending), and `Priced` (a price is the product of a rate and
the order's amount, so the terms are among the book's offers). A wallet update
is early at once and changes nothing of the book (`UpdateKept`); the steps
before it and the answers leave what is early alone (`EarlyKept`, `BookKept`);
at the commit all updates of the request stop being early, and as the three
wallets of a fulfil are different ones each changes by its own update
(`CommitSettles`). That `OneAtATime` is needed is what `order_overwrite` and
`order_twice` show; that it is enough for the status, whatever fails, is
`SerialResolvesPending`. That `Faults = {}` is needed shows in what a rollback
leaves: updates that belong to no commit. `SettledMoneyIsKept` applies
`MoneyConserved` to the mapped book, through the instance `Theory` of
OrderBookProofs.

**Gateway.** Every step of the composition is a step of OrderService or leaves
its variables alone (`GatewayImplementsOrderService`), so its theorems hold
here. `Calls` ties `hop` to `pc`: what was not sent has no handler, what was
answered has ended, and a patient client has one call open. With `Healthy`
(`Bookkeeping` and `Accounted`, which is `StrandedHasCause` and `Severed`) the
only step of an ended handler is the execution, or the loss, of an update it was
cut off from (`UnderWay`): `AnswersStand`, whatever fails. `Harmless` gives
`RepeatsAreSafe`: once a call was answered and has moved money for good
(`Settled`), its order is no longer pending, so any later call of that client
for the order is refused at its first check, before it moves any
(`SettledMeans`, `ArrivesLate`). A call that was rolled back after it moved money
(`Stranded`) leaves the order pending, and the repetition that its error invites
pays again; the theorem excludes this case and no other but a lost connection.

**Exchange.** `Served` says how far the wallet service is with the call a
handler sent: the updates that took effect are those before the current one, and
the current one exactly if its UPDATE has run. With it `CallSeen`, the order
service's view of the call, changes in the step of the UPDATE and not when the
answer arrives, and every step of the two services is a step of OrderService
with the faults `refuse` and `abort`, or a stutter
(`ExchangeImplementsOrderService`). The proof goes action by action; what does
not depend on the call is the same for both (`SameTerms`). `Theory`, an instance
of OrderServiceProofs over the same mapping, then carries that module's safety
theorems over to the two services together (`ExchangeIsSafe`).

**Wallet service.** `Inv` adds to the types that pairs follow from `handling`,
that a queued message is in the queue, and that a handler past its lookup owns
its wallet and has posted exactly when it is past its statement. With it every
step is a step of WalletLedger or a stutter: commit of createWallets is `Open`,
ChangeBalance is `Post`, ReadBack is `Answer` (`ServiceImplementsLedger`).

**Registration.** `Accounts` relates the register handler to the message of its
user: before the emit there is none, and whoever has one is a committed user.
Every step of Registration is then a step of WalletService or leaves its
variables alone (`RegistrationImplementsWalletService`), so the wallet service's
`Inv` carries over to the composition.

**Session.** `Table` adds to the three properties of the table that the signin
which inserted a row was of that user and its statement was executed
(`Inserted`, which gives a conflict its rival), and that a row found is there
until it is updated, unless it was deleted (`FoundIsThere`, which gives
`AnswerStored`). `LateIsExpired` says that a late request is not past its
authentication.

**Rate service.** `Queueing` bounds how often a job is picked up and is needed
for the types. `Stored` adds to `ListedMatchesStored` that a request past its
fetch holds rates and one that stored them finds them stored. `Alone` says that,
where no two requests fetched at a time, the request that is to store rates is
the only one and finds none stored, and that the worker holds rates not older
than those it is to replace; the second part needs the first and `Stored`, since
the worker is given only currencies that are listed, hence stored, hence not
fetched by a lone request (`RollbackNeedsRace`). `Refreshing` says of a job that
runs that what it found when it started is refreshed or still on its list, and
of one that completed that it is refreshed; `Refreshed` allows for a request
in `late[j]`, and for no other: its rates must be the stored ones, older than
the job's, and put there after the job had stored its own
(`CompletedMeansRefreshed`).

`HitsNeverFetch` has a nested box, like `LateNeverCommits`: `Hit(r)`, rates
are stored and r is not past its lookup or was answered there, is preserved by
every step, since a key is overwritten and never deleted and what is stored is
never the 0 that stands for no key (`Stored`).

Only model-checked: liveness (`EveryRequestEnds`, `EveryCallIsAnswered`,
`OwnerIsMailed`, `EveryUserGetsWallets`, `MidnightRefreshes`), which needs
ENABLED and fairness, and those the provers do not handle. The three expected
violations are counterexamples and have nothing to prove.

## Not modelled

- Of the gateway, the routes to the authentication and wallet services and the
  list of orders: they only forward, to handlers that Registration and Session
  model or that only read. Of the notification service, the content of an email.
- Passwords, signatures and contents of tokens.
- Reads that change nothing: listOrders, listWallets, and refreshToken, which no
  route reaches.
- Floating point: `totalCost` is a product of doubles in the code and of scaled
  integers here; rounding of wallet amounts to eight decimals.
- A worker that loses its Bull lock while it still runs.
- Generated gRPC types, module wiring and configuration, other than the
  durability and acknowledgement of the queues.

## How it grew

First the order service and its abstract book, as the part that moves money;
then the wallet service and ledger, registration, rates and sessions with their
proofs; then gateway and notification around the order service, negative
amounts, Exchange as the link between the two services that share a transfer,
and proofs of the properties that had only been checked; last the laws of finite
sums, with which the order book and its refinement by the order service are
proved too. What is left would need other tools: floating point, and liveness
proofs. A refinement theorem that admits faults would need an order book with
transfers that are stranded, and says less about the code than `DebitFirst`.
