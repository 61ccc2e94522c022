# boldtrax-arb: the verification project

TLA+ models of the Rust workspace in `src/`, the TLC runs that check them on
small instances, and theorems about them whose proofs TLAPS checks. Paths below
are relative to the repository.

## 1. The system

One *exchange process* per exchange (`ExchangeRunner`, `src/runner.rs`) wires an
exchange client to four actors and serves them to *strategy processes* over
ZeroMQ. A strategy process follows the events of its exchanges and decides and
executes arbitrage trades on a pair of instruments.

| part | state it keeps | operations | hard behaviour |
|---|---|---|---|
| Order manager (`core/src/manager/order.rs`) | `active_orders`, `client_id_map`, price cache; one spawned task per REST call | submit, cancel, results of both, stream event, reconcile | the REST answer, the stream and the reconciliation tell of the same order in any order; answers late or lost; events lost; restarts forget |
| Position manager (`core/src/manager/position.rs`) | positions per instrument | stream patch, REST sync, queries | a REST snapshot taken before a stream patch and applied after it; lost patches |
| Price manager (`core/src/manager/price.rs`) | book cache, waiters, keys being fetched | get, refresh, stream update, REST result | joining fetches; an older REST book replacing a newer one; waiters left behind |
| Account manager (`core/src/manager/account.rs`) | snapshots, waiting commands, exchanges being fetched | queries, reconcile, fetch result | joining fetches; stale snapshots served while refreshing |
| WebSocket supervisor (`core/src/ws`) | back-off, connection | prepare, connect, shake hands, heartbeat, read, reconnect | a stream that is silent while its connection stays open |
| HTTP client (`core/src/http`) | none | signed requests, retries, time-outs | a retried POST whose first try took effect; a signature older than its attempt |
| ZMQ server, client, discovery (`core/src/zmq`) | sockets, Redis leases | commands, events, registration | a reply after the time-out; lagging subscribers; expired leases |
| Exchange runner, event forwarders (`src/main.rs`, `src/runner.rs`) | tasks, broadcast receivers | start, serve, end; forward to the PUB socket | which task ends the others; a receiver that lags |
| Strategy assembly and control (`src/strategy.rs`, `core/src/zmq/strategy_*.rs`) | connections, command queue | wait for services, connect, register; pause, exit, status | processes replaced between two connections; commands acknowledged before they are done |
| Arbitrage engine (`strategies/src/arbitrage/engine.rs`, `types.rs`) | pair state, order tracker, unwind schedule | events, commands, evaluation | order events before position events; one leg failing; stale orders |
| Perp/perp poller, spot/perp execution (`strategies/src/arbitrage/perp_perp`, `spot_perp`) | legs, pending orders | poll, dispatch two legs, recover, unwind | partial failure, recovery racing fills |
| Exchange clients, stream policies, mappers, codecs (`exchanges/src`) | registries, Bybit's local book | REST and stream mapping | id truncation, locally built replies, names one mapper knows and another does not, levels that outlive a connection |
| CLI, configuration, wizard, probes (`src/cli`, `core/src/config`) | none at run time | - | - |

What each part must get right:

- **Order manager**: one truthful, forward-moving account of every order from
  three late and lossy sources; nothing tracked for good that is over, nothing
  forgotten that lives.
- **Position manager**: sizes, openness and margin data that converge although
  two sources own different fields.
- **Price and account managers**: at most one fetch per key, everyone who joined
  it served by it, nothing older than what the caller may count on.
- **Strategies**: a pair of legs that is entered, recovered, rebalanced and
  closed by two orders at a time, either of which may be refused, dropped, half
  filled or reported late; whatever happens the pair knows its sizes, opens no
  risk while it closes, and comes to an end.
- **Transport** (ZeroMQ, discovery, forwarders, WebSocket, HTTP): replies matched
  to requests, leases that follow their process, events that are lost visibly or
  not at all, retries that do not act twice.

## 2. Plan

Most important behaviour first; modules are parameterised by CONSTANTS with a
named assumption, have one action per handler, and no RECURSIVE operator, so
that each can be proved about.

| step | module | composed of | abstract specification | theorems | state |
|---|---|---|---|---|---|
| 1 | `OrderManager` | the actor, its REST tasks, the exchange | `OrderFeed`, implemented | types, maps, published = tracked, events applied, refinement | done |
| 2 | `PositionManager` | the actor, its REST task, the stream | - | types | done |
| 3 | `PriceManager`, `AccountManager` | actor, fetch task, callers | - | marks and lists are true; answers are fresh | done |
| 4 | `TwoLegs`, `PerpPerpPoller` | legs, tracker, dispatch, exchanges; the poll loop over them | - | tracked orders report; sizes catch up; a closing pair opens nothing | done |
| 5 | `SpotPerpEngine` | extends `TwoLegs` | - | the holding is accounted for; a closing pair buys nothing | done |
| 6 | `CommandSocket` | the callers, the socket and its mutex, the server | - | an answer is at most as old as calls timed out | done |
| 7 | `EventPath` | actors, forwarders, publisher, sockets, listener | - | types | done |
| 8 | `ExchangeProcess` | main, runner, server, Redis, the strategy's start | - | a service that runs is found; a start is on one process | done |
| 9 | `StrategyControl` | stratctl, the command server, the strategy's loop | - | types | done |
| 10 | `UserDataStream`, `DepthBook` | supervisor, policies, relays; the exchange | - | types; the depth book is the exchange's | done |
| 11 | `RestClient`, `OrderReports` | client, network, exchange; mappers, reconciliation, exchange | - | the answer of a call is true; nothing ends early | done |
| 12 | rounding and validation of orders, margin arithmetic | operators | - | bounds of rounding | open |

Modules that share no state are composed in three modules that let *one part at a
time* move: a variable `part`, chosen at the start, says which, and the variables of
the others keep their first values. `ExchangeUpdates` composes `PriceManager`,
`PositionManager`, `UserDataStream` and `DepthBook` (run `price_manager`);
`ExchangeRequests` composes `AccountManager`, `RestClient` and `OrderReports` (run
`account_manager`); `Processes` composes `CommandSocket`, `ExchangeProcess`,
`EventPath` and `StrategyControl` (run `processes`). The MC modules only give values
to their constants. Exploring such a composition is as good as a run for each part,
and the proofs show what is needed of it: every behaviour of a composition is one of
each part's own specification (the lemmas `PartsFollow`), so that a theorem about a
part holds of the composition. A property of a part at rest is about one
state, its first; where fairness is stated of a part, none of its fair actions is
enabled in that state, so the conjunction of all fairness conditions excludes no
behaviour of the part that moves.

## 3. Modules and code

### Order manager

`OrderManager` models `core/src/manager/order.rs`. `order` is `active_orders`,
`cidMap` is `client_id_map`; `place`, `submitResult`, `cancels` and
`cancelReplies` are the spawned REST tasks and the results they post to the
actor's mailbox; `ws` is the execution stream, `exch` the orders at the
exchange, `published` the last event broadcast. Each handler of the actor is one
action (`SubmitOrder`, `CancelOrder`, `HandleSubmitOk/Err`, `HandleCancelOk`,
`HandleWsEvent`). The reconciliation awaits its REST calls inside the handler,
so it is a sequence of actions (`ReconcileStart`, `ReadOpenOrders`,
`ReadStatus`, ...) between which the exchange goes on and the actor takes
nothing else (`ActorIdle`). The exchange accepts a request even after the client
gave up (`late`), and the answer of one it accepted may be lost. `Restart` is the
end of the process at any moment.

`OrderFeed` is what subscribers may rely on: per order a view that lags, never
goes back, and once final is the order's true end, save for a rejection decided
locally. `TruthfulFeed` is the refinement `feed <- published`.

### Position manager

`PositionManager` models `core/src/manager/position.rs`: `store` is
`PositionStore` reduced to the size and the exchange state the margin data is
of, `syncs` the snapshots on their way from the REST task to the actor. A patch
owns the size; a snapshot evicts, bootstraps, and else owns only the margin data.
`missed` holds the instruments of which the stream lost a patch (always, for an
exchange without a position stream): nothing repairs their size while they stay
open, so `SizeConverges` excepts them.

### Price and account managers

`PriceManager` (`core/src/manager/price.rs`) and `AccountManager`
(`core/src/manager/account.rs`) keep what they fetched (`cache`, `snapshots`), who
waits (`pending`) and what is being fetched (`fetching`); `task` is the spawned
fetch and its result. Books and snapshots are abstracted to versions of what
they show. `owed`, a ghost, is the oldest version that answers a call: the
current one, or any when the call joins a fetch that is under way.

### Command path

`CommandSocket` models the commands of a strategy to an exchange process:
`send_command` of `core/src/zmq/client.rs` (`Begin`, `Send` or `SendFails`, then
`Receive` or `GiveUp`) and the loop of `server.rs` (`TakeCommand`, `Answer`).
`lock` is the queue at the socket's mutex; `poller.rs:398` joins two calls, which
share a socket when both legs are on one exchange. `ServerEnds` loses what is on
its way and makes later sends fail or vanish, since a new server has a new
address and nobody reconnects. Commands are numbered as they are sent and answers
carry the number of the command they are for; the program has no such numbers.
To the strategies' model this path is the answer of a submission in `Replies`:
`"ok"`, `"refused"` or `"unanswered"`, which takes every answer for the caller's
own. By `AnswersAlwaysLagBehindTimeouts` that is so until a call times out.

### Perp/perp strategy

`TwoLegs` holds what the strategies share: `PairStatus`, the unwind schedule, the
order tracker, `dispatch_legs` with its early return on the first leg's error,
and the exchanges the two orders rest at. `setting`, chosen at the start and never
changed, says what is explored: the size to enter with, the chunks of an unwind,
the commands that may come, the replies of an exchange, whether cancels and
position updates may be lost. A run's `Settings` are the ones it goes through.
`PerpPerpPoller` is the loop of
`perp_perp/poller.rs`: a poll is two actions, `PollSync` (the REST calls are
awaited there) and one of the `Acts` actions, between which the exchanges go on
but events wait; `HandleOrderUpdate` and `HandlePositionUpdate` are the events,
each with its continuation `check_tracker_transitions`; `GracefulExit`,
`ForceExit` and `PauseOrResume` are the commands. `forced` are tracker entries a
cancel marked as cancelled, which a late partial fill makes pending again.
Sizes count lots in the direction of each leg, and a chunk is rounded down to lots
as the order manager does (`RoundedDown`): an order of no lots is placed, tracked
and then rejected, and the unwind goes on to the next chunk. Prices, funding rates, depth and
margins are choices (`DecideEnter` or `DoNothing`, `EmergencyExit` or not), and
so is the economics of a recovery (`Rests`, `Reprices`, `Chases`, `Aborts`).

### Spot/perp strategy

`SpotPerpEngine` extends `TwoLegs` with the loop of `engine.rs`. The long leg is
a spot holding of which no exchange tells: the strategy adds up the fills that
order events tell of (`spot_perp/types.rs`), so `size["long"]` is its figure and
`position["long"]` the truth, `last` is `last_spot_partial_fill`, and `cut`, a
ghost, is what spot orders had filled that then ended otherwise. The events of an order
are handled in order; `Skips` says whether one before the end may be missing, because
the stream lost it or a cancel's reply or the reconciliation overtook it. `spot` holds per
order what was asked and what its events have said. `paper` is the engine that
simulates its orders (`paper.rs`).

### Processes, discovery, events, control

`ExchangeProcess` follows `main.rs`, `runner.rs`, `strategy.rs` and
`discovery.rs`: `runner` and `server` are what the two tasks of an exchange
process are about to do, `strategy` what the start of a strategy is about to do
and the endpoints it has found so far, `lease` the keys in Redis with the seconds
they have left, `beat` the heartbeat tasks. Endpoints are the numbers of the
processes that bound them. Any call to Redis may fail; a process may be stopped
anywhere (`Stop`) and another started. In `--mode all` both live in one process
and `MainWaits` says when a Ctrl-C finds main busy elsewhere.

`EventPath` follows an event from the actor's broadcast channel (`ring`) through
its forwarder, the bus, the sockets and the strategy's channel: a full broadcast
channel loses its oldest event and its receiver gets an error, which ends a
forwarder and is logged by the publisher; a full socket drops; a full channel
makes the listener wait. `shed` notes the loss of a last event.

`StrategyControl` has stratctl's calls, the server that answers `Ack` before the
work is done (or drops a command for which the channel has no room), and the loop
that takes commands. `shown` is the status in the watch channel.

### Private streams, depth streams

`UserDataStream` is `run_supervisor` of `core/src/ws/supervisor.rs` with the
private policies: listen key (Binance futures, Aster), signature (Binance spot),
auth (Bybit). `step` is the phase of the supervisor, `session` what the exchange
does with the connection: the ones that matter are `"deaf"`, open but silent, and `"dead"`,
broken without either side being told.
`Listen` and `Relay` are `stream_executions` and `stream_position_updates`.

`DepthBook` is the book of one instrument on its way over the depth stream:
Bybit's `LocalBook`, put together from changes and kept over connections, or the
whole books of Binance and Aster.

### REST calls and reports of orders

`RestClient` is the placement or cancellation of an order through the middleware
of `core/src/http/client.rs`: retries around authentication, so that each attempt
is signed again. Of the exchange it assumes what the code relies on: it knows a
client order id for one it has accepted, whatever became of the answer.

`OrderReports` has an operator for each of the seven functions of `mappers.rs`
that make an order of a report or of an answer, named as they are, over one
vocabulary of states (`"pending"` stands for `PENDING_NEW` and `Untriggered`).
Binance's and Aster's stream mappers pass over `PENDING_NEW` and
`EXPIRED_IN_MATCH`, their REST mappers know both; Bybit's two agree. `Relay` is
`handle_ws_event` and `Reconcile` `process_reconcile`, reduced to one order.

## 4. Runs

| run | instance | checks |
|---|---|---|
| `order_manager` | one order of two lots, three stream events, two cancels, fair | types; the maps agree; published = tracked; no stream event of a tracked order is dropped; the stream implements `OrderFeed`; ended orders are released and submissions resolve |
| `price_manager` | in parts: two books, two callers, two versions; one instrument long or short with five changes, late snapshots, a restart; a private stream of each policy with two outages; a depth stream of two prices | everyone answered, nothing older than owed, a wrong cached book does not last; openness, margin data and sizes of positions converge; reports of the private stream keep coming; the depth book is the exchange's |
| `account_manager` | in parts: one account, two callers, three versions; a call tried three times, a window of one and a clock of three; an order of two lots at each exchange | waiting commands and announcements agree with what is in flight, answers are fresh, a snapshot settles; the answer of a call is true and never stale for its retries alone; the end of an order is learnt |
| `perp_perp_safety` | two settings: one unit per leg with every command, refused and unanswered submissions, lost cancels and updates; two units in two chunks with partial fills and rebalances | types; tracked orders report; a closing pair opens nothing; sizes catch up once updates are handled (unless they may be lost) |
| `perp_perp_live` | one unit, two chunks of which the first rounds to nothing, fair | exits, unwinds and recoveries end |
| `spot_perp` | two settings: two units with every command, and with a graceful exit alone an unwind in three chunks, the first of which rounds to nothing; refusals, one unit cut, fair | types; the holding is accounted for; a closing pair opens nothing; an exit ends |
| `processes` | in parts: two callers with four calls over a slow, answer-dropping or ended server; two processes of each kind, leases of two and three seconds, both modes; two kinds of three events through channels of two; two clients and five commands through a channel of one | answers are no older than calls timed out, calls return; who serves is found; a strategy starts on one process; the last event arrives; a pause or resume that was acknowledged is done |
| `order_manager_cut_ids` | an id longer than the exchange's limit | *violates* `StreamEventApplied` |
| `order_manager_lost_reply` | as `order_manager` | *violates* `RejectedByExchange` |
| `perp_perp_reentry` | an emergency exit that may be refused | *violates* `NoReentryWhilePaused` |
| `perp_perp_inactive` | plain | *violates* `InactiveIsFlat` |
| `spot_perp_quantity` | as `spot_perp`, without commands; every event of an order is handled before its end (`Skips = FALSE`); one unit cut | *violates* `QuantityIsHeld` |

**Bounds.** One order is enough for most of the order manager because its handlers
touch one order each, and the theorems hold for any number; two lots give a
partial fill, three waiting events a whole life of an order in the stream, two
cancels a duplicate. The position manager needs a position that is closed and
opened again in the other direction between two snapshots: four changes, and five
are allowed. One snapshot waits at a time, as the REST task sleeps
`reconcile_interval` between fetches; with two waiting (`MaxSyncs = 2`, an actor
stalled longer than that) the first can evict an open position and the second
bootstrap an old size that nothing corrects, and `SizeConverges` fails. Two
callers are what it takes to join a fetch; two keys, to confuse them. A unit per
leg gives every state of a pair (flat, one-legged, entered); two units are
needed for partial fills, rebalancing and chunks that leave something. `MaxOrders`
bounds orders of a leg at an exchange; at the bound a dispatch is refused, which
is an answer an exchange gives anyway. `MaxNews` delays fills, not events.
`MaxCut` bounds what cancelled spot orders leave behind. `Max*` versions bound how
often the outside moves. Four calls let one time out, the next one take its late
answer, and two more follow out of step. Two processes of a kind make an old and
a new one; leases of three seconds have a heartbeat each second, those of two have
one as well, but no heartbeat may fail. Channels of two overflow with the third
event. Two outages of a stream let the repair of one be hit by another. Three
attempts give a first, a middle and a last one, and a clock of three lets one be
late for the window while another is not. Two prices and quantities of one are a
level that comes, goes and comes back, and another that stays.

**Deadlock** is checked in the runs of the order manager and the strategies; in the
others a bounded outside that has made its changes legitimately leaves nothing to
do.

**Fairness.** An actor's `select!` picks among its ready branches at random, so each
source of work is fair. The HTTP client bounds every call by a time-out, so tasks
return. Time passes (`Expire`, `Age`, `TimePasses`). Forwarders, publisher,
listener, relays, supervisor and the command server's loop are tasks that nothing
but their own ends stops. Beyond the code we assume of
an exchange that it does not fail every one of the endlessly repeated status
queries, fetches or closing orders: strong fairness of `ReadStatus`,
`FetchPositions`, `FetchSucceeds`, of a closing dispatch that is accepted, of a
fill of some closing order, and, at the spot/perp engine, that cancels of stale
orders get through and that a spot order the strategy no longer tracks does not rest
for ever (weak fairness of its `Drop`): the code has nothing that would end it. An
exchange that is asked for reports goes on to have some.
`SnapshotSettles` also needs that strategies go on reading the account, which
their sizing does. The perp/perp loop is only assumed to poll (weakly) and to take
its events; that orders get stale and a recovery overdue is the passing of time.
Of the server of exchange commands nothing is assumed; the client is assumed to go
on, that is, not to block in the socket's `send`, which has no time-out. A stream
may fall silent for ever in three ways that the client does not notice, and
`ReportsKeepComing` excepts them: a login that is refused, an expired listen key whose
keep-alives are refused in another way than by a 410, and a connection that is dead
without either side being told (`HalfOpen`), since the supervisor reads without a
time-out (`supervisor.rs:121-165`). Such a connection may be noticed at any time
(`Noticed`), but that it is, is only assumed of Bybit's policy, which writes a ping
every 20 seconds, so that the kernel gives up on it: Binance's and Aster's keep-alives
are REST calls, and Binance's spot policy has none.

## 5. What is proved

TLAPS checks these for every value of the constants, from the named assumptions
of the modules alone. A module that is only instantiated brings its assumption along
as an ASSUME of the module that composes it. Every invariant that a passing run checks is the
subject of a theorem, and so is every action property. Three theorems have a hypothesis
besides: `FeedAlwaysLags` and `ImplementsFeed` need `EchoesCancel`, and
`StreamEventsAlwaysApplied` needs `WholeIds`.

The assumptions on constants ask what the code gives: natural bounds, capacities of at
least one, client ids that are not shared, a `NoOrder` that is no order. `TwoLegsAssumption`
also asks that a pair's target is at most `maxSize`, the bound on positions, which is
there for TLC and may be any number.

**Orders** (`OrderManagerProofs`, `OrderManagerRefinement`)

- `TypeCorrect`; `MapAlwaysMatches` (`client_id_map` holds exactly the tracked orders:
  inductive by itself, given the types and that client ids are not shared);
  `PublishedAlwaysTracked` (what was last published of a confirmed order is what the
  actor tracks; needs the types).
- `StreamEventsAlwaysApplied`: an event that the stream brings of a tracked order is
  published. It rests on the map, by which an event without an id is resolved; on
  `WholeIds`, that a decoded id is not cut; and on `TrackedOnce`: what a restart
  forgot is never tracked again, so that a step which empties the stream and forgets
  nothing new is not a restart. The run `order_manager_cut_ids` shows that `WholeIds`
  is needed.
- `FeedAlwaysLags` and `ImplementsFeed`, both assuming
  `EchoesCancel`, that a cancel's reply carries the exchange's own record
  (Binance, Aster). That the stream never goes back does not hold inductively:
  one has to know that the events still *waiting* in the stream are in order,
  between what was published and where the exchange is; that waiting cancel
  replies tell true ends; and that an order still being placed has no history.
  These are the four parts of `FeedInv`. Every step is shown to be a step of
  `OrderFeed` or a stutter.

**What keeps a process up to date** (`PriceManagerProofs`)

- `FetchingAlwaysTrue`, `WaitersAlwaysServed`. A result
  clears the mark of a key in the step that empties its waiting list, so the two
  are inductive together. `WaitersAlwaysGetFreshBooks` adds `OwedInv`: what a
  waiter is owed is no newer than the book, the result already read for it, and
  every update of its book in the stream.
- `BookIsAlwaysTheMarkets`: the local book catches up only when the last message is
  taken, so the invariant speaks of the messages still in the socket: there is a chain
  of books, from the policy's own to the exchange's, each of which the next message
  turns into the one after it (`Chained`); a socket that is not subscribed is empty
  (`Quiet`); and the last book that found room is what the price manager will have
  once its channel is empty (`LastGiven`). A snapshot closes whatever gap there was.
- `TypesCorrect`, of all four parts.

**Requests** (`AccountManagerProofs`)

- `CommandsAlwaysAnswered`, `SnapshotAlwaysAnnounced` and `AnswersAlwaysFresh`, along
  the argument of the price manager.
- `AnswersAlwaysTrue` for any number of retries and any window:
  the attempts share one client order id, and while the first attempt is the only
  one and on its way, nothing has been carried out (`DoneInv`), so its refusal is
  final; and `AlwaysStaleOnlyWhenLate`, since an attempt carries the time it is sent
  (`LateInv`).
- `NothingEverEndsEarly` for any size and all exchanges. The
  two mappers of an exchange may know different names, but what either takes for
  an end is one (`MappersTellEnds`), and an order does not change after the report
  of its end (`WireInv`). It is the safety part of `EndIsLearnt`.
- `TypesCorrect`, of all three parts.

**Processes** (`CommandSocketProofs`)

- `TypeCorrect` and `AnswersAlwaysLagBehindTimeouts`. What
  is in flight is in the order it was sent (`OrderInv`), only the holder of the
  mutex awaits an answer, that of the last command (`HolderInv`), and since every
  call that did not time out took one answer away, the oldest command in flight
  is at most `timeouts` behind (`BoundInv`).
- `ServicesAlwaysFound`: while a service has a heartbeat its lease is its own and
  lives at least as long as the beats that were missed leave it (`BeatsRenew`): the
  time left in the lease and the time since the last good beat add up to at least the
  time to live. For that a heartbeat must run exactly for what is registered
  (`BeatsServe`, `ServicesBeat`), only under a runner that is past the clearing of old
  keys (`ServerLater`), and in `--mode all` both sides must be of one process
  (`Together`).
- `StartsAlwaysOnOneProcess`: a strategy looks processes up in the order it connects
  to them, and their numbers only grow (`StartInv`); the calls before it trades fail
  on a process that is gone, so the two it ends up with are one.
- `TypesCorrect`, of all four parts; the channels of `EventPath` hold only events that
  were sent (`PathInv`).

**Strategies** (`TwoLegsProofs`, `PerpPerpPollerProofs`, `SpotPerpEngineProofs`)

- `TwoLegsProofs` states once what the shared operators return: a dispatch places
  orders of the given type and sizes on free slots and changes no other
  (`OnlyPlaces`), a cancel only ends orders (`OnlyEnds`), and what stays tracked can
  still report (`InUse`). The proofs about both strategies go through the handlers
  with these.
- `TypeCorrect`, `TrackedOrdersReport`, `ClosingTakesNoRisk` of both strategies. The
  last is a property of steps: the `Keeps` lemmas show of each handler, retry and
  continuation that what it opens while the pair closes is to close it.
- `SizesCatchUp` of perp/perp: the last update on its way, or without one the size the
  strategy has, is the position (`UpdatesEndAtPosition`).
- `HoldingAlwaysAccounted` of spot/perp: a fill, an event and a new order each move two
  terms of a sum over all slots. That the sum changes by just that is a lemma about
  finite sums, proved by well-founded induction over a *set* of numbers, which needs no
  operator parameter. Of a slot without an order nothing may be remembered
  (`FreeIsUntold`).

Proof attempts corrected the models three times. An unwind in three or more
chunks has a first one that rounds to no lots: the spot order placed then is of size
zero, so that `NoNewRiskWhileClosing` of spot/perp speaks of orders that buy; the run
now has such an unwind. Its strategy's own figures are not bounded by the positions, and
its types say so. And a command that `StrategyControl`'s channel has room for was cut
off beyond the end of the queue when the capacity is more than one, which the run's
capacity of one did not show.

**Only model-checked**: the liveness properties (`CacheSettles`, `SizeConverges`,
`StoreConverges`, `ReportsKeepComing`, `SnapshotSettles`, `EndIsLearnt`,
`EndedOrdersReleased`, `SubmissionsResolve`, `ClosingEnds`, `RecoveryEnds`, `ExitEnds`,
`CallsReturn`, `LastEventArrives`, `AcknowledgedPauseIsDone`): they need fairness and
ENABLED, which TLAPS has no support for here. The compositions' theorems are about
`AnyPart`, without its fairness. Two things could be proved next: what keeps
`SizeConverges` and `StoreConverges` true of each state (that a stale snapshot is
followed by what corrects it), and the rounding of orders once it is modelled.

## 6. Disagreements between the code and what is said of it

Shown by runs:

- `order_manager_cut_ids`: an internal id of more than 36 characters is cut to
  make the client id, and stream events are then looked up under the cut id:
  they are ignored until a reconciliation.
- `order_manager_lost_reply`: strategies take a Rejected event for "Rejected by
  exchange" (`arbitrage/types.rs:225`), but every failed call publishes one for an order
  that is still pending, though the exchange may have the order on its book: it took it
  before the call ended, and the answer was lost or unreadable, or after the client's
  time-out, before the failure was handled. The order then rests and fills unseen.
  (Either of the two is TLC's trace.)
- `perp_perp_reentry`: after an emergency whose exit was refused, the end of a
  cancelled entry order submits a new entry order although the strategy is paused.
- `spot_perp_quantity`: a spot order cancelled after a partial fill leaves
  `last_spot_partial_fill` behind, which is taken off the next order's fill: the
  quantity is not the one held. In the trace the sale of the one unit held counts as
  two. (That a `PartiallyFilled` event may be missing altogether, which leaves its fill
  out, is another matter: here every event is handled.)
- `perp_perp_inactive`: an entry order whose end is handled before its position
  can leave the pair Inactive with one leg open.

Met while modelling, in the models, not the subject of a run: a cancel reply of
Bybit carries a filled size of zero (`bybit/client.rs:961`; `EchoesCancel = FALSE`);
a refresh or reconciliation joins a fetch older than itself (`price.rs:331`,
`account.rs:269`), so the freshness properties except that case; a REST book
may replace a newer one (`price.rs:298`); after a call over the command socket
timed out, later calls are given the answers of earlier ones if they are of the
same kind (`client.rs:84`; a submission is then told of another order); without a position stream a size never
changes (`position.rs:251`; `missed`), and a REST sync is silent
towards subscribers; a strategy's poll takes a missing position for no answer
(`poller.rs:409`); a continuation places orders while paused (`poller.rs:446`);
`ForceExit` leaves the recovery clock running (`poller.rs:326`); a lost cancel
lets two generations of rebalance orders rest (`execution.rs:250`); an entry with
one leg resting has no clock (`poller.rs:201`).

And, in the parts added since: a forwarder that lags once ends for good
(`runner.rs:304`). In `--mode all`, main may look for the
services before the runner has cleared the stale keys that would lead it to dead
endpoints (`runner.rs:224`). A runner
without a swap among its instruments has no funding task to wait for and ends at
once (`runner.rs:351`). The engine's `Pause` does not publish the new status
(`engine.rs:185`), while `strategy_server.rs:43` answers from the published one;
`AcknowledgedPauseIsDone` is therefore about the pause, not about what is shown, nor
about an exit, which is acknowledged and may be ignored (`engine.rs:157`), although an
`Ack` says that the command "will be acted upon" (`protocol.rs:144`). A
keep-alive of a listen key refused with a 401 does not reconnect the stream: the
policy looks for the number in a text that reads "unauthorized"
(`binance/ws.rs:234`). A failed Bybit login is logged with "supervisor will
reconnect" (`bybit/ws.rs:410`), but the supervisor only logs such errors and reads
on (`supervisor.rs:142`). Where a policy has no heartbeat of its own, the supervisor
counts on "native ping/pong" (`supervisor.rs:118`), which answers the exchange's pings
but sends none; the listen key's heartbeats go over REST. A dead connection is not
looked for. A handshake that fails is tried again at once, without
back-off and without a look at the cancellation (`supervisor.rs:109`). A duplicate
refused after a retry is told to the caller as an error although the order was
placed (`"duplicate"` in `RestClient`). Binance's spot stream gives the price of the
last fill as the average (`binance/mappers.rs:303`). Of the
strategy of an id, the codec says it is None for ids not generated by this bot,
while any id with a first segment has one (`binance/codec.rs:35`).

## 7. Not modelled

Pre-trade checks beyond accept or refuse, rounding of prices, and of sizes other
than a chunk's: they
change no state, and are planned as operators (section 2, step 12). Prices, rates,
depth quantities, fees and margin arithmetic; entry prices and profits of
positions: the control of the strategies is open to whatever they decide. Signing,
message formats and configuration: pure conversions. The wizard, probe, doctor and
manual strategy: interactive input and output without lasting state. The mock
exchange and the fixtures: test support. Of the perp/perp strategy, the loss of
order updates and a start with open positions. A heartbeat that hangs at Redis instead
of failing. Of the streams, back-off times and
the cancellation, which nothing in the repository asks for while a process runs.
Ids of orders in `OrderReports`, which are those of `OrderManager`'s `ClientIdOf`;
whether an exchange reports a cancelled order under another client id cannot be
told from the repository.
