# LegendServer: a formal model

LegendServer is a C++17/Lua game server: a reactor with one event loop per
thread, a gateway that accepts clients, a worker pool, pools of MySQL and Redis
connections, a session table, and game modules (login, roles, teams, friends,
chat, battles, scenes). This directory holds TLA+ modules that model it,
TLC configurations that check them on small instances, and TLAPS proofs for all
instances. `PROJECT.json` lists the components, the runs, the source lines each
definition models, one mutant per property, the hazards, and the theorems.
Paths below are relative to the repository's `src/`.

    tlc -workers 2 -config TimerManager.cfg TimerManager    # a run
    tlapm TimerManagerProofs.tla                            # the proofs

## The system

| Part | State it keeps | Operations | Talks to |
|---|---|---|---|
| `ThreadPool`, `TaskQueue`, `Thread` (`common/thread`) | queue of tasks, workers, two counters, `started_`, `stopped_` | `start stop wait execute submit`, the worker loop | blocks on a condition variable; `Server` starts and stops it |
| `EventLoop`, `EpollPoller` (`core/reactor`) | functors, `quit_`, `callingPendingFunctors_`, eventfd | `loop runInLoop queueInLoop quit wakeup` | other threads post functors, signal handlers call `quit()` |
| `TimerManager`, `Timer` (`common/timer`) | two sets of timers, the batch, `cancelingTimers_` | `addTimer cancel processExpiredTimers` | called by the loop, and by callbacks from inside its own batch |
| `TimerWheel` (`common/timer`) | slots, the map of ids, the current slot | `addTimer cancel tick` | callbacks run under its lock |
| `Buffer` (`common/base`) | array, reader and writer index | `append retrieve prepend readFd shrink` | one connection |
| `BufferStream` (`common/network`) | a view of a buffer | typed reads and writes | one message body |
| `Connection`, `Channel` (`common/network`, `core/reactor`) | `state_`, output buffer, registered events, functors | `send shutdown forceClose forceCloseWithDelay`, `handleRead/Write/Close/Error` | any thread calls it, the loop thread works |
| `DefaultCodec`, `LengthFieldCodec` (`core/message`) | none of their own: they consume the input buffer | `encode decode getMessageLength` | the bytes that have arrived so far |
| `MessageQueue` (`core/message`) | queue, `stopped_` | `push pop popAll stop reset` | threads wait in a condition variable |
| `GatewayServer` (`gateway`) | `connections_`, the listening channel | `start stop onNewConnection onConnectionClosed` | owns the connections, callbacks run in the loop |
| `Server` (`core/server`) | `running_`, two listening sockets, the worker pool | `init start stop` | the descriptors of the process |
| `SessionManager` (`core/session`) | table of sessions, index by player and by role | `create/removeSession`, `bind/unbindPlayer`, `bind/unbindRole`, lookups | all game modules, under one mutex |
| `SessionPool`, `LoginModule` (`core/session`, `game/modules/login`) | pooled sessions; tokens and the online set in Redis | `acquire release`, `handleLogin handleLogout verifyToken` | several Redis commands per request |
| `MySQLConnectionPool`, `RedisPool` (`database`) | idle connections, all connections, `running_` | `init get/returnConnection checkConnections close` | clients wait in a condition variable with a timeout |
| `MySQLConnection`, `QueryBuilder` (`database`) | `connected_`, `inTransaction_`; clauses, data and parameters | `connect execute begin/commit/rollback`; `where set build reset` | the session of the server, which it may drop |
| `RedisClient` (`database/redis`) | the context; MULTI and subscriptions live in the server | one wrapper per command | is lent out by `RedisPool` |
| `EntityManager`, `RoleManager`, `RoleEntity` (`database/orm`, `game/modules/role`) | caches by id and by name, dirty fields, one static of the SQL builder | `createRole getRole saveRole deleteRole cacheRole uncacheRole` | the table of roles, several threads |
| `TeamModule`, `FriendModule` (`game/modules`) | caches next to database tables | handlers of client requests | statements, one at a time, then the cache |
| `Scene`, `SceneManager`, `AOI` (`game/scene`) | roles, positions, cells, the scene of each role | `create/destroyScene enter leave move getAroundRoles` | one mutex for the manager; a scene has none |

What is hard in it: threads that hand work to a loop or a worker that may be
falling asleep; `state_`, `quit_` and the counters of the pool, which are read
and written in several steps without a lock; callbacks that re-enter the object
that calls them (timers, connections); partial writes, resets, SIGPIPE and
messages that arrive in pieces; condition variables with timeouts and spurious
wakeups; database links that break inside a transaction; caches that are filled
after the statement whose answer they hold; pooled objects with a previous
life; objects that are deleted while functors or ids still name them.

## The modules

**ThreadPool** (`ThreadPoolProofs`). Each method of `TaskQueue` is one critical
section and so one action; `waiting` is the set of workers blocked in
`notEmpty_`. The worker loop is cut where another thread can come in: after
`pop()`, at `++activeWorkers_`, `--idleWorkers_`, around the task. `start()` and
`stop()` go through the workers one by one, `pthread_create` may fail, wakeups
may be spurious, and the counters have a width (`UIntMod`). Abstracted: what
tasks do; futures of `submit()`.

**EventLoop** (`EventLoopProofs`). The loop thread's program counter, the queue
and the batch of functors, the eventfd counter, and a poster that has queued
its functor but not yet called `wakeup()`. Callbacks of channels, functors and
timers post functors; `quit()` comes from a thread, a callback or a signal that
arrives between the test of `quit_` and `epoll_wait()`.

**TimerManager** (`TimerManagerProofs`). A heap of addresses that `delete` frees
and `new` hands out again, so that a `TimerId` (address and sequence number) can
be stale. `addTimer()` and `cancel()` happen between rounds and inside the
callbacks of a batch. The clock only goes forward (`nowMs()` is
the system clock; setting it back is not modelled).

**TimerWheel**. Slots of timers with the rounds they still have to wait, and the
tick that runs the due ones under the wheel's own lock, so that a callback that
calls the wheel stops it for good (`stuck`). The reference is a count of ticks:
`RunsOnTime` compares the tick a timer runs in with its timeout.

**Buffer** and **ByteQueue** (`BufferProofs`). The array with its two indexes,
including the overlapping move, the resize, the spill of `readFd()` into
`extrabuf`, and `shrink()`. ByteQueue is the abstract specification: a queue of
bytes that can also be given bytes at its front.

**BufferStream**. Typed items written and read back by their width. A string is
a length modulo `LengthBase` (2^16 in the code) and its bytes, and `readInt8()`
takes the two bytes it really takes; `ReadsBack` names these two cases.

**Connection** (`ConnectionProofs`). One connection: the phases of its loop
(poll, events, functors, timers), `Channel::handleEventWithGuard()`, the
functors that other threads queue, and a socket that takes part of a write, is
reset, or is broken (then a write may raise SIGPIPE). A thread that calls
`shutdown()` or `forceClose()` reads `state_`, sets it, and queues its functor in
three steps. Bytes are pairs of a message and an index. A user holds a
reference throughout. External: the kernel and the peer.

**Codec**. The stream that `encode()` lays out, cut at any byte by the network, and
what `decode()` of either codec consumes of it. A body is arbitrary bytes: `magics`
are the places inside messages that read as magic number and version, and what a
message class reads of its body is left open (`DecodeMisread`), as the repository has
no such class. A message whose body has not arrived loses its header and as many
bytes again (`codec.h:73`); the places a decoder can land in from there are part of
the model. LengthFieldCodec also loses messages that are whole: its length field
counts the 13 bytes of the header of the other codec, its `decode()` has read 8
(`codec.h:117`, `:137`), so that a message with fewer than 5 bytes behind it is taken
for an incomplete one. Two histories tell the cases apart: `torn` (a message was
cut, unknown or not read back, or `getMessageLength()` ate a header) and `lost` (whole
messages that were given up). The properties say what still holds: DefaultCodec
gives up no whole message, and what was read is what was returned until something
is torn or lost; and in every state a sent message is returned at most once, in
order, and something nobody sent by DefaultCodec only out of its place and where a
message has the magic number inside.

**MessageQueue**. `push()` with its `notify_one`, `pop()` with and without a timeout, the
bulk pop, `stop()` and `reset()`; a woken popper and a newcomer compete for the
lock.

**Gateway**. Which of `connections_`, the local pointer and the functors keep a
connection alive, through accepting, establishing, closing and `stop()`.

**Server**. The two sockets of `start()` with every early return, and the numbers of
descriptors, which the process hands to others as soon as they are closed.
`stop()` closes what `gatewayFd_` and `gameFd_` say only if `running_`.

**SessionManager** and **PlayerRegistry** (`SessionManagerProofs`). Every method
holds `mutex_` throughout and is one action; refused calls change nothing.
PlayerRegistry is the abstract specification, implemented twice: by players
and by roles.

**Login**. Login and logout cut at their Redis commands, tokens that expire,
and sessions that go back to the pool and are acquired for another client. A
session that was released while a request still used it is marked in `overlap`.

**ConnectionPool** (`DatabaseProofs`). Both pools are the same machine.
`getConnection()` is one action from its entry or wakeup to its return or next
wait; links break at any time, `ping()`, the reconnect and the creation of a
connection may fail, waits time out.

**MySQLConnection**. One connection, and in the server a session with its autocommit mode
and its open transaction. The session is lost at any time; a commit may fail.
What the wrapper reported is compared with what is durable.

**Redis**. What each wrapper makes of its reply in each mode of the connection
(plain, inside MULTI, subscribed), and loans of one client to several borrowers.

**QueryBuilder**. The placeholders of the statement against the parameters, through
every series of clauses, builds and resets. Column names and values are
abstract: only the order matters.

**Roles**. The table of roles, the cache of `EntityManager` and the one of
`RoleManager`, and role objects that several threads share by reference. Every
method is cut at its statement and at its locks: read the row, then fill the
cache; build the SQL, execute, `clearDirty()`. The process may crash and start again
between any two steps. `raced` and `late` name the objects and fills that a race
has touched, so that the invariants are exact about everything else.

**Team**, **Friend**. Handlers cut at their statements, with statements that fail,
and the caches beside the tables.

**Scene** (`GameProofs`). The manager, its scenes and the AOI of each. All three
maps of a scene and its cells are kept apart, as the branches of `enter()`,
`leave()` and `move()` change them separately. `leaveScene()` of a role that is in a scene
is an action that leaves the manager locked for ever (`stuck`).

**MCGame** (`GameProofs`) and **MCDatabase** (`DatabaseProofs`) put the small components into two runs. The components of a run share
no variable, so no interleaving between them can matter; a behaviour follows the
one that `focus` names, and the state counts add up instead of multiplying. Each component
keeps its own `Init` and `Next`. In MCDatabase a view leaves out the fields of role
objects that nobody refers to any more. Roles of a scene, poppers and threads are
interchangeable, hence the symmetry sets; no run with symmetry checks
liveness.

## The runs

| Run | Bounds | Shows |
|---|---|---|
| ThreadPool | 3 tasks, 2 workers (3 asked for), 1 failed `pthread_create` | no worker sleeps beside a queued task that nobody is on the way to take; after `stop()` nothing runs; while the pool is up queued tasks are served; `stop()` returns |
| SessionManager | 2 players, 2 roles, 3 sessions | lookups agree with the sessions, the registry of players is implemented |
| ConnectionPool | 4 clients, 2 to 3 connections, 4 created | one user per connection, no wakeup lost, `getConnection()` returns |
| EventLoop | 3 functors | the loop never sleeps on posted work (but for timers, see below), functors run once and in order, posted functors run, `quit()` ends the loop |
| Buffer | 2 byte values, array of 3 to 8 cells, chunks up to 3 | the queue of bytes is implemented |
| Connection | 1 other thread, 3 calls, messages of 2 bytes, high water 3 | whole messages in order, FIN after the bytes, shutdown completes |
| TimerManager | 3 timers, 2 addresses, 3 ms, intervals up to 2 | sets and heap agree, cancel is final, stale ids are harmless, no bursts, no timer waits for ever |
| Game | scenes: 2 roles, 2 scenes of 5 by 3 with cells of 2, 3 positions, one beyond the border; codecs: 3 messages with bodies up to 2, at most one place that reads as a header by accident; queue: 3 poppers, 3 messages; wheel: 3 slots of 2 ms, 2 timers, 10 ticks; streams: 3 items; server: 3 descriptors, 4 starts | cells agree with positions, neighbours are seen; decoding is exact until a message is torn or (LengthFieldCodec) lost, every message is returned at most once and in order, and DefaultCodec returns what was not sent only where a body reads as a header; no popper sleeps on work; wheel timers run in their tick; reads give back what was written; the server closes its own sockets only |
| Database | roles: 2 threads, 1 account, 2 roles, 2 objects; builder: 2 columns, 3 parameters; connection: 3 updates; Redis: 1 client, 3 loans; login: 2 accounts, 2 tokens, 2 sessions, pool of 1; team: 3 roles, limit 1; friends: 2 roles | caches serve what is in the table and no change of a role is forgotten, but for the named races; parameters match placeholders; what was reported committed is, no command crosses loans, true means done; logout revokes, sessions keep no stranger; teams overfill by overlap only; cached friends are stored |
| Gateway | 2 clients | violation: a connection is destroyed while connected |
| Scene_leave | as Game | violation: `leaveScene()` of a role in a scene never returns |
| Roles_save | as Database | violation: the second UPDATE of the process stores nothing |

Why the bounds are enough: two workers and three tasks let one worker sleep
while the other takes a task and a third is submitted; three sessions let a
player move twice; four clients and three connections give two holders, a
waiter and a late comer beside a broken link; three functors let a batch, the
queue and a poster hold one each; three timers on two addresses force an
address to be reused while an id of its first owner is around; three calls let
a partial write, a second send and a shutdown meet. Chunks of three in an array
of eight reach every branch of `makeSpace()` and `readFd()`. Positions on both
sides of a cell border and one outside give a clamped cell, a neighbour across the
border and a cell at the end of a row. Three messages are one that is torn, one
that is landed in, and one after it. The timeouts of the wheel are less than a
tick, less than a turn, exactly a turn, and exactly two turns (13 ms are six ticks). Three
descriptors are the two of the server and one that another thread is given in
their place. Two threads are the smallest race on a cache, two accounts and a
pool of one let a session change its player, and three loans let a MULTI be
left, found and ended. With a limit of one member the INSERT that follows a
created team and a join that has counted nobody overlap at the limit, and three
roles leave room for one more than that.

Every property has a mutant in `PROJECT.json`: a plausible bug of the code,
defined next to the definition it replaces, that makes TLC report the property.

### Fairness

* ThreadPool: the owner and every started worker are scheduled (weak
  fairness); callers, `wait()` and spurious wakeups are not.
* ConnectionPool: a woken client goes on, and a timed wait ends.
* EventLoop: the loop thread goes on; `poll()` has a timeout of ten seconds, so
  weak fairness of its return is what the code gives.
* Connection: the loop goes round and the other threads go on. Strong fairness
  stands for the kernel and the peer: a writable socket is reported and takes
  bytes again and again, a failed one is reported, a due timer is seen. Without
  a peer that reads, `shutdown()` need not complete.
* TimerManager: the loop comes round, callbacks return, time passes.
* SessionManager, Buffer, Gateway and the components of MCGame and MCDatabase
  state no liveness: their methods end by themselves, and what they promise is
  what their state says between calls.

Deadlock is not checked in five runs whose systems may stop: the event loop
after `quit()`, the connection after SIGPIPE ends the process, the session
table when the bound on sessions is used up, and the components of Game and
Database when their bounds are used up, or, for a scene manager and a wheel,
when a thread waits for the mutex it holds.

## The proofs

Every invariant and every action property that a passing run checks is also a
theorem, for all values of the constants that satisfy the named assumptions of
the modules. These are natural bounds, positive sizes, sentinels that are not
members, and finite sets of threads and poppers where members are counted; those
of the components of Game and Database are stated in MCGame and MCDatabase, which
instance them. The theorems are listed in `PROJECT.json`.

* **ThreadPoolProofs**: types, ownership of tasks (`TaskOwnedOnce`), no lost
  wakeup, exact count of active workers (`ActiveExact`), silence after `stop()`,
  and what `wait()` saw (`WaitDrainsQueue`). The
  invariants come in layers: `Types`; `Phases` (how `started_`, the loops of
  `start()`/`stop()` and the workers correspond); `Places` (a worker holds a task
  exactly between `pop()` and the end of the call); `Queued`; then the two facts
  that count workers, which need cardinalities of finite sets.
* **SessionManagerProofs**: types, agreement of lookups, stability of bindings
  (`BindingStable`), and both refinements (`ImplementsPlayers`, `ImplementsRoles`). The
  inductive form of `LookupAgrees` is that the entry of a live session's id
  points back at the session.
* **EventLoopProofs**: types, no sleep on posted work, run order. The queue,
  the batch and what ran are always a partition of what was posted, in order.
* **BufferProofs**: `TypeOK` is inductive alone; the refinement rests on lemmas
  about windows of an array, the overlapping move being the hardest; growth is
  proportional to the contents (`GrowsProportionally`).
* **ConnectionProofs**: the write event (`WritingExact`), the FIN, and the stream.
  `shutdownInLoop()` asks the event whether the buffer is empty, so `WritingExact`
  and `FinAfterData` are inductive only together. `StreamIntact` is inductive only
  with what feeds the stream (`StreamInv`): a message goes from its thread to
  `pendingFunctors_`, to the batch of the round and to the stream; `Pipeline` says
  that at no stage one overtakes another of its thread, and `BatchDone` that a batch
  is used up before the next one is taken. `sendInLoop()` then appends a
  whole message or nothing, and `handleWrite()` moves the border between what is on
  the wire and what is in the buffer.
* **TimerManagerProofs**: types, ownership, finality of `cancel()`, harmless
  stale ids, spacing. The strengthening says that the sequence number stored at
  an address was issued for that address (`Issued`), that a cancelled timer of
  the batch is in `cancelingTimers_` (`BatchKept`), and that what waits expires
  an interval after its last run (`Apart`).
* **GameProofs**, one section per component of MCGame:
  * Scene: types, agreement of the cells with the positions, and that two
    roles no further apart than a cell see each other, for every size of scene
    and cell and all natural coordinates. The arithmetic comes first: row and column are found again in the
    index of a cell, and clamping at the border keeps neighbours adjacent.
    The inductive invariant says, per scene, that the maps agree, that a role is
    listed in the cell where it is, that every listed cell is inside `grids_`, and
    that a second listing comes only from a second `enter()`; visibility follows from
    it in any state.
  * Codec: `IntactWhileWhole` and `DecodedWereSent`. The places where messages end are
    a recursive function, about which monotonicity is proved by induction first.
    What was returned begins in front of the read position (`Behind`), so that a
    decoder that has lost its place cannot return a message again; while nothing is
    torn or lost the read position is the end of the last message returned (`InStep`);
    DefaultCodec, which compares the magic number, loses no whole message (`Compared`).
  * MessageQueue: while somebody sleeps the woken poppers are at least as many as the
    messages (`WokenCover`), by counting finite sets.
  * TimerWheel: the rounds of a timer times the size of the wheel, plus the way to its
    slot, are the ticks it has left (`OnSchedule`); the rest is arithmetic with
    remainders.
  * BufferStream: the unread items lie in the buffer one after the other (`Unread`, with
    a `Layout` of offsets), unless one of the two named cases came before.
  * Server: a running server knows two descriptors of its own (`ServerInv`).
* **DatabaseProofs**, the pools and one section per component of MCDatabase:
  * ConnectionPool: types, exclusive use, accounting (`Accounted`), no lost
    wakeup, from `Phases` (who can be inside in which phase) and `Known` (every
    pooled or held connection was created, so a new number is fresh).
  * Roles: `CacheCoherent` and `NoSilentLoss` together, with what the next step of each thread
    relies on (`OpsSound`), that what is referred to exists (`NoDangling`), that the name
    of an id never changes (`NamesFixed`) and that a cached object has the id it
    is cached under (`CachedUnderId`).
  * QueryBuilder: until the first build the parameters are those of the one condition
    (`OneClause`).
  * MySQLConnection: what was acknowledged in a live transaction is open, kept or
    excused (`AckedIsOpen`), and a session that does not commit by itself is noted
    (`CommitsOutside`).
  * Redis: both properties are inductive once the loans are numbers.
  * Login: no token is given out twice (`TokensDiffer`), one that is about to be stored
    is in no session (`UnstoredIsNew`), and a login holds its session or the overlap is
    on record (`LoginsHoldSessions`).
  * Team: the members and those about to join are bounded together (`OverfullBound`);
    the limit alone is not inductive.
  * Friend: a pair about to be cached is in the table or in doubt (`AddedOrUnsure`).

In both modules `RunHasComponents` shows that the composed specification of the run
implements the specification of each component, and `RunIsSafe` draws the conclusion
for the run.

Some invariants are stated by theorems only, without a run of their own: the type
invariants, `TaskOwnedOnce`, `ActiveExact`, `WaitDrainsQueue`, `BindingStable`,
`ImplementsRoles`, `Accounted`, `GrowsProportionally` and `WritingExact`.

Only model-checked: all liveness properties (fairness and ENABLED are outside
the prover), and that the three violation runs reach a violation. Induction over data is done with sets: the
library's induction theorems take an operator, which the installed provers cannot
instantiate, so `InductiveSet` (`GameProofs`) derives the principle for a set of
natural numbers from well-foundedness, and what a recursive function computes is proved
with it.

## Where the code and its documentation disagree

Each violation run has a finding that quotes the line it contradicts:

* Gateway: the callback that removes a closed connection is also called when the
  connection is established, and the connection is destroyed while it is
  connected, against the assertion in `~Connection()` (`connection.cpp:40`).
* Scene_leave: `leaveScene()` locks `mutex_` and calls `getScene()`, which locks it
  again; the role never leaves (`scene_manager.h:38`).
* Roles_save: the comma between assignments depends on a static local, so only
  the first UPDATE of a process can be prepared (`entity_manager.h:49`).

Also met while modelling, without a run.

Threads, loop and connections:

* `wait()` returns while a worker holds a task it has popped (`thread_pool.h:42`).
* `idleWorkers_` wraps below zero: it starts at 0 and a worker decrements it
  before its first task and increments it after (`thread_pool.cpp:102`).
* `join()` of a thread whose `pthread_create` failed runs into its assertion.
* A pool that was stopped and started again serves nothing: the queue stays
  stopped.
* A `quit()` before `loop()` is overwritten (`event_loop.h:37`).
* A functor that a timer callback posts waits for the next return of `poll()`,
  up to ten seconds; so does a timer on an idle loop, as nothing calls
  `getNextExpiration()`. The README promises a latency below 1 ms.
* `runAt()` and `cancel()` change the set of timers from any thread without a lock
  (`event_loop.cpp:108`).
* `shutdown()` in another thread can write `kDisconnecting` over `kDisconnected`
  (`connection.cpp:80`); a later `forceClose()` then runs `handleClose()` again.
* `send()` then `shutdown()` from another thread: `handleWrite()` may send the
  FIN between the two functors, and the message is dropped.
* `Channel::tie()` is never called, and functors capture a bare `this`
  (`connection.cpp:53`).
* `cancel()` of a timer that is in the current batch and has not run yet does
  not keep it from running; `runEvery()` below a millisecond runs once.
* A callback of the wheel runs under `mutex_` and waits for itself when it calls the
  wheel (`timer_wheel.cpp:79`).
* A `start()` that fails leaves the numbers of closed descriptors in the object
  (`server.cpp:80`, `:93`); the thread pool is left to the destructor.

Messages:

* `decode()` of a partial message loses its place in both codecs (`codec.h:73`, `:137`).
* LengthFieldCodec writes 13 plus the body into its length field and has a prefix of 8
  bytes (`codec.h:117`, `:137`): a whole message with fewer than 5 bytes behind it is
  taken for an incomplete one and lost.
* A DefaultCodec that has lost its place may take bytes of a body for a header
  (`message.cpp:27`).
* `readInt8()` takes two bytes (`buffer_stream.h:26`), and the length of a string is cut to 16
  bits (`:186`).

Databases:

* A client that waits in `getConnection()` when `close()` wakes it may create a
  connection in the closed pool; connections that cannot be reopened are lost to
  the pool (`mysql_connection_pool.h:43`); `checkConnections()` pings connections that
  other threads are using (`mysql_connection_pool.cpp:91`).
* `inTransaction_` survives `disconnect()`, and the result of `autocommit(1)` is
  ignored (`mysql_connection.cpp:186`, `:360`).
* A prepared SELECT gives no rows: its result holds the metadata only
  (`mysql_statement.cpp:134`).
* An UPDATE with a condition hands out its parameters in the wrong order: those
  of the condition are stored first, those of the data at the build
  (`query_builder.cpp:166`).
* The `ping()` of a Redis client is never true (`redis_client.cpp:433`), so every loan
  reconnects; only that keeps a MULTI from crossing loans.
* `RedisReply` frees its children twice (`redis_client.cpp:87`); `zscore()` and
  `verifyToken()` throw on an empty reply.

Game:

* `isPlayerOnline()` stays true without a session after a player was bound again
  (`session_manager.h:62`); `SessionPool::release()` keeps `connection_`
  (`session_pool.cpp:32`).
* The cache of `RoleManager` is not told of deleted roles.
* A role that enters a second scene stays in the first (`scene_manager.cpp:58`); positions
  with negative coordinates get a cell of an earlier row, or an index outside the
  cells (`aoi.cpp:102`).
* A leader whose successor cannot be read dissolves a team that has members
  (`team_module.cpp:120`).
* Nothing fills `TeamManager`, so leaving and kicking are always refused, and a
  join counts and inserts in two statements (`team_module.cpp:82`).
* A role that befriends itself is cached though its INSERT of the same pair twice
  fails (`friend_module.cpp:41`); `getFriends()` returns a reference after unlocking
  (`friend_manager.cpp:45`).
* `worldMessages_` of the chat is changed without its lock (`chat_module.cpp:40`).

## Not modelled

`PROJECT.json` gives the reason per component.

* AES, MD5 and random numbers: numeric algorithms on blocks, better served by
  test vectors.
* The Lua engine: a wrapper of the interpreter, with its stack discipline.
* ServerConfig and `main()`: parsing; the signal handler is in EventLoop.
* Socket and Address: thin wrappers of system calls; those that matter are
  actions of Connection, Gateway and Server.
* MessageDispatcher, MessageRouter, GameServer, ClientConnection: tables filled
  at the start, and calls that are forwarded.
* Chat: its hard part is a data race on a vector, which has no outcomes to
  enumerate. Battle: the body of a round is empty in the source.
* Inside modelled components: `PriorityTaskQueue` and `Semaphore`, which nothing
  uses; session ids that handlers set without `SessionManager` (`login_module.cpp:80`, in
  Login; `role_module.cpp:141`, nowhere); the input buffer of a connection; accounts and role attributes, which
  have the shape of roles or are written once; binding and fetching of SQL values;
  the bodies of messages.
