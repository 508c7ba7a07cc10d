# cloRedis in TLA+

cloRedis is a C++ client library for Redis: a `RedisManager` keeps one connection
pool for each database of a master and of its slaves, a `RedisConnection` handle
borrows a connection from a pool and gives it back when it goes out of scope, and
hiredis (vendored under `src/src/hiredis`) talks to the server. The modules here
model what the library does with its state, and with the state it shares between
threads; TLC checks them on small instances and TLAPS proves the results that
matter most for every instance.

Paths below are relative to `src/src`.

## The system

| part | source | state | operations | interacts through |
|---|---|---|---|---|
| connection pool | `internal/connection_pool.h` | idle list, memory pool, `active_cnt_`, two times per item, options | `Get`, `GetNewInstance`, `Gc`, `Put` | called by the manager (`Get`) and by handles (`Put`, with the result of the last command); calls `init_handler_`, which connects |
| idle list | same file, `IdleList` | a doubly linked list with a count | `PushFront`, `PopFront`, `PopBack`, destructor | used under the mutex of the pool |
| connection | `connection.cc`, `RedisConnectionImpl` | hiredis context, pool it belongs to, last reply and error state | `Init`, `Connect`, `Do`, `Done` | built and destroyed by a pool, used through one handle |
| handle | `connection.cc`, `RedisConnection` | `impl_` | construct, assign, move, `->`, destroy | moves connections between application and pools |
| reply object | `reply.cc` | `reply_`, `reclaim_`, error state and text | `Update`, moves, `operator[]`, conversions | base class of the connection; views of it are handed to the application |
| manager | `cloredis.cc` | addresses, tables `master_` and `slave_`, `inited_` | `Init`, `InitEx`, `Get`, `Flush`, destructor, counting functions | creates and deletes pools; has no lock |
| singleton | `internal/singleton.h` | `ponce_`, `value_` | `instance`, `Destroy` at exit | creates and deletes the manager |
| reply parser | `hiredis/read.c` | buffer and cursor, stack of nine tasks, partial reply, error | `redisReaderFeed`, `redisReaderGetReply` | fed by `redisBufferRead`, drained by `redisGetReply` |
| blocking context | `hiredis/hiredis.c` | descriptor, output buffer, reader, error, flags | connect, reconnect, format and append a command, write, read, get a reply, free | used by `RedisConnectionImpl::Do` |
| asynchronous context | `hiredis/async.c` | callback queue, two dictionaries of subscriptions, flags | commands, read and write events, disconnect, free | calls back into the application, which may call it again |
| sockets | `hiredis/net.c` | file descriptor, what to reconnect with | connect to each address of a host or to a path, with a timeout and a source address | system calls; called by the contexts |
| containers | `hiredis/dict.c`, `hiredis/sds.c` | hash table, string | the usual ones | a context keeps its subscriptions and its output in them |
| log | `internal/log.cc` | level | `cLog` | prints |

What is hard about them, and what makes them correct:

* **Pool.** Threads share it. `Get` tests `active_cnt_` without a lock, drops the
  lock around `Gc` in two loops, and `Gc` recycles memory before it subtracts.
  Correct means: one owner for each connection, none lost on any failing path,
  counters that tell the truth, limits that hold, calls that return.
* **Connections and handles.** The order of AUTH, SELECT and the test of the last
  reply decides what goes back into a pool. Correct means: one handle for each
  connection, only healthy and authenticated connections in a pool, in the database
  of that pool, none forgotten.
* **Manager.** Lazy creation of pools without a lock, and pointers left behind by
  `Flush`. Correct means: no invalid pointer is used, one pool for each place, the
  right server behind it, counts that are right, nothing left at exit.
* **Parser.** A reply may arrive in pieces of any size and nest to any depth, and
  any allocation may fail in the middle of one. Correct means: the replies sent are
  the replies handed out, no index leaves its array, no error is forgotten.
* **Blocking context and sockets.** A connect has a dozen ways to fail, with and
  without a descriptor; a read or a write may end after any byte; a descriptor closed
  for a reconnect may be somebody else's by the time it is used (or closed once more:
  the model takes that way, and no property forbids it). Correct means: the
  reply returned is the one that is due, a failure leaves an error, no descriptor is
  leaked or mistaken, calls end.
* **Asynchronous context.** Callbacks issue commands, disconnect or free while the
  function that called them is in a loop over the replies; three queues of callbacks
  have to stay aligned with one stream of replies and messages. Correct means: a
  callback gets the answer to its own command, once, also when the connection ends;
  a subscription is heard for as long as it lasts; a disconnect happens.

`PROJECT.json` lists the hazards line by line with the properties aimed at them.

## The modules

| module | what it is | uses |
|---|---|---|
| `PoolContract` | what a pool promises: the life cycle of a connection and two limits | |
| `ConnectionPool` | the pool with its locks, counters, times and threads | `PoolContract` as the specification it refines |
| `ConnectionPoolProofs` | theorems about it; it implements `PoolContract` | `ConnectionPool` |
| `RedisConnection` | handles and connection objects over pools that behave as the contract allows | |
| `RedisConnectionProofs` | theorems about it | `RedisConnection` |
| `RedisManager` | the manager, its tables and the creation of pools over pairs of counters | |
| `RedisManagerProofs` | theorems about it | `RedisManager`, `Induction` |
| `RespReader` | the reply parser | |
| `RespReaderProofs` | theorems about it | `RespReader`, `Induction` |
| `Sds` | the strings of hiredis, as far as a buffer uses them: headers, room, append, range | |
| `Dict` | the hash table of hiredis: chains, growth, replace, delete | |
| `ContainersProofs` | theorems about both | `Sds`, `Dict`, `Induction` |
| `RedisContext` | a context and its descriptor: connect, reconnect, buffers, blocking calls, free | `Sds` for the output buffer |
| `RedisAsync` | the asynchronous API over a context: events, callbacks, subscriptions, monitors | `RedisContext`, `Dict` |
| `RedisAsyncProofs` | theorems about both kinds of context: descriptors, errors, the output buffer, the order of replies, types, subscriptions | `RedisAsync`, `ContainersProofs`, `Induction` |
| `RedisAnswersProofs` | theorems about callbacks: where they wait, which replies on their way are for which, how often they run | `RedisAsyncProofs` |
| `Induction` | induction over numbers, finite sets and sequences; sums, sequences put together, and folds | |
| `MC...` | instances for TLC | |

Definitions named `Bug...` are mutated forms that show a property can fail. No
specification uses them.

### ConnectionPool

A thread is at one of the points of `Get`, `Put` or `Gc` (`pc`), holds at most
one block (`cur`) and knows where `Gc` returns to (`ret`). A critical section is
one step, because `idle_` is only touched under `mutex_` and `mem_pool_` only under
`pool_mtx_`; the unlocked test, the atomic increment and the decrement are steps of
their own, so other threads run between any two of them.

| code | actions |
|---|---|
| `Get`, lines 190-197 | `Get`, `Refuse` |
| idle-timeout loop, 199-210 | `ExpireBack`, once per turn |
| second loop, 211-222 | `TakeFront`, once per turn |
| `GetNewInstance` | `ReuseBlock`, `Malloc`, `Construct`, `InitHandler` |
| `Gc` | `GcRecycle`, `GcUncount` |
| `Put` | `Put`, `PushIdle` |
| `gettimeofday` | `AdvanceClock` |

A block is the memory of one item. Its addresses do not matter, so the order of
`mem_pool_` is not kept. The counters in `stats_` are written and never read by the
pool and are left out. The `uint64_t` subtraction of the life time keeps its
wrap-around (`TimeWrap`).

### RedisConnection

An object is a record: place, pool, context (none, good, broken), database of the
session, authenticated or not, last reply, error state. `Do`, `Connect` and `Done`
are operators on that record, as the functions are on the object; the actions are
the operations the handle class offers, and every one of them includes the calls of
`Done` and of the pool it makes. `Select` is the application sending SELECT itself.
The pools are inlined as `PoolGet` and `PoolPut`, which leave open what the contract
leaves open. Operations run to completion: what concurrent calls do to each other is
the subject of `ConnectionPool`, and a handle belongs to one thread.

### RedisManager

`Get` and `InitConnectionPool` are taken access by access (`TestMaster`, `NewMaster`,
`TestSlave`, `TestArray`, `MallocArray`, `ClearArray`, `NewSlave`, `UsePool`), since
nothing orders the accesses of two threads. A slave array is malloced with entries
that read as anything until they are cleared. The first use of an invalid pointer
sets `crashed`. Freed memory is not handed out again, so that a later use is seen.

Assumed of the application: `Init`, `InitEx`, `Flush` and the destructor run while no
`Get` is in progress; `Get` runs after an `Init` whose host parsed; databases are in
range; and `new` and `malloc` of pools and arrays succeed. Which results of `Init`
make the application call `Flush` is a constant (`FlushAfter`).

### RespReader

The stream is abstracted to tokens: a type byte, a line with its CRLF, the payload of
a bulk string. A token has arrived or not; a line without its CRLF is the same to
the code as no line. A task of `rstack` is a record of a sequence, whose length is
`ridx + 1`. The reply under construction is a set of nodes, each with the indices
that lead to it, so a write of `element[idx]` is the addition of a node at a path.
`ReadType`, `Line`, `Bulk` and `MultiBulk` are one turn each of the loop in
`redisReaderGetReply` (the type byte and the item it announces are two turns, which
nothing can come between); `Return` is what follows the loop. `OutOfMemory` is any
allocation that fails. The server may send any message of `Message`, legal or not,
and `Feed` delivers any number of tokens.

What the messages look like is given by constants: the tokens of a message
(`Encoding`), its values in the order they are sent with the indices that lead to each
(`Items`), and the reply it stands for (`Meaning`). `LayoutAssumption` says how the
three go together, and that the values of a message form a tree; `MeaningAssumption`
says which values are legal and what object each becomes. Neither mentions the parser.
`MCRespReader` computes all of it by recursion over the trees of its messages, legal
and not, and TLC evaluates both assumptions on them.

### Sds and Dict

Both are operators on values, one for each function, without state of their own. A
string keeps its header type, the two fields of the header reduced to their width
(`Field`), and its characters; `sdsMakeRoomFor` and `sdscatlen` go through the header
as the code does, so a header that is too narrow would show as a length that is not
the number of characters. A dictionary keeps its chains in order, so that what
`dictExpand` does to them is there; a key hashes as the constant `Hash` says.

### RedisContext

`c` is the `redisContext`, with the descriptor and what `redisReconnect` connects
with; `pc` says which call is in progress; `up` and `down` are the pieces between the
output buffer and the server and between the server and the reader. Connecting is one
action for each way a turn of the loop over the addresses can go (`NoSocket`,
`Unreachable`, `SocketFails`, `SocketKept`, `ReuseFails`, `AddressBusy`,
`Established`, `Exhausted`), each with the descriptor and the error it leaves.

| code | actions |
|---|---|
| `redisConnect...`, `redisReconnect` | `Connect`, `Reconnect`, `Connecting` |
| `redisAppendCommand`, `redisGetReply`, `redisCommand` | `AppendCommand`, `GetReply`, `Command` |
| `redisBufferWrite`, `redisBufferRead`, once per turn | `BufferWrite`, `BufferRead`, `SocketError` |
| `redisSetTimeout`, `redisEnableKeepAlive` | `SetTimeout`, `EnableKeepAlive` |
| `redisFree`, `redisFreeKeepFd` | `Free` |
| server, network, rest of the process | `Serve`, `Closes`, `Garbles`, `OthersOpen` |

The reader is what `RespReader` shows of it: it yields the replies fed to it in order,
or an error for good. A reply carries the number of its command, so that the property
can tell whose answer it is; the code has only the order. `waiting` and `ret` keep
what the caller is owed and was given; the code has neither, and the application asks
for no more replies than it is owed.

### RedisAsync

The application connects either a blocking context, which then moves as
`RedisContext` says, or an asynchronous one. There is one thread; `pc` says whether it
is in the event loop, in a handler, or in a callback, and a loop is one turn for each
step (`ProcessCallbacks`, `FreeNext`), so that whatever a callback does happens
between two turns. In a callback and in the event loop alike the application may issue
the next command of its program (`AsyncCommand`), call `redisAsyncDisconnect` or
`redisAsyncFree`.

| code | actions |
|---|---|
| `redisAsyncConnect` and attaching an event library | `Initialize` |
| `redisAsyncHandleRead`, `redisAsyncHandleWrite` | `HandleRead`, `HandleWrite`, and `ConnectCallbackReturns`, `HandleEvent` when the first event ran the connect callback |
| `redisProcessCallbacks`, `__redisGetSubscribeCallback` | `ProcessCallbacks`, `CallbackReturns` |
| `__redisAsyncFree` | `FreeNext`, `FreeCallbackReturns`, `FreeEnds` |
| `__redisAsyncCommand`, `redisAsyncDisconnect`, `redisAsyncFree` | `AsyncCommand`, `AppDisconnect`, `AppFree` |
| server and network | `AsyncServe`, `Publish`, `Resolve` |

`frame` holds the local variables of the functions in progress, among them the
callback of the turn before, which the code reuses for messages it has no callback
for. `faults` records the ways to go wrong the code really has when one of them is
taken: `stale`, a message about a topic without entry runs that old callback
(`async.c:381`); `overtaken`, a command put aside in subscribed mode is answered after
a later one (`async.c:655`); `mistaken`, the confirmation of a further UNSUBSCRIBE goes to the callback of a
regular command, because it came when the first had ended subscribed mode
(`async.c:455`); `mode` and `clean`, an assertion fails (`async.c:477`,
`342`); `topic`, an UNSUBSCRIBE from nothing is confirmed with a nil
topic, which an assertion does not expect (`async.c:388`); `freed`,
the connect callback freed the context under its handler. The properties leave out
behaviours in which one of these has happened, and monitors, whose callback is put
back into the queue after every line. A callback that is given NULL counts as run: the
error reply to a command issued in subscribed mode disconnects (`async.c:469`) before
the callback kept for it is looked for, and `CommandAnswered` accepts that.

## What the runs check

| run | instance | what it shows |
|---|---|---|
| `pool_limits` | 3 threads, 5 blocks, both limits 2 | one owner, nothing lost, exact count, `max_idle` holds, `max_active` is overrun by at most one connection per other thread |
| `pool_all` | 2 threads, 2 blocks, all options, a clock that steps back, fairness | one owner and nothing lost in the loops that drop the lock around `Gc` too; the pool implements `PoolContract`; `ConnectionInUse` is right at rest; calls return |
| `pool_cap` | 2 threads | violation: two `Get`s pass the unlocked test and exceed `max_active` |
| `pool_lockout` | 1 thread | violation: with `max_active` connections idle, `Get` refuses everybody |
| `handles_any` | 3 handles, 3 connections, 2 databases | whatever the application does: one handle for each connection, only healthy, authenticated connections in pools; only move assignment forgets one, only a SELECT diverts one |
| `handles_leak` | the same | violation: move assignment onto a handle that holds a connection forgets it |
| `handles_db` | the same, no password | violation: `Connect` returns before SELECT, so pool 1 talks to database 0 |
| `manager_apart` | 2 threads with a database each, 2 slaves, 4 pools, 2 arrays | threads that keep to their databases are safe until `Flush`; one pool for each place, right server, right counts, nothing left at exit |
| `manager_crash` | 2 threads, one database of the slaves | violation: the second thread reads the array before it is cleared |
| `reader` | 2 messages of 14 shapes, depth bound 2, every fragmentation, failing allocations | the replies handed out are the ones sent, only illegal ones are rejected, every reply arrives or an error does |
| `contexts` | a blocking context with 2 commands and 1 reconnect, or an asynchronous one with any of 12 programs | replies and callbacks stay aligned with commands, failures are reported, descriptors are not leaked or mistaken, subscriptions are heard, calls, commands and disconnects end |
| `async_mode` | SUBSCRIBE, UNSUBSCRIBE, then a command | violation: the answer to the command arrives after the context has left subscribed mode, and an assertion fails |

### Bounds, and why they are enough

* Three threads on `pool_limits` let one thread be overtaken by two others, which is
  what the bound on the overrun is about; five blocks let three calls fail or succeed
  around two idle connections. Two blocks in `pool_all` still let one thread evict,
  expire or recycle what the other is waiting for, but are too few for `max_active` to
  bind: that limit is what `pool_limits` is for, as `pool_all` is for the timeouts. The
  theorems below have both at once and remove the bounds for everything but
  `CallsReturn`.
* A clock of three values reaches the end of both timeouts of `pool_all` (1 and 2);
  `TimeWrap` is beyond it, so a step back wraps to an age larger than `MaxLife`, as in
  the code.
* Three handles are one more than any handle operation involves.
* Four pools are what one Init, a `Get` of each thread and one more need; with five
  pools the same properties hold in 1.9 million states, too many to run each time.
* Two messages show what one leaves behind for the next. The shapes contain every
  type, both kinds of nil, empty and nested arrays with a sibling after a nested one,
  an array at the depth bound and one beyond it, and one case of each protocol error.
  `TrimAt` is 4 tokens so that the buffer is trimmed in the middle of messages and
  between them.
* In `contexts` a blocking call moves two pieces for a message, so that it may be cut
  in the middle; an asynchronous one moves a message at a time, since what matters
  there is where one event ends and another begins. Two addresses show what the first
  leaves to the second, two retries the last and one before it, two descriptors that
  the old number may be taken by others while a new one is had. Headers change type at
  2, 3, 6 and 9 characters, so the output buffer grows through all of them.
* The ways to connect are all blocking ones but a timeout that does not run out, which
  behaves as none does, and of the asynchronous ones that with a source address and
  SO_REUSEADDR, whose steps include those of the other. Where that context is exempt
  from an obligation, as in `FailureReported` if its socket is open, what holds of the
  others is shown by the theorem only.
* The threads of `manager_apart` keep to a database each, so that the races of creating
  a pool cannot occur in it; `manager_crash` shows one of them.
* The 12 programs hold each pair of kinds of command the code treats differently next
  to each other, a command without callback, two topics in one SUBSCRIBE, a topic
  subscribed again, channels and patterns with the same name, and UNSUBSCRIBE with and
  without topics. Two topics collide until the table doubles.
* Events are reported once for each time they were asked for, as the adapter for
  libevent does it. The server, the network and the rest of the process move only at
  points where the context looks at the socket next: elsewhere the order does not show.
* Symmetry is declared for threads, blocks, handles, connections, pools and arrays in
  runs of safety properties only.

`CHECK_DEADLOCK FALSE` is set where the program does stop: after the manager was
destroyed or has crashed, and when the server has sent everything it will send.

### Fairness

* Pool: weak fairness of the steps of a call in progress, since threads that hold or
  wait for a mutex are scheduled. No thread has to enter a call. `CallsReturn` excepts
  behaviours in which the clock never stops: then other threads may keep putting back
  connections that expire at once, and the loop that drops the lock around `Gc` may
  run on. Nothing in the code bounds it.
* Parser: weak fairness of the loop and of the return, which is one thread running;
  of `GetReply` after new input and of `Feed`, which is the loop of `redisGetReply`
  (`hiredis.c:872-878`) on a connection that delivers what was sent.
* Contexts: weak fairness of the steps of a call, a handler and a loop, which are one
  thread running, of events that were asked for and can be reported, which is what an
  event library does, of the return of callbacks, of a connect in progress, which the
  kernel ends, and of the server answering what it was sent. Nothing is fair about
  errors, the end of the connection or anything the application chooses to do. So
  `CallEnds` does not lean on SO_RCVTIMEO, and the promise that a command is answered
  is made for servers that answer.

### What the runs found

1. `max_active` can be exceeded (`pool_cap`), against the comment at
   `connection_pool.h:130`; by how much is `OvershootBound`.
2. A pool whose `max_active` connections are all idle refuses every caller for ever
   (`pool_lockout`): `active_cnt_` counts idle ones, and the test comes first.
3. Move assignment loses the connection of its target (`handles_leak`).
4. Without a password the database of a pool is never selected (`handles_db`).
5. Two first `Get`s for one database of the slaves can read an entry of the array that
   was never written (`manager_crash`).

6. A command issued behind the UNSUBSCRIBE that ends the last subscription is put aside
   as one that has to fail, and its answer meets an assertion (`async_mode`), against
   the comment at `async.c:476`.

Three more counterexamples come from `RedisManager` with other constants and are not
kept as runs. With `Uses` naming one master database for two threads, `NoPoolLost`
fails: both create a pool and the first is lost with the connections it lent. With
`FlushAfter = {"ok"}`, `MemorySafe` fails: `Flush` leaves its pointers in the tables,
so the next `Flush`, the destructor or a `Get` uses a deleted pool, and so does a
handle that outlives the `Flush`. With a slave list that is empty or too long,
`MemorySafe` fails: `InitEx` reads the first of no addresses.

## What is proved

All theorems hold for every value of the constants that the named assumptions allow:
any finite number of threads and blocks, any options, any messages and encodings.

**ConnectionPool.** `TypeCorrect`, `Ownership` and `NoneForgotten` (`SingleOwner` and `NothingLost`),
`CountExact`, `InUseCorrect`, `OvershootBounded`, `IdleCapped`, and
`PoolImplementsContract`. The inductive invariant is `PoolInv`, built in layers:

1. `TypeOK` says that a thread holds a block exactly at the points that own one.
2. `SingleOwner` and `NothingLost` are inductive together with it. Almost every step
   moves one block from one place to another, and the lemma `Exchange` is that fact:
   if the places were disjoint and complete before, they are after.
3. `ActiveCountExact` needs the set of constructed blocks, which changes at the
   increment (`ConstructAdds`) and at the recycling (`RecycleRemoves`); the decrement
   pays a debt that `Uncounting` records.
4. `OvershootBound` is not inductive: a thread let in a while ago may increment at any
   time. `Reservation` counts the calls in flight as well, and is.
5. `InUseAtRest` follows: with no call in progress, the constructed blocks are the idle
   ones and the ones in use.

The refinement maps a block to `idle`, `app`, `call` or `none`; each step of the pool
moves at most one block, or two when `Put` evicts, and the limits of the contract come
from `Reservation` and `IdleCap`.

**RespReader.** `ParserTypes` and `ParserStack`, from the inductive invariant `RInv`:
the tokens are typed, the stack fits, and every task but the last is an array that is
in the partial reply and has room for the index above it. `NextTaskDescribes` shows
that climbing out of finished arrays keeps this, `DescendStep` that the depth test
suffices to push. So the assertions of `moveToNextTask` cannot fail and nothing is
written behind `rstack` or behind an array, whatever bytes arrive.

`RepliesFaithful` (`Faithful`) and `ErrorsJustified` (`ErrorJustified`), for any messages,
legal or not, and any way to cut them into reads. Neither is inductive: the invariant
`SInv` says where the parser is in the stream. Each message sent starts at an offset;
what is ahead of the cursor, in the buffer or on the wire, is all of the stream but what
was consumed (`InTransit`); and that is the messages before the current one and, of
this one, the values before the item the parser is at (`Progress`). `Parsing` says what
being at item c means: the path of the stack is the path of the item, the tasks below
are the arrays it is in, the items before it are legal, and the partial reply is their
objects. So a token that is read is the type, the header or the payload of item c
(`ItemHere`), and an error is raised for an item that is not legal. The step that needs
the tree is `moveToNextTask`: that it goes to item c + 1, or out of the reply after the
last one (`NextTaskIsNext`). There is no induction over trees in it, because the items
are in a total order by their paths: nothing comes between an item without elements and
the next sibling of the innermost array that is not finished (`NextSibling`,
`NothingBetween`), and nothing comes behind an item all of whose indices are last ones
(`LastItem`).

**RedisConnection.** `HandleTypes`, `OneHandle`, `PoolsStayReady`, `AllAuthenticated`,
`ErrorsStick`, `OthersLoseNone`, `NoLeakWithoutMoves` and `OthersStay`: every property
of `handles_any`, for any number of handles, connections and databases. The inductive
invariant `HInv` is the types, `HandlesExclusive`, and `Sound` of every object: outside
of its pool an object may be in any state but one in which `Done` would take it for
healthy though its context is not. That is what makes `PooledReady` hold after `Done`,
and it is why the reset of the last reply in `Done` is needed. `NoLeak` holds for an
application that assigns no handle by move, the operation `handles_leak` refutes it
with; the database of a pool is kept under a password, which `handles_db` lacks.

**RedisManager.** Two invariants. `Base` is inductive whatever the threads ask for: what
the tables name was allocated, no pool is in two entries, and a pool in a table is for
its place there. It gives `ManagerTypes` and `RightServers`: even threads that race to
create a pool never get one for the wrong role, database or server. `Own` is inductive
if no two threads ask for one database (`Disjoint`): what a thread read of its entries
is still so when it acts on it, entries never written belong to the thread about to
clear them, and every pool and array that lives is in a table. Together they give
`PoolsCreatedOnce` and `DestructorFreesAll`, and `SafeBeforeFlush` if `InitEx` is given
lists that are neither empty nor too long (`Usable`): an invalid access needs something
deleted. Without `Disjoint` the last three fail, as `manager_crash` and the
counterexamples above show. `InUseCounted` also needs `Disjoint`: the two counts of
`InUseExact` are sums over the pools of a role and database, and the pools found in the
tables are the ones that live. That the sums of two counters differ by the sum of the
differences (`SumDifference`) is an induction over a finite set.

**Sds and Dict.** `AppendExact` and `RestExact`: `sdscatlen` and `sdsrange` yield exactly the
characters they should, in a header wide enough, for strings of any length and any
widths of headers. The lemma behind them is that a type chosen by `sdsReqType` for the
room truncates neither the room nor a length within it. `ReplaceLaw`, `DeleteLaw` and
`Iterated`: a hash table is a function from keys to values and an iterator meets each
of its entries once, for any hash and any number of entries. The invariant of a table,
`Sound`, says that every entry is in the chain of its slot, no chain has a key twice
and `used` counts them; that growing keeps the entries (`Grown`) is where the doubling
of `_dictNextPower`, a recursive function, and the moves to new chains come in. What a
change to one chain does to the table is the lemma `ChainChanged`.

**Contexts.** `OneDescriptor` and `ErrorsReported`, for any number of descriptors,
addresses, retries, commands and programs, in both APIs. The inductive invariant
`Control` says what the two properties need between the moments they speak of: no
descriptor is open while a connect looks for one, a context without error keeps its
descriptor and its connection within a call, only a blocking call can have failed, and
a handler that ran the connect callback knows how to go on. `BufferAlwaysSound`: the
output buffer is a well-formed string at every step, from the lemmas of `ContainersProofs`.

`RepliesInOrder` (`AnswersInOrder`), for any fragments, commands and reconnects of a
blocking context. The inductive invariant `Due` extends the property to a connection
the server has closed, where the replies still to be read are those to the oldest
commands, and says that a connect starts with nothing left of another connection.
What a buffer holds is a sequence put together from what each piece gives (`Through`):
its laws about concatenation, about the first message and what is behind it, and about
a message cut in pieces are inductions over sequences.

`TypesKept` (`TypeOK` of `RedisAsync`), for any programs, topics and hash of them. The
inductive invariant is `Typed` with `Begun`: what the buffers and the socket carry is
pieces of commands that were issued, both dictionaries are `Sound`, commands and
counters of calls go together, a context that connects has empty buffers, and nothing
of the asynchronous API has begun before the event loop. It needs `Control`, since
only a handler that knows how to go on keeps its types. The topics of a SUBSCRIBE, and the
confirmations of one, are folds over a sequence; `SubscribedIs` and `ConfirmIs` show
what they are folds of.

`SubscriptionsKept` (`SubscriptionHeard`), for any programs, topics, hash, fragments and
orders of events, whatever went wrong before (a callback overtaken, a reply mistaken for
another). The property counts confirmations; alone it is not inductive, because
an UNSUBSCRIBE that was confirmed long ago may reach the client behind a new SUBSCRIBE.
The inductive invariant `Heard` adds that the last confirmation of a topic on its way says
what the table of the server says, that counters are not negative, and that nothing is
on its way while the connect is in progress. Then an entry is removed only if its
counter is 0: so nothing on its way subscribes the topic, the last word is the
UNSUBSCRIBE, and the server does not have it either (`HeardTopicKeeps`). The amounts are
lengths of what the pieces in a buffer give (`Owed`, `Word`); what a SUBSCRIBE of several
topics does to the dictionary (`SubscribedCounts`) and what the server says to it
(`ConfirmSpeaks`) are inductions over its topics, and an UNSUBSCRIBE of everything is
about exactly the topics in the table (`NoTopics`).

`AnswersOwned`, `CallbacksOnce` and `AssertionsJustified` (`OwnAnswers`, `AnsweredOnce` and
`AssertionsHold`), for any programs, topics, fragments and orders of events. The code has
two queues and two dictionaries of callbacks, and one stream of replies, confirmations
and messages without numbers; the invariant says how the two go together, in three layers
(`Answers` is all of them):

1. `Placed` and `Closing` are about the client alone, whatever goes wrong. Without a
   MONITOR each queue has regular commands in the order they were issued, no command is in
   both, and a dictionary entry is the callback of a command that subscribes to its topic;
   a free empties the queues before it turns to the dictionaries, and a disconnect is clean
   only with none pending.
2. `Posted` is about the stream. Take the commands that the letters on their way answer,
   and behind them the commands the server has yet to serve (`Answered(Incoming) \o
   Sending`): their numbers rise, and if no reply went astray before (`Tidy`), the regular
   ones among them are exactly those that wait, but for late ones whose connection is
   broken (`Flow`). That says who is first. Which queue the code looks into depends on the
   letter, and three more facts are needed for it: a letter is a reply to a command that
   asks for one, or news of a topic, or the one error of a server that never let the client
   in (`Stamps`); the commands of the regular queue are answered before any news of a
   subscription, and before any SUBSCRIBE behind them is served (`Ordered`), since one
   issued in subscribed mode is put aside; and a message is about a topic that has its
   callback when the message is read (`News`), although UNSUBSCRIBE and a new SUBSCRIBE of
   it may both be on their way. The last two lean on `Heard`.
3. `Counts` says that exactly the regular callbacks that no longer wait have run, once, and
   that nobody waits when the context is gone; `Given`, what the callback that runs was
   given; `Reasoned`, which of the three reasons the assertion about the mode failed for.

A turn of `redisProcessCallbacks` is one of seven things (`TurnIs`), and the one lemma the
three properties rest on is `TakenPosts`: the letter that is read is either news that leaves
the queues alone, or it is the answer to the oldest callback of both queues, the one the code
takes; that it is nobody's is impossible. A command joins at the end (`IssuedPosts`), the
server moves the first of `Sending` to the end of `Incoming` (`ServedPosts`), or adds letters
of its own (`PublishedPosts`), and the end of the connection drops what will not be answered
(`EndedPosts`). The run `async_mode` is one of the three reasons of `Reasoned`; that no other
leads to the assertion is `OnlyUnsubscribe`.

**Induction.** A statement about all numbers, finite sets or sequences is proved as the
inclusion of the whole in the set of those it holds for; the library's theorems about
well-founded orderings make that a first-order argument. `SumExists` and `FlattenIs`
show that the functions `MapThenSumSet` and `FlattenSeq` choose exist, `FoldsExist` that
the one of a fold does, and `FoldsInduction` is what is proved about a fold turn by turn.

**Only model-checked.** Liveness (`CallsReturn`, `AllAnswered`, `CallEnds`, `CommandAnswered`,
`DisconnectCompletes`), which is beyond the prover. Every invariant and every action
property of the passing runs is a theorem.

## What is not modelled, and why

* Formatting of commands, splitting of addresses, log lines: conversions and wording
  no property is about. That a host may not parse, and that formatting may fail, is
  modelled.
* Who owns a `redisReply` (`reclaim_`, the moves of reply objects, views of elements):
  whether a tree is freed twice or read after its end depends only on the order of the
  application's own calls on one object. The code leaves that open, so a property of it
  would either fail at the first misuse or assume what it says.
* The pointers of the idle list, which only change under the mutex of the pool; its
  destructor, which reads the next pointer of an item it has freed, on every path.
* What a failed allocation of the context itself leaves, `SO_ERROR` being EINPROGRESS,
  the disconnect callback, and array replies to regular commands of an asynchronous context.
* Destruction of the reader, digits of a number (`string2ll`), and lengths close to the
  end of their type.
* The functions of `sds.c` a context does not call, `dictRelease`, and socket options
  beyond whether they can be set.
* Tests, example and build files.

## Plan

1. `RespReader` shown to implement the reader `RedisContext` assumes, with the tokens
   of a message as its pieces.
2. `RedisConnection` and `RedisManager` over an instance of `PoolContract` instead of
   their own operators for pools, where the size of the state space allows it.
