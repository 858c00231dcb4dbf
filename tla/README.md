# pwo-login-server in TLA+

`pwo-login-server` accepts game clients on a TCP port, authenticates them
against MySQL, sends them their characters, and answers requests for the host
of a game server by asking a *central* server over Redis. It is C++ on
boost::asio, with modules written in Lua.

This directory holds TLA+ modules that model its core, TLC configurations that
check them on small instances, and TLAPS proofs of what matters most for every
instance. Paths below are relative to the repository.

## 1. Inventory

### Threads

| thread | runs | started | ends |
|---|---|---|---|
| io | `main`, loading, then `io_context::run()`: every handler of `Server`, `Connection`, the timers and `Signals`; Lua for client packets | by the system | when the server is closed |
| subscriber | `RedisSubscriber::threadMain` (`src/redis/sub.cpp`) | `Redis::connect` | when Redis fails |
| dispatcher | `Dispatcher::threadMain` (`src/core/tasks.cpp`); Lua for Redis messages | `Redis::connect`, after the subscriber | when `shutdown()`'s task has run |

### Components

| component | state | operations | talks to |
|---|---|---|---|
| `Server` (`src/core/server.cpp`) | acceptor, io_context | open, accept, onAccept, close | creates connections through `ConnectionManager` |
| `ConnectionManager` (`src/network/connectionmanager.cpp`) | set of connections, id generator, lock | createConnection, releaseConnection, getProtocolById (no lock), closeAll | `Connection`; Lua's `g_login.getClient` |
| `Connection` (`src/network/connection.cpp`) | socket, two timers, `m_closed`, `m_receivedFirst`, one message, lock | accept, parseHeader, parsePacket, send, onWriteOperation, handleTimeout, close | `Protocol`; asio |
| `Protocol` (`src/network/protocol.cpp`) | XTEA key, account, weak pointer to its connection | authenticate, parsePacket, send, disconnectClient, encryptMessage | `Database`, RSA, XTEA, `ModuleManager` |
| `NetworkMessage`, `OutputMessage`, XTEA, RSA | buffer, length, position, start | get, add, skip, pad, frame, encipher, decipher | used by `Protocol` and Lua |
| `Dispatcher`, `ThreadHolder` | task list, lock, condition variable, thread state | addTask, shutdown, start, stop, join | the subscriber adds, the thread runs |
| `RedisSubscriber`, `RedisPublisher` | a connection each | subscribe, threadMain; publish | `Dispatcher`; Lua |
| `Signals`, `main` | signal set | mainLoader, sigintHandler | everything |
| Lua requests (`lib/login.lua`, `modules/login`) | `answerIdGenerator`, `answerCallbacks` | requestCentralAnswer, _onRedisMessage | Redis, `ConnectionManager` |
| `Module`, `ModuleManager` | event callbacks per module, modules per event | load, connect, disconnect, emit | Lua |
| `LuaScript` | the Lua state, the environment | init, loadFile, callSandboxLuaField... | everything |
| `Database`, `DBResult` | MySQL handle, rows | getAccount, storeQuery | `Protocol` |
| `tools.cpp` | none | adlerChecksum, transformToSHA1 | `Connection`, `OutputMessage`, `Database` |
| `Logger` | the log's file | the `<<` of the log classes; `addLog` is called by nothing | everything |

### What is hard, and what correctness means

* **Connection.** Reads, writes, two timers and the dispatcher's sends
  interleave; completions are queued and their handlers run later, on a
  connection that may have been closed. Correct: each client is logged in at
  most once, asks only while logged in, never holds a socket without a
  deadline, and its connection is destroyed once it has fallen silent.
* **Dispatcher.** A hand-written condition-variable loop with no predicate,
  with a `do_signal` flag used after the unlock and a shutdown that is a task.
  Correct: it is an ordered queue, each task finished once, no wakeup lost.
* **Process.** Starting and stopping three threads. The subscriber runs before
  the dispatcher does, and before `subscribe()` talks on its connection from
  another thread. Correct: no message is lost or overtaken, the process gets to
  serve, a SIGINT ends it.
* **Messages.** Limits checked in different places on 16-bit cursors. Correct:
  all accesses stay in the buffer and a frame can be parsed; what fits is sent
  whole, and only what fits.
* **Checksums and digests.** Sums reduced once in 5552 bytes, in 32 bits; blocks
  filled and padded by hand. Correct: they are those of the definitions, which
  the client and the database compute in other ways.
* **Requests.** Answers arrive on another thread, late, or never, after the
  client left or the process restarted. Correct: an answer reaches the client
  who asked, once.
* **Accounts.** Two queries on tables that others write, numbers narrowed in
  between. Correct: nobody gets another account's characters.
* **Modules and Lua.** Registries edited from callbacks, an environment to
  restore on every path, and one stack on which every path of every call must
  leave what its caller expects. Correct: events reach who is connected, scripts
  run in their sandbox, no call finds or leaves a wrong slot.

`PROJECT.json` lists these hazards one by one, at their lines.

## 2. Plan

Order: what clients depend on first, then what the process depends on, then
the modules' own machinery. A module that is proved about uses no `RECURSIVE`
operator; constants and their assumptions are named; every invariant is a
conjunction of named parts.

| modules | status |
|---|---|
| `Sessions` (abstract), `Connections`; `IncomingMessage`, the message a connection reads into; `ConnectionsProofs` | written, proved |
| `TaskQueue` (abstract), `Dispatcher`, `DispatcherProofs` | written, proved |
| `Signals`, which extends `Dispatcher` with the process around it | written |
| `Startup`, on top of `TaskQueue`: `mainLoader`, its failing paths, the subscriber and `subscribe()`; `StartupProofs` | written, proved |
| `OutputMessage`; `LoginReply`, which extends it with what the messages say; `AccountQuery`, which has what they say it of; `LoginReplyProofs` | written, proved |
| `Authentication`, which composes `IncomingMessage` and `AccountQuery` | written |
| `Requests` (abstract), `LoginRequest`, `LoginRequestProofs` | written, proved |
| `ModuleLoading`, `ModuleEvents`, `ModulesProofs` | written, proved |
| `Adler` (abstract), `Checksum`; `PasswordDigest`; `LoginPacket`, which puts one behind the other; `ChecksumProofs` | written, proved |
| `LuaStack`, `LuaStackProofs` | written, proved |
| `OutputMessage` composed with a reader, so that what one side frames the other side's checks accept | possible next |

## 3. The modules and the code

Each module's header says what it leaves out. `PROJECT.json` maps every
definition to its lines. A definition whose comment begins with *Mutant* is not
part of a model: it is a plausible slip in the definition that follows it, and
shows that a property notices.

**Sessions** is what the server promises of a client: opened once,
authenticated at most once, requests only while authenticated, ended at most
once. It does not promise an end: a client that goes on sending may stay.

**Connections** is `Server::accept`, `ConnectionManager`, `Connection` and the
parts of `Protocol` that act on it. `conn[c]` is a record of `Connection`'s
fields and of what asio holds for it: the outstanding read and whether it has
completed, the writes in progress and the write handlers queued, the waits of
both timers and the expired waits whose handler is queued. One action per
handler (`OnAccept`, `ParseHeader`, `ParsePacket`, `OnWriteOperation`,
`HandleTimeout`), each one step because the method holds `m_connectionLock`;
what asio and the client do are actions of their own. A client of `Talkers` may
send packet after packet for ever; only the requests made for it are bounded.
The dispatcher's thread takes two steps: `Answer` finds the connection, without the lock, and
`DispatcherSend` sends on it. The refinement maps a record to the phase of a
session.

**TaskQueue** is an ordered queue whose tasks are finished once.
**Dispatcher** is `ThreadHolder`, `Dispatcher` and `Task`: the list, the batch
`threadMain` has swapped out, where the thread is (checking its state, waiting
on the condition variable, woken, running), and the producers between unlocking
and `notify_one`. `SpuriousWakeup` wakes it for nothing. The queue is the batch
followed by the list.

**Signals** puts the process around it: the two starts in `Redis::connect`, the
subscriber as producer, and `sigintHandler` call by call.

**Startup** is the other end of the process's life: `main()` and `mainLoader`
stage by stage, each of which may fail, and what `main`'s return does to threads
that are running. Its subject is the one connection to Redis that two threads
use: `RedisSubscriber::threadMain` in `select`, `redisBufferRead` and
`redisGetReply`, and `subscribe()` in `redisCommand`, which reads until there is
a reply. A reply goes from `socket` to `held[t]`, what a thread has received and
not yet fed, to hiredis' `reader`, and then to whoever takes it first. Two steps
separate `recv` from feeding, because the other thread may take all its steps
between them. The dispatcher is `TaskQueue`, instantiated.

**OutputMessage** and **IncomingMessage** are the cursors, the lengths and the
limits of the two directions: `length`, `position` and the start of the buffer
as `NetworkMessage` has them, the extent that XTEA or RSA changes, and, when
reading, how many bytes of the buffer belong to the packet at hand. Contents
are any value.

**LoginReply** writes the messages of `Protocol` field by field into an
`OutputMessage`: a field is a kind, a size and, for the number of characters, a
value. `WriteField` is any of the `add` functions; it leaves a field out where
they do. A script's message is whatever a script writes.

**Checksum** is `adlerChecksum` loop by loop, with the sums in `Width` values as
in a `uint32_t`; **Adler** is the definition, with both sums reduced after each
byte. **PasswordDigest** is the block handling of `transformToSHA1`: which bytes
of the input, of the padding and of the length are in each block that is
processed: `digest` is the sequence of them. A byte of the input is its place,
because no branch looks at it, and a local array starts with `Garbage`.
**LoginPacket** puts the two calls in the order in which a login makes them.

**LoginRequest** is `lib/login.lua` and the login module on both threads, in
the steps that Redis can see between: the id is drawn and the callback kept,
the question is published with one of three outcomes, the callback is withdrawn
if publishing failed, an answer is looked up, called and forgotten. Answers may
be repeated, lost, reordered and late; `Restart` begins a new life with an
empty table and ids from 1. **Requests** is what a caller may rely on: a number
is given to one request, the first answer under it closes the request, and its
client is told at most once. The refinement reads the table of callbacks as the
requests that are open.

**ModuleEvents** is the registry: each module's callbacks by event, or by event
and identifier, the manager's vectors of modules, the `connectOnce` marks and
the references in use. An emission is walked slot by slot, because callbacks are
erased from the vectors that a range-based `for` is walking: the walk keeps the
old end, and the slots behind the new one keep their values. A callback with an
identifier may call the function that `connect` returned for it, while it is
being called (`CallIdentified`); the one returned for a callback without an
identifier disconnects nothing, as it calls `disconnect(event, "")`.
`connectOnce`, which erases in the same way, `removeAllConnectionsById` and
`freeConnections` are public and modelled, but nothing calls them yet.

**ModuleLoading** is `loadModules`, `Module::load` and `loadFiles`, with the
installed environment: a variable `env` that the loader, a call that returned
and a call that failed each set, the globals `module` and `init` of each
environment, and the inits, which find a `module` and may connect and emit.
The dispatcher's thread runs before modules are loaded, so once a callback is
connected it may be called between any two calls of the loader that use the
environment: `StartModule` installs the sandbox and `DefineModule`, a step
later, writes the module into whatever is installed then; `ClearInit`, `RunFile`
and `FindInit` are separate in the same way. The race inside the Lua library is
left out.

**AccountQuery** is `Database::getAccount` and the check in `authenticate`: the
two queries, either of which may fail, the row cursor of `DBResult`, and
`getNumber`, which reads an id that does not fit 16 bits as 0. The game servers
move characters between any two steps. `owned` is for the reader: what the asked
account had when the second query was answered.

**Authentication** puts it into the login it is part of: `IncomingMessage` reads
the two credentials, `AccountQuery` asks while the message rests, and its check
decides whether the connection reads on. A step of it is one of
`IncomingMessage`, one of `AccountQuery`, or one of both, so what is proved of
the two holds of it. `Connections` has the outcome only, as a choice in
`Authenticate`.

**LuaStack** is what the C++ side does to the Lua stack. A function of
`LuaScript`, `LuaStack`, `Module` or `ModuleManager` is the set of its paths; a
path is the sequence of its calls into Lua and of the functions it calls. A slot
holds the kind of its value (a table, a thread, the handler, an argument). A
frame is pushed for every function that a running script calls, and a script
ends or fails at any moment.

## 4. Runs, bounds, and what they show

| run | bounds | why they are enough |
|---|---|---|
| `connections` | two clients at once (the third connection is the one being accepted): one logs in, asks once and may send for ever, one connects and sends nothing; two expired waits not yet handled | the answers to the login and to the request may be written at the same time; each of the two timers has at most one expired wait in the io thread's queue, which is first in, first out; the second client shows that connections do not disturb each other. The safety properties are proved for all bounds |
| `dispatcher` | two producers, three tasks of which one may expire, and shutdown's task | two tasks can be in the batch while one is in the list, with both producers between unlock and notify |
| `startup` | three messages, one of them blank | one in the reader, one in a thread's hands and one in the socket, with the confirmation in any of the places. `StartupProofs` covers any messages |
| `signals` | the subscriber and two messages | a violation: two messages are more than it needs |
| `output_message` | the sizes of the code, strings of 0 to 8193 bytes; answers with up to four characters of three sizes | every limit is met from both sides, and a reply fits or not by one byte; four characters wrap the number of characters, which has four values here. `LoginReplyProofs` covers all sizes |
| `authentication` | a buffer of 200 bytes and sizes around every limit; two accounts whose id fits and one whose low bits are the first one's, three characters | all limits are relative to the buffer's size except RSA's 128 bytes, which fit; a list of several rows, an owner change between the queries, and a narrowing that could meet another account |
| `blocks` | those of `output_message` | a violation: the longest message that can be written is among them |
| `login_request` | two clients, two requests, two lives, two hosts sent | answers to one request meet the callback of another, across a restart |
| `login_packet` | a checksum in five bits with chunks of three bytes and messages of up to three chunks; a digest with blocks of eight bytes and passwords of up to five blocks | three is the longest chunk that five bits allow, as 5552 is for 32; the low word of the length wraps five times, and every remainder of a block occurs. `ChecksumProofs` covers all moduli, chunks and blocks that fit together, the code's among them |
| `module_events` | three modules, an event, an identifier, three references, a mark for each module | one callback that disconnects itself, one whose slot is skipped and one that is read behind the vector's end; references run out and are used again, so stale marks meet new callbacks. `ModulesProofs` covers any number of each |
| `module_loading` | up to three modules of one, two and one files, two names | a failed module before and after one that registered, a name listed twice, an `init` left over from an earlier file of the module and of another one, while a callback of the first disturbs the second. `ModulesProofs` covers any number of each |
| `lua_stack` | three frames | a function called by a script that was called by a function that a script called: every function in every place, since a frame sees its own slots only. `LuaStackProofs` covers any number of frames |

What the passing runs show is stated at each property. In short: a connection
is a session whatever its timers, writes and the other thread do, and ends once
its client falls silent; a write ends although nobody reads it, if no other
overlaps it; the dispatcher is a queue that loses neither task nor wakeup;
whatever two threads do on one connection to Redis, every reply is in one place,
and messages are handled in order once the process serves; buffers are not left
and bytes of earlier packets not used; a reply is sent whole if it fits;
checksum and digest are those of their definitions; an answer reaches who asked,
once; a client sees its own characters; the registries agree under erasure;
undisturbed files run in their sandbox, and events go to modules that exist, but
for the case of section 7; every path leaves the Lua stack as its caller
expects.

What the refinements imply is not checked a second time: `TaskQueue` is where
tasks are finished once they are accepted and the worker retires after
shutdown's task only, `Sessions` where a login precedes a request, `Requests`
where a client is told at most once, `Adler` where no sum overflows. The type
invariants and the other invariants that no run lists are proved (section 5).

Two runs end in a violation, and each is a finding. `signals`: the comment in
`sigintHandler`'s dispatcher says that a SIGINT "Shuts the server down". The
handler joins two threads that nothing tells to end, on the io thread, and the
process stays. `blocks`: `src/utils/xtea.cpp:16` says that "The message must be
a multiple of 8". XTEA enciphers a body of 24,567 bytes unpadded, because
`canAdd` has no room for the padding. `OnlyFullUnpadded` proves that this is the
only such size, and `CipherInBuffer` says that the last block stays in the
buffer all the same.

Deadlock is checked where the modelled system always has something to do
(messages, emissions, queries). It is off for `connections`, `dispatcher`,
`startup`, `signals`, `login_request`, `login_packet`, `module_loading` and
`lua_stack`: the first stops when the bound on clients is used up, a dispatcher
or a process with no traffic waits, and startup, loading and calls end.

### Fairness

* `Connections`: queued handlers run (weak fairness of each), because one thread
  is always inside `io_context::run()`. A timer that stays armed expires, unless
  it is cancelled or armed again over and over: the fairness is of "the timer
  fires, or a handler of a read runs", and of "the timer fires, or a handler of
  a write or the dispatcher's send runs", so a client that sends in time is
  never taken to be late. Clients, new connections, write completions and
  answers owe nothing; the write timer is what ends a write that never
  completes. `SilentConnectionsEnd` is about clients that do not send for ever,
  `WritesEnd` about all.
* `Dispatcher`: a started thread goes on when it can, and a producer that has
  unlocked reaches its `notify_one`. No fairness for adding tasks, shutting
  down, or spurious wakeups, so no property rests on one.
* `Signals`: each thread goes on when it can. Redis may stay connected for
  ever, as it normally does.
* `Startup`: each thread goes on when it can, and Redis confirms while it is
  connected. No stage has to fail, and nobody has to publish: a process whose
  confirmation was taken by the wrong thread may wait for ever, and
  `StartsUnlessRaced` says that this is the only way.
* `LoginPacket`: a call returns. `LoginRequest` and `Requests` have no fairness:
  answers may never come, and nothing in the code makes up for it.

## 5. What is proved

For every value of the constants that satisfies the named assumption of the
module. Each proof is the same argument: an inductive invariant `IInv` holds
initially, is kept by every action (one lemma or step each), and implies the
property. TLC has checked each of them on its run's bounds, except that of
`LuaStack`, which speaks of sequences of stacks that TLC cannot enumerate.

| module | theorems | what the invariant adds to the properties, and why |
|---|---|---|
| `ConnectionsProofs` | `TypeCorrect`, `NoOrphans`, `AlwaysGuarded`, `TimersAreOwned`, `LoginFirst`, `ClosedStaysInert`, `Refinement` | per connection: which fields a phase allows (`Base`, `Opened`, `LoggedIn`, `Guarded`). A handler is a composition of operators on one record, so there is one lemma per operator and the actions follow from them. `Refinement` is the whole of `ImplementsSessions` |
| `ConnectionsProofs` (message) | `MessageTypeCorrect`, `DeciphersReceived`, `BodyIsReceived` | what each stage knows of `length` and `received`: the length counts the headers until XTEA rewrites it |
| `DispatcherProofs` | `TypeCorrect`, `WakeupsKept`, `EndsOnlyOnFarewell`, `Refinement` | a thread that is not started has run nothing; `Refinement` is the safety part of `ImplementsTaskQueue` |
| `StartupProofs` | `TypeCorrect`, `NeverRefused`, `NoneLostOrTakenTwice`, `OnlyRaceTakesMessage`, `InOrder` | which threads may run in which stage; no message comes before the confirmation; along the queue, the reader, what the subscriber holds and the socket, messages that were published while the server serves rise, and those that were run are before them. How often a reply occurs on its way is a sum of four counts; each step moves one occurrence to the next place |
| `LoginReplyProofs` | `TypeCorrect`, `CipherStaysInside`, `FramesAreComplete`, `OnlyFullUnpadded`, `RepliesAreFramed`, `SentWholeIffFits`, `ListsReadBack`, `QueryTypeCorrect`, `AcceptedAsAsked`, `ListsOwn` | how length, position and start are related in each stage, with the arithmetic of whole blocks. For a reply: as long as every field fitted, the message holds what has been written (`Whole`), and once one was left out, the reply does not fit (`Short`), because the fields after it only add to it. For the query: an id that was read is the asked account's or 0; the list is the rows up to the cursor; the rows are the account's characters |
| `LoginRequestProofs` | `TypeCorrect`, `ReachesAsker`, `AtMostOnce`, `FindsCallback` | ids above the generator are unused in this life; a callback found for an answer of this life is the asker's; an answered request has no callback left. `Refinement` is the whole of `ImplementsRequests`: a step of a thread is a step of `Requests` or none, and the callback that was looked up is the answer that was taken |
| `ChecksumProofs` | `TypeCorrect`, `NoOverflow`, `Refinement`, `DigestOfPadded`, `ChecksumOfPacket`, `CodeFits` | after k bytes of a chunk the first sum has grown by at most k bytes and the second by k times that, which `ChecksumAssumption` keeps below the width; the refinement needs that a sum of remainders has the remainder of the sum (`ModSum`). `Refinement` is the safety part of `ImplementsAdler`. For the digest: the blocks processed, followed by the block being filled, are a prefix of the padded input, and the two words of the length count the bits taken. `CodeFits` shows the assumptions of 65521, 5552 and 32 bits, and of 64 bytes |
| `ModulesProofs` (loading) | `TypeCorrect`, `LoadsInSandbox`, `EventsReachAlive`, `RunsOwnInit` | a module whose settings are read has done nothing yet, so deleting it is safe; the installed environment, every environment with an `init` and every global `module` belong to a module that is alive, or that wrote its global after a callback had reset the environment (`early`). `EventsReachAlive` has that callback as its hypothesis: with one between `src/core/module.cpp:108` and `:113` a deleted module may be registered (section 7) |
| `ModulesProofs` (events) | `EventsTypeCorrect`, `Agree`, `Held`, `ReadsLive`, `EmissionsComplete` | the registry and the references agree whenever no callback runs. Under an emission: a vector has lost at most as many elements as slots were passed, so a slot still to come is in the memory the vector had; the references in those slots are in use; when nothing was erased, the calls made are exactly what the passed slots say; and an identified emission calls no callback twice (`CallsOnce`), because a callback that disconnected itself is no longer in the map that each slot is looked up in |
| `LuaStackProofs` | `CallsFit`, `ArgumentsFit`, `StackIsBalanced`, `FunctionsAnswerOnce` | what is left to do in a frame leads from its slots to where its function should end (`Going`). Each call has a rule, what it makes of a stack; each function has an effect (`Effect`): most leave the stack as it was, `callFieldNoRet` takes a table off it, `registerTable` leaves a value. That every path of a function has the function's effect, by the rules and by the effects of the functions it calls (`FunctionPlays`, `BindingPlays`), is where the code is; that a frame may run beneath any other follows, because a frame sees its own slots only. `connectNil`, whose arguments do not meet its parameters, only takes and adds single values |

The theorems about the type invariants, `EndsOnFarewell`, `LoginPrecedesRequest`,
`AnsweredOnce` and `SumsFit` are about invariants that no run lists: the proofs
use them, or the refinements that the runs check imply them.

Assumptions on constants: at least one connection and natural bounds on its
requests and expired waits;
`Farewell` is not among the tasks; buffers between 64 and 65,535 bytes to read
and 32 and 65,535 to write, six more than whole blocks (`MsgSize_t` has 16
bits); positive account ids and finitely many characters; fields whose sizes and
counts are natural; a modulus, chunk and width that fit together, as the code's
do, and blocks with room for the length behind the mark; references other than
0, identifiers that are not empty; natural bounds elsewhere.

What a recursive function returns (the fields of a reply, the bytes of a digest,
a vector without an element, a sweep) is shown at its arguments by taking the
least place at which the fact fails, because the library's induction theorems
cannot be instantiated.

Only model-checked: liveness (`SilentConnectionsEnd`, `WritesEnd`,
`ShutdownEndsThread`, `SigintShutsDown`, `OnlineIsHandled`, `StartsUnlessRaced`,
the liveness parts of `ImplementsTaskQueue` and `ImplementsAdler`), which is out
of the prover's reach.

## 6. What is not modelled

* Contents of messages beyond their fields, JSON, ciphers, the rounds of SHA-1,
  SQL: data that the properties do not tell apart. An authentication finds an
  account or not.
* Memory: the buffer of a write (`src/network/connection.cpp:165`), which is the
  caller's and may be gone before the write completes, the two strings of the
  function that `connect` returns (`src/script/lua.cpp:387`), which Lua may
  collect before it is called, and the replies of `hiredis`; the races inside the Lua library when both threads call into it
  (`src/network/protocol.cpp:132`) and inside `hiredis` when two calls overlap:
  the code defines no outcome. `Startup` has the outcomes of calls that do not.
* A message that is sent twice (`include/network/outputmessage.h:40`), which has
  no room left for its headers, and `stop()` after `shutdown()`
  (`include/core/threadholder.h:36`): no caller does it.
* `Logger` and the aliases of `types.h`: nothing but output, and `addLog`, which
  would keep something, is called by nothing. Vendored Lua libraries, build
  files.
* Callbacks that connect or disconnect other callbacks than themselves while an
  event is emitted, and settings that do more than declare: the code allows
  them, no module does it.
* Replies of Redis that arrive in parts: a read brings whole ones.
* Ids of clients beyond 32 bits, and lists of 256 and more characters (section
  7).
* `exportLua` and `Module::unload`'s `terminate`, which nothing calls.

## 7. Observations

Behaviour met while modelling, next to the two findings of section 4, about
which the repository's documents and comments make no claim that a run could
check:

* An answer to a question asked before a restart is taken for the answer to the
  question that has the same id now (`lib/login.lua:2`).
* After the first failed `accept` no more clients are accepted
  (`src/network/connection.cpp`, `src/core/server.cpp:31`).
* A client that keeps sending within the read timeout is never closed. When two
  writes to it overlap, by a login's reply and the dispatcher's answer, the first
  `onWriteOperation` cancels the timer that was armed for the other
  (`src/network/connection.cpp:196`): if such a client then reads nothing, the
  second write stays for ever. `WritesEnd` has this as its hypothesis, and TLC
  finds the behaviour without it.
* A callback that the dispatcher's thread runs between
  `src/core/module.cpp:108` and `:113` resets the environment, and the module
  being loaded is written into the global environment as `module`. If its
  settings then fail, the object is deleted, and an `init` that runs in the
  global environment, or in a sandbox without a `module` of its own, registers
  the deleted one. `RegisteredAreAlive` has this as its hypothesis (`early`).
* A callback with an identifier that disconnects itself while it is called takes
  its module out of the vector under the emission: the module behind it is
  skipped. The function that `connect` returns for a callback without an
  identifier disconnects nothing (`src/script/lua.cpp:381`).
* A `connectOnce` callback that runs erases a slot under the emission: a later
  callback is skipped and the vector's last one may be called twice. A mark
  left by a manual disconnect disconnects whoever gets its reference next.
* A failed `connect` keeps its reference in use (`src/core/module.cpp:176-178`).
* `loadDependencies` is called by nothing, so no dependency is ever checked.
* A callback that fails leaves its module's environment installed
  (`include/script/lua.h:402`), and so does a module that fails to load. A
  callback that is called while a module loads, by its `init`'s `emit` or by the
  dispatcher's thread, leaves another environment, in which the module's
  remaining files are run. The login module subscribes in its last file, so it
  is a module listed after it that would meet this.
* A name listed twice in `modules.lua` is loaded twice; the second object is
  not in `m_modules` and gets events all the same.
* An account whose id is above 65,535 is refused although its password is right
  (`src/database/database.cpp:100`); the characters of account 0 are queried and
  thrown away. If only the second query fails the client is accepted with an
  empty list.
* `getNumber` has no test for NULL, which `getString` has; `getString` compares
  the cursor loosely (`src/database/dbresult.cpp:31`), which no caller can meet.
  Results are never freed (`mysql_free_result` is not called).
* `onLoadModule` is emitted before `isModuleLoaded` is true for the module.
* `canRead` counts the length from the start of the buffer's packet area, which
  lets a login packet be read up to eight bytes past its end.
* `subscribe` and the subscriber's loop use one connection from two threads. If
  the loop takes the confirmation, `subscribe` takes the first message instead
  and frees it, or waits as long as there is none; a message that one thread has
  fed to the reader and not taken waits there for the next one.
* The subscriber's thread ends on the first error of `select` or of Redis, a
  signal that interrupts `select` included, and is not started again; its
  `continue`s skip `freeReplyObject` (`src/redis/sub.cpp:77` and `:88`).
* When loading modules or opening the port fails, `main` returns with both
  threads running and joinable, and the process aborts.
* The number of characters is sent modulo 256 (`src/network/protocol.cpp:46`) and
  the end of the premium time as 32 of 64 bits (`:58`).
* `Protocol::getId` keeps 32 of a connection's 64 bits
  (`src/network/protocol.cpp:164`), which `g_login.getClient` then looks for.
* An explicit nil as the identifier of `Module:connect` stays on the stack, and
  each argument is taken for the one before it (`src/script/lua.cpp:352-354`). A
  `connect` that succeeds returns three values, the function that disconnects
  being the last (`:386-399`).
* `LuaScript::init` leaves three slots on the stack (`src/script/lua.cpp:222`).
  `internalCallLuaField` pops one too few (`include/script/lua.h:301`); nothing
  instantiates it.
* A question without an answer leaves its callback in the table for ever
  (`lib/login.lua`).
