# TLA+ models of deric_rpc

Models, model-checking runs and machine-checked proofs for deric_rpc, a small RPC
library in C++14 over TCP and epoll. Paths below are relative to the repository;
`PROJECT.json` maps every definition to the lines it models.

## 1. Inventory

| Component | State | Operations | Talks to |
|---|---|---|---|
| `IoModule` (`deric_rpc/io/src/io_module.cpp`) | `m_state`, wake-up pipe, epoll descriptor, events array, `m_ioMembers`; `m_instanceMutex`, `m_ioMembersMutex`; one detached polling thread | `init` `deinit` `start` `stop` `addIoMember` `removeIoMember` `wakeupModule`, the loop `waitThreadFunc` | called by everybody; calls back `IoMember::onReadAvailable`, `onIoError` |
| `DericProcess`, `DericProcessEntry` (`process/`) | `m_init`, `m_initMutex` | `init` `deinit` | `IoModule` |
| `TcpIoServer`, `TcpIoServerEntry` (`io/`) | `m_state`, listening socket, `m_ioEntry`; no lock | `init` `deInit` `start` `stop` `onConnectRequest` `onIoError` | `IoModule`, `RpcServiceImpl` |
| `TcpIoConnection` (`io/`) | `m_state`, `m_socketFd`, mode, two buffers; no lock | `start` (two forms) `stop` `sendData` `onReadAvailable` `onIoError` | its client entry |
| `RpcServiceImpl` (`rpc/server`) | `m_state`, `m_clients`, `m_functions`; a mutex for each | `init` `deInit` `start` `stop` `registerMethod` `unregisterMethod` `handleData` `handleCommand`, create and remove a client entry | `TcpIoServer`, client entries |
| `RpcServiceClientEntry` (`rpc/server`) | `m_ioConnection`, its id | `start` `stop` `handleEvent` `handleData` `sendData` | `IoModule`, `TcpIoConnection`, `RpcServiceImpl` |
| `RpcServiceEntry` (`rpc/server`) | the `RpcServiceImpl` | `init` (reads IP and Port of the configuration); the others forward | `RpcConfig`, `RpcServiceImpl` |
| `RpcClientEntry` (`rpc/client`) | `m_serialer`, `m_clientImpl`, `m_waitingItems` under `m_waitingLock`, the static message index | `init` `deinit` `connect` `disconnect` `invoke` `invokeWithResultSync` `serviceMessageCallback` | `RpcClientImpl` |
| `RpcClientImpl` (`rpc/client`) | `m_ioConnection`, the message callback; no lock | `connect` `disconnect` `sendMsg` `handleEvent` `handleData` | `TcpIoConnection`, `IoModule` |
| `FunctionHelper`, `function_traits` | the serialiser | `exec` (four overloads) | user functions |
| `RpcSerialer`, `message_public.h` | none | encode, decode, byte order | |
| `RpcConfig` (`config/`) | `m_configItemMap` | `init` `getValue` `parseLine` | `RpcServiceEntry` |

What is hard. Two kinds of threads touch everything: the application's, and the
one polling thread that runs every callback. The locks of `IoModule` are released
around every epoll call and callback; `TcpIoServer`, `TcpIoConnection` and
`RpcClientImpl` have none. The polling thread is detached, so nobody knows when it
ends. Two early exits of `IoModule` return with a mutex locked. A reply can overtake
its caller. A blocking `recv` in the polling thread waits for the rest of a frame.
`PROJECT.json` "hazards" lists each of these at its line.

What makes each component correct:

* `IoModule`: its state says what is running; table, epoll set and owners agree; no
  call keeps the mutex; a stopped thread ends, and is the last to touch the module.
* service: a registered connection always has a client entry that handles its
  events; stop leaves nothing behind and returns; no answer leaves a stopped service.
* client: a result goes to the call it belongs to; nothing is made up; a call returns;
  a connection that connect returned with is polled, and its loss is noticed.
* a call through the service: what is run is what was sent, answers come in order,
  with the result of their request; a function that was unregistered is not run.
* configuration: a line means what its form says, and reading never ends the process
  but for a line without a separator.

## 2. Modules

```
IoModule -+- IoModuleProofs ------------------+--------------+
          |                                   |              |
          +- DericProcess -+- IoOwners -- IoOwnersProofs     |
                           |       \----- MCIoOwners         |
                           +- RpcService ------------- RpcServiceProofs
                           |       \----- MCRpcService
                           +- RpcClientConnection ---- RpcClientConnectionProofs
                                   \----- MCRpcClientConnection

RpcClientEntry -+- RpcClientEntryProofs -+- RpcClientCallsProofs
                +- RpcClientCalls -------+
                      |          \------- MCRpcClientEntry
                      | refines
                   RpcCall

Wire ------+- WireProofs
           +- ServiceCalls -+- ServiceCallsProofs
RpcConfig -/                \- MCServiceCalls
```

**`IoModule`** has the module's state and one operator per step: `init`, `deinit`,
`start` and `stop` are one section under `m_instanceMutex` each; `addIoMember` is
`CallAdd` (read the descriptor), `AddEntry` (the section under `m_ioMembersMutex`),
`AddCtl` (epoll_ctl), `AddWakeup`; `removeIoMember` is `CallRemove`, `RemoveEntry`,
`RemoveCtl`; the loop is `ThreadStart` ... `ThreadExit`. A section under a mutex is a
single step, so the variable `m_ioMembersMutex` says only whether an early exit kept
the mutex. `generation` numbers the pairs of pipe and epoll object that successive
inits open, together with the thread each gets: a late thread of an earlier
generation goes on over the newer objects as the code does, since it reads
`m_epollFd`, `m_epollEvents` and the pipe from the module. Undefined behaviour is a
choice: `EpollReturn` into a freed array may end the process (`crashed`), `ScanFreed`
does, and `Event` is anything when two threads share the array.

**`DericProcess`** brings the module up and down; `m_initMutex` is one program
counter. **`IoOwners`** puts owners on top that use the module as `TcpIoServer` does:
open a descriptor, add, remove, close, from application threads and from callbacks,
with descriptor numbers used again after close. It is the place where the early
exits should not be reached, and a theorem says that they are not.

**`RpcService`** composes IoModule and DericProcess with `RpcServiceImpl`,
`TcpIoServer`, `TcpIoConnection` and `RpcServiceClientEntry`: one application thread
(`apc`), the polling thread in a callback (`ppc`), and peers that connect, send and
close. `m_instanceMutex` and `m_clientsMutex` are held by `stop` over several steps
and are variables; the polling thread holds them within one step only. Accepting is a step
for every place where a stop can come between: the test of the state (`TestServer`), the call
of `accept` (`CallAccept`), its return (`AcceptConnection`, which a close of the listening
socket does not bring about), the use of `m_client` (a null pointer after `deInit`,
`CreateWithoutClient`), and so on to `ConnectionAdded`. Answering is three: `HandleData`, the
test of the connection in `sendData` (`TestConnection`), and `SendReply`. `epoll_wait`
returns what is ready (`Ready`), so the loop reads, blocks and spins as it would.
The ghost `causes` records the two circumstances the properties make an exception
for: a stop that overlaps with a callback that opens or closes a connection
("race"), and a failed start, whose entry stays in the table ("failedStart").

**`RpcClientConnection`** composes IoModule and DericProcess with `RpcClientImpl` and
the client side of `TcpIoConnection`. A member is one `TcpIoConnection`; `socketAt`
says whose socket is open under a descriptor, so a descriptor can pass from one
connection to the next. `disconnect` is `Disconnect` (the test of `m_ioConnection`),
`DisconnectStops` (close the descriptor, which leaves the epoll set) and `StopReturn`;
nothing takes the entry out of the table, as in the code. The next `connect` that is
given the number meets the stale entry: `AddEntry` keeps `m_ioMembersMutex` and the
call returns 0. A close event resets `m_ioConnection` whichever connection it is of
(`HandleEvent`). One thread connects and disconnects, as in the example; any number of
others (`Senders`) are in `sendMsg`, which is `SendMsg` (the test) and `SendData` (the use, one
step). Using a pointer that was reset between test and use ends the process. The ghost
`overlapped` says that `disconnect` reset it while a thread was between the two.

**`RpcClientEntry`** has the calls of any number of threads over one connection:
`++index` as load, store and reload, `sendMsg` as test and use, the shared send
buffer, `_addResultWaitingItem`, the wait without predicate, and `serviceMessageCallback`.
When a thread writes or sends the buffer while another is between its `memcpy` and its
`send`, what is in it or goes out may be either message, no message (`Torn`), or a blend
that can be parsed: any id with any function and the argument of either or of none
(`Blends`), followed by rest bytes when the lengths differ (`Rests`); or the race ends the
process. The service is what `handleData` and `FunctionHelper::exec` answer: a result, meta
data alone for an unknown function, nothing for a void function; a blend is served like any
request. The connection ends by the end of the stream, after the last answer (`CloseEvent`);
by an error that epoll reports, with answers still unread (`ErrorEvent`, out of `onIoError`); or by
`disconnect`, in three steps, at any time. Whether the service may close, the application
disconnect, and waits end by themselves are constants of the instance. Ghosts: `idOf`,
`executed`, `early`, `raced` (calls whose thread was in `sendData` with another) and `torn` (ids
that a blend carried).

**`RpcCall`** is what a client is promised: a call that was begun is executed at most
once, ends at most once, and ends with a result only if it was executed, and then
with its own. **`RpcClientCalls`** maps `RpcClientEntry` to it (`INSTANCE RpcCall WITH`):
the calls begun are `n`, the threads in a call `Busy`, what a call returned `ret`, the
executions `executed`. The promise is kept when one thread calls. With two it is not:
two threads that draw the same message id from the unprotected index can take each
other's result, and two that fill the one send buffer can send a request twice or blend
two. The theorem therefore has the hypothesis `Guarded`: no two threads take an id, or send, at
once. It is what a lock in `_getMessageId` and one in `sendData` would give; the code has
neither, so of the code as it is the promise is kept by a single caller (`SoleCaller`). For
several threads `ResultIsOwn` says that a shared id or a blend are the only ways to a wrong
result, and `ExecutedOnce` that two threads in `sendData` are the only way to a second execution.

**`ServiceCalls`** is the way of a call through the service: `RpcConfig::init` line by line,
`RpcServiceEntry::init` with the `std::stoi` that throws, start, stop and deInit, functions
registered and unregistered at any time; peers whose frames arrive in pieces and may
break off; the polling thread's two `recv` calls with `MSG_WAITALL` (`RecvHeader`,
`RecvBody`), `HandleData`, `Lookup` (the copy made under `m_functionsMutex`), `Run`
(without it) and `Send`. A `recv` that waits for more (`RecvWaits`) goes on waiting when the
service is stopped, since the socket stays open; one that is called after the stop fails
(`RecvFails`). A peer that reset its connection may be dropped by `onIoError` with bytes still
unread (`NextEvent`). A connection is open or not here: how it is opened and closed
against the IoModule is the subject of `RpcService`.

**`Wire`** has the five-byte header, the byte order helpers, and the body as a sequence
of one-byte fields: what msgpack makes of a field is left out, what the getters return
when unpacking throws is not. A header that came short is filled with the zeros the
cleared buffer holds. **`RpcConfig`** is `parseLine` with its `size_t` arithmetic
(`Minus1` wraps around; `NPos` is `npos`), against `Meaning`, which says by its form what a
line defines and does not share a definition with the parser.

Operators commented with "Wrong:" are variants of the definition below them with a
plausible bug. No specification uses them; `PROJECT.json` "mutants" names for each
property the variant that violates it.

## 3. Runs

| Run | Asks | Bounds | Result |
|---|---|---|---|
| `io_members` | do table, epoll set, mutex and owners agree while members come and go? is the stop byte reached behind wake bytes? | 2 members, 2 descriptors, 1 application thread and 1 polling thread that calls too | holds |
| `io_lifecycle` | do the module's states mean what they say over restarts? does a stopped thread end? | 3 generations, no members | holds |
| `io_deinit` | is the module down after deinit? | as above | violated (finding) |
| `client_one` | are results real, and answers that can be read delivered? is `RpcCall` implemented? | 1 thread, 3 calls, all kinds of functions, closing, disconnecting, spurious wakeups | holds |
| `client_two` | do two threads get their own results? is a call executed once? | 2 threads, 1 call each of a value function, 2 ids, closing | holds |
| `client_lost_reply` | does every call return? | 1 thread, 1 call, service stays up | violated (finding) |
| `client_connection` | what can go wrong when a client connects again? is a loss noticed? | 3 connections, 2 descriptors, 1 answer each on the way, a second thread that sends | holds |
| `service_one` | does stop empty the service, silence it and return? are requests read? | 1 peer, 2 starts, 2 requests | holds |
| `service_two` | are all registered connections owned? is the mutex free outside the race? | 2 peers, 1 start, 1 request each | holds |
| `service_stop` | does stop always return? | 1 peer, 1 start | violated (finding) |
| `service_refused` | is a refused stop harmless? | 1 peer, 1 start | violated (finding) |
| `service_calls` | is what is run and answered what was sent? are lines read as they are meant? | 2 peers with 2 requests and 1, one function and one unknown name; every line of up to 4 characters over 5 symbols and 5 files of several lines | holds |

What the passing runs of the parts with exceptions show:

* `client_connection`: the mutex of the table is kept only by a connect that was given
  the descriptor of a connection that is still registered though it was stopped
  (`MutexKeptOnlyByReuse`): by `disconnect`, or by a `connect` that failed. The
  connection in use is polled, or such an entry is in the place of its own and it is not
  (`ConnectedIsPolled`). A connection that was not lost is dropped only after another
  one was lost (`DropNeedsLoss`), and the process dies only after a loss, or when a
  `disconnect` meets a send between its test and its use (`CrashNeedsLoss`).
* `client_two`: what goes wrong between two threads goes back to the index that gave both
  one id, or to both being in `sendData` at once; waiting items are never mixed up.
* `service_one`: a callback may execute a request, and the service be stopped, or started
  again, before the answer is sent: it is not sent then (`AnswersStayInService`), because stop
  takes the descriptor of every connection.
* `service_two`: without a race and a failed start the early exits are not reached.
* `service_calls`: what the getters return for missing fields is run only for the last
  request of a peer that broke off (`RunStemsFromRequest`).

Why the bounds are enough. In `io_members` two members and two descriptors are the
least that let a number move from one member to another while events for it wait in
a batch. Three generations let a thread of generation 1 meet two later ones. One wake byte
(`MaxBytes`) lets the stop byte be behind another; more wake bytes only repeat that.
Two client threads are the least for a shared id and for a blend; a second kind of function
and a disconnect are left to `client_one`, where the state space allows for them. Three calls
are the least for a late answer to meet a later one. Three connections over two descriptors let one be lost, one be
stopped, and a third be given either's number. One peer lets stop meet every step of
its accepting and closing; two let a connection be opened while another closes in the
same batch. `RpcService` and `RpcClientConnection` have one generation and `MaxBytes = 0`:
restarts and wake bytes are the subject of `IoOwners`. In `service_calls` a frame has nine
bytes, five of the header; `Breaks = {0, 2, 7}` breaks it inside of the header (7 missing),
inside of the body (2 missing) or not at all, and two peers let one wait while the
other's frame is incomplete. Four characters are enough for a separator at each end, a
blank on either side of it, an empty name and an empty value; `NPos = 15` is larger
than every index, which is all that is used of `npos`.

The four violations are explained in `PROJECT.json` "findings":

* `io_deinit`: the detached thread sets `m_state` to INITIALIZED after deinit; the next
  init of the process creates nothing and fails in start, where it undoes what is left.
* `client_lost_reply`: send before register and a wait without a predicate lose the
  notification, and the call hangs.
* `service_stop`: stop of a service that is accepting or closing a connection removes it
  twice or too early and deadlocks on `m_ioMembersMutex`.
* `service_refused`: stop before init returns -1 and leaves a service that nothing
  can initialise, start or deinit.

Deadlock is checked in every run. The states in which the system really may stop
have a stuttering disjunct of their own (`Dead`, `Finished`, `Quiet`) that names them.

## 4. Fairness

Weak fairness for every call that is under way and for the polling thread: a thread
of the process that can run does. `EpollReturn` is enabled only when a descriptor is
ready, and blocking reads are actions that are not enabled, so fairness never forces a
blocked thread. In `IoOwners` the end of a callback has strong fairness: the callback
is straight-line code, but the model lets it make calls, which disables its end for
a while. In `RpcClientEntry` a thread in `cvwait` is under no obligation, the
service serves what it has received, and answers that came in are handed over, because
epoll is level-triggered. Nothing is assumed of the application and the peers: no
call, connection, request or close has to happen.

`RpcService` and `RpcClientConnection` need no strong fairness: while the application's
thread holds a mutex its own steps do not depend on the polling thread, so what waits for
that mutex is enabled for good once it is free. In `ServiceCalls` only the polling thread
is fair. There `MessagesAreRead` has a hypothesis of its own: no peer leaves the thread in
the middle of a frame for ever. With one that does the property is false, by the design
of the code: one thread, and `MSG_WAITALL`.

## 5. Proofs

Eight modules are checked by TLAPS, for every value of the constants that satisfies the
named assumptions (`IoAssumption`, `ServiceAssumption`, `ClientAssumption`,
`CallsAssumption`, `ConfigAssumption`, `ConnectionAssumption`). Every invariant and action property
that a passing run checks is a theorem, and the refinement of `RpcCall` is one.

*`IoModuleProofs`* has the lemmas about IoModule's steps that its three users share: what each
leaves alone, and that a call's frame keeps its type.

*`IoOwnersProofs`, lifecycle.* The type invariant and `LifecycleInv` are inductive together.
`StartedHasLoop` and `InitMeansPolling` are not inductive alone: one has to know that
a thread that has been created but not run yet (`SpawnedIsCurrent`) belongs to the
open generation, that the process is up and nobody is in deinit, and that no stop byte
is in its pipe; that a generation not opened yet is untouched; that a generation
without its pipe in the epoll set has no thread. What makes this true of the
code is that a DericProcess::deinit that comes before the thread runs fails in stop.

*`IoOwnersProofs`, owners.* `OwnersInv` adds that descriptors are held by one member each,
that a call is about a member in the corresponding phase and no two calls about one member,
and that a table entry stems from such a call or an added member. `MutexNeverKept`,
`PolledIsRegistered` and `TableMatchesOwners` follow.

*`RpcServiceProofs`.* `ServiceInv` is the type invariant with `PollFacts` (where the polling
thread is when it is in a callback, and for which member) and `DueReplies`: a request
that is being handled is in neither `inbox` nor `replies`, so that their sum with it
stays within `sent`, which the type of `replies` needs.

*`RpcServiceProofs`, stop.* The three other invariants of the service hold as long as no stop has
overlapped with a callback that opens or closes (`NoRace`) and no start has failed, which is what
`causes` records. None is inductive: whether `removeIoMember` finds its descriptor, and so returns
without the mutex, depends on what every thread has done to that connection before.
`CleanInv` therefore states, while `causes` is empty, where everything is: the states of
the service and of its server against the two program counters (`ServerPhase`), the table of
clients (`ClientsPhase`), which call of `IoModule` each thread is in and for which member
(`CallsPhase`), the listening socket from start to stop (`ListenerPhase`), and each connection from
accept to close (`ConnPhase`): out of the module's table and stopped unless it has a client
entry, registered and started if it has one and nobody opens, closes or stops it, and in between
as far as the thread that does has come. `UpInv` adds that the process is up while the service
is started. From `CleanInv` follow `MutexKeptOnlyInRace`, `ConnectionsAreOwned` and
`StoppedIsEmpty`, for any number of connections, starts and requests, and `AnswersStayInService`:
only `SendReply` changes `replies`, for a connection that holds its descriptor still, and by
`ConnPhase` such a one has its client entry in the table of a started service. The lemmas have
one action each, and two about a connection a step does not touch (`ConnKept`, `ConnElse`).

*`RpcClientEntryProofs`.* `ClientInv` says of every message, buffer and waiting item that
holds a result that the call it stems from used its id, or that a blend carried that id
(`MessagesStem`), and of every thread past `_getMessageId` which id its call has
(`IdsAreKnown`). `ResultIsOwn` follows for any number of threads: with the result of another
call in hand both calls have the same id, or a blend had it. `ItemsHaveOwners` needs the test
for a duplicate in `_addResultWaitingItem` and nothing of the index. `ValueInv` says what an
answer to a value function is worth on its way: a result unless the id is shared.
`NoSilentDefault` follows, for any number of threads.

*`RpcClientCallsProofs`.* `SentOnce` is about the calls whose thread was never in `sendData`
together with another: what such a thread has filled is what it sends, its request is on
the wire at most once and not executed yet, and once it is executed it is on the wire no
more. The other threads send nothing of such a call, because a buffer they write or
send holds bytes of calls in `raced` only. It is inductive without a hypothesis on threads
or ids, and `ExecutedOnce` follows for the code as it is (`CallsRunOnce`).
`SerialInv` says that ids differ, that nothing was blended, and that a result stems from
an execution. It is inductive under `Guarded`, which it needs before and after a step: a
thread that has loaded the index is the only one to store it, and the buffer that is sent is
the one that was filled. With both every step of `RpcClientEntry` is a step of `RpcCall` or a
stutter: `GuardedCallsImplementRpcCall`, for any number of threads that call and wait at
once. A single caller is always guarded (`SoleIsGuarded`), which gives
`SerialCallsImplementRpcCall` for the code as it is.

*`WireProofs`.* `GET_UINT32_FROM_CHARS` inverts `SET_UINT32_TO_CHARS` on all 32-bit numbers, and
a whole header tells the length it was made for.

*`RpcClientConnectionProofs`.* `ConnectionInv` says where sockets, table entries and calls are. A connection that holds a descriptor has its
socket there (`SocketInv`), so no two have the same one, and a stop takes no other out of
the epoll set. What is registered, connected or in the making is no member that `connect` may make
next (`MadeInv`). `AppInv` follows the running `addIoMember`: at its first step the new
connection is in no table, so if its descriptor is, the entry is one that was stopped, which
is what `MutexKeptOnlyByReuse` says. `TableInv` says that a polled descriptor has the entry of
the connection that holds it, and that the connection in use is `Entered`: its descriptor is in
the table, and polled if the entry is its own. No entry is ever taken out, so an entry that is
not its own keeps `addIoMember` from polling it; that is `ConnectedIsPolled`. `ProcessInv` says that the polling thread exists exactly as long as the
process is up, with the open epoll object, so that neither `EpollReturn` nor the scan meets freed
memory. `LossInv` lists the states that come before a crash or an empty `m_ioConnection`, and
says of each that a connection was lost, or that a disconnect overlapped with a send;
`CrashNeedsLoss` and `DropNeedsLoss` follow. They hold for any number of sending threads and
one that connects and disconnects: two that do so at once would need no loss, since
`RpcClientImpl` has no lock.

*`ServiceCallsProofs`, calls.* The type invariant over any splitting of the bytes, and
`AtMostOneLateRun`: `late` counts runs after `unregisterMethod`, and a second one would need a
second lookup, which finds nothing; the invariant says that a function that has had its late run is
neither registered nor about to run.

*`ServiceCallsProofs`, bytes.* What has been read of a connection is not kept, so `StreamInv` counts
it: of the bytes of all its frames, one after another, the first c were read, the next up to r wait
in the inbox, and the rest has not left the peer or, when it broke off, is lost with at most its
last frame. Between two messages c is the end of a frame, in front of a body it is the end of a header
and the length is right, and in the handlers the message is the frame that ends at c: or, of a
peer that broke off, nothing more is to come. What was answered lies in front of c, and in front of the
request that is handled. It stands on lemmas about the frames of `Wire` (`HeaderRoundTrip` for the
length) and about what `SubSeq` and concatenation do to places in a sequence.
`ReplyInv` says that the answer in the making is that of the message in hand.
`RunStemsFromRequest` and `AnswersInOrder` follow.

*`ServiceCallsProofs`, configuration.* `ThrowsOnlyWithoutSeparator` and `ParsedAsMeant` need no induction over
the characters: what `find`, `find_first_not_of` and `find_last_not_of` return is characterised once
by its place in the line, the unsigned subtraction is taken apart into its cases, and the result
compared with `Meaning` of the line. The assumption that no line is longer than `npos` is the
library's own: an index is never `npos`. The induction over the lines is the one of the behaviour, with
`ParsedAsMeant` as its invariant.

Only model-checked: the liveness properties (`EveryCallReturns`, `StopReachesLoop`,
`AnsweredCallReturns`, `AppReturns`, `RequestsAreRead`, `MessagesAreRead`, `LossIsNoticed`), because
fairness and ENABLED are out of the prover's reach. They are also not safety in disguise: each
holds only because a thread that can go on does.

## 6. Not modelled

* msgpack's bytes and the unpacking of argument tuples: a field is one byte, a function
  has one argument.
* Debug output and build files; the examples, whose use of the library is what the
  application's threads do.
* `IO_MEMBER_ERROR_ACTION_DELETE`, which no member returns; `REGISTER` and `NOTIFY`
  messages, `handleRegister`, `postEvent` and `invokeWithResultAsync`, which are empty.
* Failures of `socket`, `bind`, `listen`, `accept` and `::connect`, which leave the state as it
  was, and of `pthread` calls. More events than the 1024 of one `epoll_wait`.
* `DericProcess::deinit` under a running service or client: `IoOwners` has it for the module.
* `TcpIoServer::start` closing a descriptor whose `addIoMember` failed is left out of `IoOwners` and
  is in `RpcService` (`StartReturn`, the cause "failedStart").
* Two threads that connect or disconnect one client at the same time. A disconnect at any time of
  a call is in `RpcClientEntry` and `RpcClientConnection`, where `sendData` itself is one step; its
  interleaving with another `sendData` is in `RpcClientEntry`.
* Registration of functions before the first `init` of the service entry (a bound of `ServiceCalls`):
  nobody can call them then.
* `RpcClientEntry::deinit` while calls are in progress: the waiting threads' condition
  variables are destroyed, about which nothing can be promised.

## 7. Order of work

The models were written from the inside out: `IoModule`, `DericProcess` and `IoOwners`;
the client's calls; the service; the client's connections; the way of a call through the
service with its wire format and configuration; the abstract call and its refinement; then
the proofs in the order of section 5. What would come next: `ServiceCalls` on top of
`RpcService` instead of beside it.
