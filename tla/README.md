# Verification of protobuf-libevent

TLA+ specifications of the RPC client and server in `src/protobuf-libevent/`,
model-checked with TLC on small instances, with theorems proved by TLAPS for
every instance. A line reference such as `:191` is to the file named nearest
before it. The comments of the sources are in GBK.

## 1. The system

A program calls a generated service stub; the stub calls
`RpcChannelImpl::CallMethod`, which serialises the request, remembers the
caller's closure and sends the request through a libevent bufferevent to an
`RpcServer`, which runs the service's method and sends the reply back. The
channel finds the closure by the message id, fills the caller's response and
runs the closure.

| part | files | state | operations |
| --- | --- | --- | --- |
| Channel | `RpcChannelImpl.cpp/.h` | `m_id`, `m_bev` (with `m_bev_lock`), `m_request_cache` and `m_callback_cache` (a lock each), the connect, heartbeat and request timers, the bufferevent of the connection | `CallMethod` on application threads; on the event-loop thread `event_cb`, `read_cb`/`decode`, `connect_time_cb`, `heartbeat_time_cb`, `request_time_cb` |
| Server | `RpcServer.cpp/.h` | per connection a `bufferevent_client` {`bev`, `refcnt`, `lock`}; per request an `RpcServerClosure` | `accept_socket_cb`, `read_cb`/`decode`, `event_cb` on the loop; `done_cb` on any thread |
| Controller | `RpcControllerImpl.cpp/.h` | canceled flag, error text | `StartCancel`, `SetFailed`, `Failed`, `IsCanceled`, `Reset`, `NotifyOnCancel` |
| Service | `EchoServiceImpl.cpp/.h` | `sec`, a static counter of seconds | `Add` (answers at once), `Echo` (answers from a thread of its own, later) |
| Life of channel and server | constructors, `worker`, destructors | `m_threadid`, the event base's break flag | start, loop, stop |
| Framing | `read_cb` of both sides, `rpc.h` | the input buffer's bytes | skip to a packet, take it, wait for the rest |
| Messages | `protobuf/bin/*.proto` | - | error codes, request and reply |
| Demonstration, threads | `main.cpp`, `pch.cpp` | - | one application thread that makes 30 calls; `sys_os_create_thread` |
| Keeping a connection alive | the heartbeat timer, `read_cb`, `tv_read` of both sides | time since each end read something | `heartbeat_time_cb`, a heartbeat sent back, TIMEOUT in both `event_cb` |
| Generated and vendored code | `*.pb.*`, `libevent/`, `protobuf/include` | - | not specified on its own; what the code relies on is modelled as external |

How they interact:

* Application threads and the loop thread of a channel share `m_bev`, the two
  caches and `m_id`. `m_bev` and each cache have a lock; `m_id` has none.
* The client's bufferevent has a recursive lock of its own. libevent takes it
  in every `evbuffer_add`, and holds it while a deferred callback runs, because
  the client creates its bufferevent without `BEV_OPT_UNLOCK_CALLBACKS`
  (`RpcChannelImpl.cpp:357`). The server's has that option
  (`RpcServer.cpp:375`), so its callbacks run without the lock.
* A `done` closure runs on the loop thread, in `decode` without a lock or in the
  sweep under `m_callback_cache_lock`; it deletes the controller, the messages
  and itself (`main.cpp` `DoneCallback`), and may call `CallMethod` again.
* On the server the loop and the echo threads share a connection's
  `bufferevent_client`, which goes when the bufferevent and every closure have
  given up their references.

What is hard here, in short (the full list, line by line, is `hazards` of
`PROJECT.json`): two locks taken in two orders; a check of `m_bev` that is
stale when used; a call registered in two steps; an id counter without a lock;
late, lost and failed replies; the sweep running closures under its lock; a
bufferevent freed while others send on it; the reference count of a client
shared between threads; an echo thread that does not start; startup and
shutdown races; 32-bit time arithmetic.

What makes each part correct:

* channel: each closure runs exactly once and finds an outcome that is true; no
  freed memory is touched; packets stay whole; a lost connection is replaced;
* server: the reference count is the number of holders; no freed memory is
  touched; each request is answered once, whole, on its own connection; the
  client of a lost connection is freed in the end;
* controller: a canceled call is reported as such; the cancel callback runs once;
* both together: a request is taken at most once and the caller is told of it truly;
* keeping alive: an idle connection stays up, a silent one is given up;
* time: a call is given up neither early nor late, and in the end;
* life: a destructor returns, and frees nothing its thread can still get at;
* framing: however the bytes are cut, the packets sent are the packets decoded,
  and noise between them costs no more than what it can look like.

## 2. Modules

| module | what it is |
| --- | --- |
| `RpcPromise` | the abstract contract of one call: delivered at most once, completed at most once, with an outcome that agrees with what happened to the request |
| `RpcChannel` | the client, every handler a set of steps; `Promise == INSTANCE RpcPromise WITH ...` is its refinement mapping |
| `RpcServer` | the server with the two methods of `EchoServiceImpl` |
| `RpcSystem` | both composed: `RpcChannel` extended, `RpcServer` instantiated as the other end of its connections; `EndToEnd == INSTANCE RpcPromise WITH ...` maps the whole to the contract |
| `RpcController` | `RpcControllerImpl` at both ends of a call, used for one call after the other |
| `Lifecycle` | constructors, workers and destructors of both classes, in the order of `main` |
| `Framing` | the loop of both `read_cb` on bytes |
| `RequestTimeout` | the age test of the sweep: a wrapping `long`, a wall clock, an order of ids |
| `KeepAlive` | heartbeats and read timeouts of an idle connection |
| `EchoDelay` | the arithmetic of `echo_worker`'s sleep |
| `MCRpcChannel`, `MCRpcServer`, `MCRpcSystem`, `MCLifecycle`, `MCFraming`, `MCEchoDelay` | constants, and symmetry where it is used, for TLC; `RpcController`, `RequestTimeout` and `KeepAlive` have numbers as constants and are checked as they are |
| `RpcChannelProofs`, `RpcServerProofs`, `RpcSystemProofs`, `RpcControllerProofs`, `LifecycleProofs`, `FramingProofs`, `KeepAliveProofs`, `OverflowProofs` | the theorems about these modules; the last is about `RequestTimeout` and `EchoDelay`, whose numbers may overflow |

`RpcChannel` and `RpcServer` have the control of the program; the others take
one mechanism each that these two leave open, so that its own detail (bytes,
bits of a `long`, seconds, the start of a thread) does not multiply with all the
rest. What a part leaves out is a free choice in it: `RpcChannel` lets a call
expire at any tick, and `RequestTimeout` says when it does; `RpcChannel`
connects to any peer, and `RpcSystemProofs` proves that `RpcServer` is one.

### RpcChannel and the code

A step of the model is the code between two points at which another thread can
be observed: a contended lock, or an access to shared data that nothing
protects. `pc[t]` says where thread `t` is.

| model | code (`RpcChannelImpl.cpp`) |
| --- | --- |
| `Begin`, `Increment` | `++m_id` (`:178`), a load and a store: `reg[t]` is the value loaded |
| `Stamp`, `AddCallback` | `evutil_gettimeofday`, the second read of `m_id`, `add_callback_cache` (`:188-189`) |
| `CheckBev`, `AddHeader`, `AddBody` | `:191-195` with the two `evbuffer_add` of `send_no_lock` |
| `ReadId`, `AddRequest` | `:202`: the third read of `m_id`, an argument; then `add_request_cache` (`:466`), which inserts under its lock |
| `ConnectedCb`, `SetBev`, `SendCacheLock`, `FlushOne`, `FlushEnd` | `event_cb` with CONNECTED and `send_request_cache` |
| `ErrorCb`, `ClearBev` | `event_cb` with EOF, ERROR or TIMEOUT |
| `ConnectTimerCb`, `HeartbeatCb` | the two timers' callbacks |
| `RequestTimerCb`, `Sweep`, `EraseSwept`, `SweepEnd` | `guess_callback_cache` |
| `ReadCb`, `Decode`, `ReadEnd` | `read_cb` by whole packets, and `decode` |
| `Run` | `Closure::Run`, which may enter `CallMethod` on the loop thread and come back to `resume` |
| `Cancel` | `RpcControllerImpl::StartCancel` by the application |
| `ConnectOk`, `ConnectionLost`, `PeerReceive`, `PeerReply`, `Tick` | the network, the server at the other end, the clock |

The caches are functions from ids to calls, `NULL` where the map has no entry.
A call stands for its controller, its messages and its closure. Two details
matter and are easy to lose: `std::map::insert` leaves an existing entry alone,
and the sweep erases an entry only after its closure has run.
`m_request_cache_lock` is never held across another lock, so the few lines it
protects are one step and it needs no variable. In `FlushOne` header and body
are one step, because the loop holds `m_bev_lock` and the bufferevent's lock.
`m_callback_cache_lock` can be taken again by the thread that has it: it is a
Windows critical section, and a closure run by the sweep may call `CallMethod`.

### RpcServer and the code

| model | code (`RpcServer.cpp`) |
| --- | --- |
| `AcceptSocketCb` | `accept_socket_cb`, with a bufferevent that can be made or not |
| `ReadCb`, `EchoHeartbeat`, `Decode`, `ReadEnd` | `read_cb` by whole packets, and `decode`: what it rejects is answered at once like `Add` (`InlineRequests`), and what does not parse (any of `JunkRequests` may) is dropped |
| `EventCb`, `SetBev`, `DropClient`, `FreeDropped`, `FreeBev` | `event_cb` |
| `SerializeFails`, `LockReply`, `AddHeader`, `AddBody` | `done_cb` and `send_rpc_message`; a reply too large to be serialised (`HugeRequests`) is not sent (`:341`) |
| `Release`, `FreeReleased` | `~RpcServerClosure`, `bufferevent_client_free` |
| `EchoWorker` | `echo_worker` of `EchoServiceImpl.cpp`, when its sleep ends |
| `PeerSend`, `PeerHeartbeat`, `PeerReceive`, `ConnectionLost` | the client at the other end and the network |

libevent moves bytes to an input buffer on the loop thread, so `PeerSend` and
`PeerHeartbeat` need `Polling`: nothing arrives while a callback runs.

`bufferevent_client_free` unlocks before it destroys the lock and the client,
so it is two steps: the thread that saw the count reach zero is at
`free_client` in between, where another thread with the client in its hands
would be lost. An echo thread is named by its request. `done_cb` never finds a
canceled controller, since nothing on the server cancels one.

### RpcSystem and the code

Connection `b` is the channel's bufferevent `b` and the one the server accepts
for it. `ChannelStep` and `ServerStep` are what each end does by itself;
`ToServer` and `ToChannel` move one packet from an output to an input buffer and
take the place of the peers both modules leave open. Each end learns of a failure
by itself (`ConnectionLost` of either), or never of one the other has seen, and
what is sent to an end that is gone is lost.

### RpcController and the code

| model | code |
| --- | --- |
| `Reset`, `StartCancel`, `SetFailed`, `NotifyOnCancel` | the methods of `RpcControllerImpl.cpp`; `Reset` also stands for a new controller |
| `CallMethod`, `DecodeReply`, `Sweep`, `Fill`, `GiveUp` | `RpcChannelImpl.cpp` where it reads or writes the controller or the response |
| `DecodeRequest`, `DoneCb` | `RpcServer.cpp`, whose reply depends on `IsCanceled` only |
| `DoneCallback` | `main.cpp`: canceled, failed, or a response |
| `DropReply` | a reply nobody waits for any more, or lost |

### Lifecycle and the code

| model | code |
| --- | --- |
| `CreateThread`, `StoreThreadid` | the constructors: the thread runs before `m_threadid` is assigned |
| `Delete`, `Loopbreak`, `Free` | `main`'s deletes and the destructors, which poll `m_threadid` |
| `Dispatch`, `LoopEnds`, `WorkerEnds` | `worker`; `event_base_dispatch` begins by clearing the break |
| `BeginCallback`, `ServerCallback`, `ChannelCallback` | the callbacks, reduced to the call they move along |
| `CallMethod`, `EchoWakes` | `main`'s calls and `echo_worker` |

### Framing and the code

`SkipByte`, `SkipHeader`, `TakeHeartbeat`, `TakePacket`, `PullupFails` and
`WaitForMore` are the ways through one iteration of `read_cb`'s loop; `role` says
whose. `RPC_PACKET` is shortened to two bytes of magic, one of version and one
of length, and a byte is a number up to `MaxByte`. The other end sends segments
(`Send`): packets as `send_rpc_message` and `send_no_lock` build them, packets of
another version, and noise. `Receive` cuts their bytes in every way. `read_cb`'s
place in the stream is a position, `drained`, and what it finds there is recorded
with that position, so that the properties can speak of each packet and not only of
equal contents. A body may contain any bytes, those of a header too.

`FramingAssumption` keeps lengths below the first byte of the magic. In the code this
is a length below `0x4f000000`, a message of some 1.3 GB: only from there on can
`PROTOB` begin in the length of a header.

### RequestTimeout, KeepAlive, EchoDelay and the code

| model | code |
| --- | --- |
| `RequestTimeCb`, `Swept`, `IsOver` | `request_time_cb` and `guess_callback_cache`, with `LIMIT` for `12000000L` and a `long` of `2 * HALF` values (`Wrap`) |
| `CallMethod`, `StartCancel`, `Decode`, `ClockSet` | what adds a call, ends it otherwise, or moves the clock it is stamped with |
| `HeartbeatTimeCb`, `ServerReadCb`, `ClientReadCb`, `ClientEventCb`, `ServerEventCb` | the heartbeat timer, both `read_cb` on a heartbeat, both `event_cb` with TIMEOUT or EOF |
| `Cut`, `Heal`, `Tick` | the network, and time: at most `DELAY` from one loop into the other, and a loop at most `LAG` late for a timer |
| `Echo`, `Load`, `Store`, `Compute`, `USleep` | `Echo` and `echo_worker` of `EchoServiceImpl.cpp`, `USleep` of `pch.h`, with an `int` of `2 * INT_HALF` values |

## 3. Runs

| run | question | bounds |
| --- | --- | --- |
| `channel_app` | where requests and replies go, which bufferevents are used, and whether the channel implements `RpcPromise` | one application thread, two calls, two bufferevents (one reconnect), two ids, a timeout of one tick |
| `channel_reentrant` | does each closure run once, and is no request sent twice, when a closure calls `CallMethod` while another call is being made and `++m_id` is raced? is there another deadlock than the lock cycle? | two calls by a thread, one by a closure, two ids; one bufferevent |
| `channel_live` | is each call completed, and a lost connection given up, under the timers' fairness? | two calls, one bufferevent |
| `server` | counts, frees, frames, answers; do closures run and clients go? | two connections, an Echo whose thread may not start, one inline request whose reply may be too large, either of which may not parse, heartbeats |
| `system` | is a request taken once and its caller told the truth, across a reconnect that the ends see at different times? | two bufferevents and connections; an Echo or a request the server rejects, one id, so one of the two calls is made |
| `framing` | are the packets decoded the packets sent? | every stream of up to three segments, in every cut, at both ends, with bytes up to 4 (so lengths up to 2), bodies and noise that look like the start of a header or like a whole one, failures of `evbuffer_pullup` |
| `life` | are destructors safe, and do they return? | both objects, two calls, threads and dispatches that may fail |
| `controller` | is what `DoneCallback` finds true, and does it always find something? | three calls with one controller, methods that fail and notify |
| `timeout` | is a call given up early, late, never? | three calls, the clock set once by any amount, a `long` of 12 ticks for a limit of 3 |
| `keepalive` | does an idle connection live, is a dead one noticed? | a heartbeat of 2, a read timeout of 7, delay and lag of 1 (the code's 10 s and 30 s leave more to spare) |
| `echo_delay` | how wrong can the sleep be? | four echo threads, an `int` that overflows after three steps |
| `lock_cycle` | the finding | one call |

Why these bounds are enough to be interesting. The races of the channel are
between one caller and the loop, or between two ids in the caches (order of the
sweep, head of the line, a reply for the other call), or between two connections
(flush after a reconnect, a reply on a connection that is gone). Two of each make
all of them happen. In `channel_reentrant` the closure of the first call makes the
third while the thread makes the second; a third id is only needed if these two do not
share one, so with `MaxId = 2` the run is about the behaviours in which they do, or in
which one of them has not got an id yet. In the server, two connections, an echo thread and a request
answered on the loop give a client of up to three holders, threads that compete
with `event_cb` for the last reference, and replies that could reach the wrong
connection; all these invariants are proved for every number. Three calls with one
controller let the reply to the first arrive during the third. Three segments put noise before,
between and after packets. The clock's range is the smallest that
`TimeoutAssumption` allows with these constants, so that it wraps while calls
wait. Four echo threads are one more than make the `int` overflow.

`MaxId` stops `Increment` where the ids run out; calls beyond it do not happen
since each call takes at most one id. `MaxBev` makes a later
`create_bufferevent_socket` fail, which the code handles. At most one heartbeat
of a connection is in a buffer at a time. `MaxCalls`, `MaxSegments` and `MaxSteps`
end what the application, the peer and whoever sets the clock do. Deadlock is
not checked: in the channel the lock cycle is one (that is the finding), and
elsewhere nothing is left to do when the calls, connections and requests of an
instance are used up.

The symmetry sets exchange calls made by the same kind of thread, and the threads of
`EchoDelay`, and are used in safety runs only.

### Properties

Channel: `TypeOK`, `DoneOnce`, `NoStaleEntry`, `NoUseAfterFree`, `FramesWhole`,
`ReconnectArmed`, `SentOnce`, `OwnReply`, `RegisteredBeforeSent`, the action
properties `NoCallbackDropped` and `NoWriteAfterDone`, the refinement
`PromiseKept`, and the liveness properties `DoneUnlessLockCycle` and
`LostIsReplaced`. `OwnReply`, `RegisteredBeforeSent` and `PromiseKept` need
unique ids and are run with one caller and no nested call: with two callers the
first is violated (`id_race.cfg`, section 4). The others hold even though two
threads may be given the same id; `DoneOnce`, `NoStaleEntry` and
`NoCallbackDropped` could only go wrong then, or when a closure calls
`CallMethod` inside the sweep, and are run where both happen
(`channel_reentrant`). `SentOnce` and `NoWriteAfterDone` are run in both, with a
reconnect in the one and with raced ids in the other. `OnlyLockCycle` says that the lock cycle, the
finding of section 4, is the only deadlock: otherwise whoever waits for one of the
three locks waits for a thread that is working, or for one that waits for such a
thread.

Server: `RefcntIsHolders`, `NoUseAfterFree`, `FramesWhole`, `AnsweredOnce`, and
the liveness properties `ClientFreed` and `ClosureRuns`, which excuse the closures of
an Echo whose thread was not created (`Stranded`) and nothing else. `AnsweredOnce`
lets a closure go unanswered when its connection went first or its reply was too
large (`HugeRequests`).

System: `TakenOnce`, `ResultWasAnswered`, and the refinement `EndToEndPromise`,
where a request counts as delivered when the server has read it, not when the
channel has written it. Controller: `ToldTrue`, `EachCallTold`. Life:
`FreedAfterWorker`, `DestructorsReturn` (if the loops had begun) and
`ReturnUnlessOvertaken` (if not, with the two ways in which a destructor waits
for ever). Framing: `NothingInvented` and `NothingHeldBack`, which also says that
`read_cb` finds the next packet again behind noise that looks like a header, and
behind a failure in the middle of a packet.
Timeout: `NotEarly`, `InTime`, `OverInTheEnd`. Keeping alive: `IdleStaysUp`,
`SilenceDetected`. Echo delay: `OneStepAtLeast`, `NoOverflowBeforeMany`.

The comment above each one says what it is about. Each is shown to depend on
the code by a mutant: a definition changed as a plausible bug would change it,
with which TLC finds the property violated. The mutants' operators stand before
the definition they replace and are marked so.

### Fairness

* `RpcChannel`, `TimerFairness`: threads are scheduled; a lock waited for is
  granted in the end (strong fairness of a caller's and the loop's steps: a
  critical section is not promised to be fair, but the holders release it and
  the waits are short); the request timer, which its callback always arms again,
  fires; time passes. `EventFairness` adds, for `LostIsReplaced` only, that the
  loop serves the callbacks of a bufferevent that are due. Nothing is assumed of
  the network, the peer or the application.
* `RpcServer`: threads are scheduled, sleeps end, locks are granted in turn, and
  the loop serves each connection that has something to read or a failure to
  report, which `select` and its kin report again until it is done.
* `Lifecycle`: `main` and both workers go on (weak fairness). That a key is
  pressed is not assumed, nor that a sleep is long enough.
* `RpcController`: the loop goes on and its timer fires. `RequestTimeout`: time
  passes and the loop comes to its timer. Neither assumes that a reply comes.

## 4. Where the code and what is said of it differ

`lock_cycle` is a run and a finding of `PROJECT.json`: a caller in `send_no_lock`
holds `m_bev_lock` (`RpcChannelImpl.cpp:191`) and needs the bufferevent's lock;
`event_cb` has the latter and waits for the former. Both wait for ever, and no
closure runs any more, although `service.h:165` says that `done` will be called.

Nine more configurations are kept beside the runs. Each states what a comment, a
header or a program of the repository says, and TLC answers it with a
counterexample: `tlc -config <name>.cfg <module>.tla`.

| configuration | module | property | what the code does | what is said |
| --- | --- | --- | --- | --- |
| `missed_flush` | `MCRpcChannel` | `CachedOnlyOffline` | `RpcChannelImpl.cpp:199` releases `m_bev_lock` before the request is cached: a request cached just after the flush of a connect stays while the network is up | `:201`: sent once the network is reconnected |
| `orphan_request` | `MCRpcChannel` | `GivenUpNotCached` | a call given up between its two registrations (`:189`, `:202`) leaves its request behind, to be sent after it was completed. `PromiseKept` holds all the same: a timed out call promises nothing about delivery | `:201`: removed on timeout |
| `cancel_flag` | `MCRpcChannel` | `CanceledIndicatesFailure` | a canceled call completes without `SetFailed` (`:446`) | `service.h:230`: the controller will indicate that the call failed |
| `id_race` | `MCRpcChannel` | `OwnReply` | `++m_id` has no lock (`:178`): two calling threads may share an id and one gets the other's answer | `service.h:167`: `response` contains the response returned by the server |
| `dropped_calls` | `MCLifecycle` | `NoCallDropped` | the destructor (`:141`) leaves the caches: closures of calls in progress never run | `service.h:165` |
| `echo_outlives` | `MCLifecycle` | `NoEchoOnFreedBase` | `RpcServer.cpp:184` frees the base while echo threads sleep that will answer through its bufferevents | `main.cpp:138` deletes the server without waiting |
| `server_failure` | `RpcController` | `FailureReachesClient` | `done_cb` (`RpcServer.cpp:334`) never looks at `Failed()` | `service.h:239`: `SetFailed` causes `Failed()` to return true on the client side |
| `notify_cancels` | `RpcController` | `CanceledByClient` | `NotifyOnCancel` cancels the call it is used on (`RpcControllerImpl.cpp:49`) | `service.h:246`: if true, the client canceled |
| `server_timeout` | `KeepAlive` | `NoTimeout` | a read timeout is set (`RpcServer.cpp:382`) and is the one way the server notices a silent network | `RpcServer.cpp:324`: "we haven't enabled timeouts" |

Several hazards of `PROJECT.json` meet what the code does wrong only in one of these
configurations, and their notes name it. The properties listed with such a hazard say
what holds in spite of it.

An Echo whose thread does not start (`EchoServiceImpl.cpp:37`) is never answered and
keeps its client for ever: that is the exception `Stranded` in `ClosureRuns` and
`ClientFreed`. The two comments of `RpcServer.cpp` about interleaved writes (`:101`,
`:270`) do not apply to the code as it is: `client->lock` keeps packets whole
(`FramesWhole`).

## 5. Proofs

`RpcChannelProofs` proves ten theorems for every number of threads, calls,
bufferevents and ids, from `ChannelAssumption` alone (the constants name
different things and the bounds are positive). `Spec` puts no limit on the
number of callers, so they hold with `++m_id` raced by any number of threads, and
with `m_id` moving between each of `CallMethod`'s reads of it and what it is used for.

| theorem | property | argument |
| --- | --- | --- |
| `TypeCorrect` | `TypeOK` | `TypeInv`: types, and `Located`, which says that a thread inside `CallMethod` has a call, and the loop inside a callback has its bufferevent; needed because the actions index by `cur[t]` and `bev_locked` |
| `CompletedOnce` | `DoneOnce` | `EntryInv`, below |
| `NoStaleEntries` | `NoStaleEntry` | `EntryInv` |
| `CallbacksKept` | `NoCallbackDropped` | a step that removes an entry runs its closure, or is `EraseSwept`, whose entry `EntryInv` says is done |
| `ReconnectNeverLost` | `ReconnectArmed` | `ConnInv`, below |
| `SendsToLiveBev` | `NoUseAfterFree` | `ConnInv` |
| `DoneIsFinal` | `NoWriteAfterDone` | an entry whose closure has run is found by the sweep's erase alone, which writes nothing: `EntryInv` |
| `RequestsSentOnce` | `SentOnce` | `SendInv`, below |
| `FramesStayWhole` | `FramesWhole` | `FrameInv`, with the server's below |
| `OneDeadlock` | `OnlyLockCycle` | `HoldInv` and `HandledBev`, below |

`DoneOnce` is not inductive: a closure could run twice if its call had two
entries, or a stale one. `EntryInv` adds what excludes that: a call that is not
yet registered is held by one thread and has no entry (`FreshCalls`,
`DistinctCalls`, `UnbegunCalls`); a call has one entry at most (`OneKey`, true
even when ids collide, because `insert` leaves the entry that is there); only
the sweep leaves the entry of a completed call behind, at the id it is at
(`StaleIsSwept`, `SweptIsDone`), and it holds `m_callback_cache_lock` until it
has erased it (`SweepLocked`), so that no `Decode` can find the entry.

`ReconnectArmed` and `NoUseAfterFree` rest on `ConnInv`: pending events agree
with the state of the connection (`EventsTell`), a callback works on a
bufferevent that is there (`CallbackBev`), `m_bev` is alive (`BevAlive`), and
whoever sends holds `m_bev_lock` and has seen `m_bev` under it (`SenderHolds`).

`OnlyLockCycle` is about who holds what. `HoldInv` says that each lock is held only
where its holder is about to release it: `m_bev_lock` in a send or a flush,
`m_callback_cache_lock` in the sweep or in a closure it runs, the bufferevent's in a
callback of that bufferevent. So the loop never has the last two at once, and a
caller in a send waits for nobody but the loop. It does so only if `m_bev` is the
bufferevent of the loop's callback (`SenderHolds`, `SenderWorks`); then the loop is
in `read_cb` or in a closure that has not reached `m_bev_lock`, or it wants that lock
and this is the cycle. `HandledBev` excludes the one other place where the loop could
wait, `event_cb` before it has set `m_bev`: a bufferevent whose CONNECTED is being
handled is not `m_bev` yet.

`SentOnce` needs to know where a request is: with the thread in `CallMethod`
(`InHand`), in the cache, or sent. `SendInv` says that it is at one place at a time
(`OneHand`) and was sent from neither (`InHand`, `UnbegunUnsent`, `OneRequest`),
again whatever the ids do.

The last part of `RpcChannelProofs` is what the caller is told, for every number of calls,
ids and bufferevents. It assumes `OneCaller`: one thread makes the calls, and none is made
from a done closure. Without that the code does not make ids unique
(`id_race.cfg`), and each of these three is false.

| theorem | property | argument |
| --- | --- | --- |
| `AnsweredByOwn` | `OwnReply` | `CallInv`, below |
| `RegisteredFirst` | `RegisteredBeforeSent` | `RegInv`: with a fresh id, `insert` does add the entry, before the request is sent or cached |
| `PromiseIsKept` | `PromiseKept` | the refinement: `PromiseStep` maps each step of `RpcChannel` to a step of `RpcPromise` or a stutter |

The conjuncts of `CallInv` follow an id around. `IdInv`: ids are unique, and what waits
under an id is the call that was given it. `AnswerInv`: the bodies in an output, the
requests a peer has and the replies in an input are all of requests that were handed
to a connection. `ToldInv`: nothing was written to the controller of a call whose
closure has not run, and a call whose closure found `NO_NETWORK` is in no cache and in
no thread's hand, so nobody can send it any more. `Told` is what one step may tell a
closure; that the step of `Decode` and of the sweep are of that form
(`DecodeTells`, `SweepTells`) is all the refinement needs of them.

`RpcServerProofs` proves six theorems for every number of connections and
requests, from `ServerAssumption` alone (the constants name different things
and the requests are finitely many). Threads may fail to be created.

| theorem | property | argument |
| --- | --- | --- |
| `ServerTypeCorrect` | `TypeOK` | with `ReferencesCounted`: `refcnt` is decremented without a test, so that it stays a natural number needs the count to be right |
| `ReferencesCounted` | `RefcntIsHolders` | every step leaves the holders of each client alone, or adds or removes one and counts it (`HoldersNext`) |
| `NothingUsedAfterFree` | `NoUseAfterFree` | `MemoryInv` and `BevInv`, below |
| `EachAnsweredOnce` | `AnsweredOnce` | `AnswerInv`: a thread on its way to send has not answered, and one that goes on to release without an answer had too large a reply or has seen a connection that will not come back (`Excused`, `GoneForGood`) |
| `FramesAreWhole` | `FramesWhole` | `FrameInv`, below |
| `BodiesAreAnswers` | (used by the system) | `BodyInv`: a body in an output is of a request that was counted as answered in the step that added it |

What makes the count right is `TaskInv`: a request in an input buffer is there
once, came by that connection and has no closure yet (`Queued`), so `Decode`
adds a new holder; a closure came by a connection that was accepted (`Opened`);
the closure of a thread is alive until that thread has released it (`Tasks`);
and what the loop's callback works on has not been freed (`LoopLink`).

`MemoryInv` follows a client past the last unlock: as long as somebody holds it
it is allocated, and when nobody does, at most one thread is about to free it.
The two halves need each other and the count: a thread goes on to free exactly
when the count it decremented to is zero, which is when no holder is left.
`BevInv` says that `client->bev` is `NULL` from `event_cb`'s `set_bev` on, and
that a thread which sends holds `client->lock` and has seen `client->bev` under
it, which keeps `set_bev`, and with it `bufferevent_free`, waiting.

The frames of both modules are proved the same way. `FramesWhole` speaks of one
chunk and its neighbour, which appending keeps only if the buffer it appends to does
not end half-way through a packet. `FrameInv` says when one does: a header is the
last chunk of a buffer exactly when a thread has added it and not yet its body. That
thread holds the lock of that bufferevent (`SenderHolds`, `BevInv`), so that nobody
else, a heartbeat, a flush or another reply, appends behind a lone header, and
`event_cb` cannot empty the buffer under it. What libevent takes from the front is a
heartbeat or a header with its body, which leaves the rest whole (`FrameRest`,
`FrameTaken`).

### The other modules

`RpcSystemProofs` proves `SystemSpec => Spec` (`SystemIsChannel`) and
`SystemSpec => S!Spec` (`SystemIsServer`): every step of the composition is a step
or a stutter of each part. `ToServer` is the channel's `PeerReceive` and the
server's `PeerSend`, so a guard that one module puts on its peer and the other
does not keep would show here. With the first, the theorems of `RpcChannelProofs` hold of the
system (`SystemSafe`); with the second, those of `RpcServerProofs`, which are taken from
`P == INSTANCE RpcServerProofs` (`SameNext` says that its steps are those of the server in
the composition). Three more are about both parts at once:

| theorem | property | argument |
| --- | --- | --- |
| `TakenAtMostOnce` | `TakenOnce` | `TakenInv`: a request the server has taken was handed to a connection and its header is in no output any more. A header is in one output, once (`OneHeader`), since it is added when the request is handed over, and that happens once (`SentOnce`) |
| `ResultsAreAnswers` | `ResultWasAnswered` | `SystemReplies`, the replies the server can have sent: of requests it took, answered, and refused exactly if they are bad. Every reply in an input is one of them (`RepliesNext`), because a body comes behind the header of its own request (`FramesWhole` of the server) and is an answer (`BodyInv`) |
| `EndToEndIsKept` | `EndToEndPromise` | `EndToEndStep`: each step of the system is a step of `RpcPromise` or a stutter, with "delivered" read as "the server has it" |

The first needs no assumption on the callers; the other two are for `OneCaller`, as
`CallInv` is. What a closure can be told (`Told`, in `RpcChannelProofs`) is stated for a
set of replies: the answers to all requests handed over for the channel alone,
`SystemReplies` for the system.

`RpcControllerProofs`: `ControllerTypeCorrect` and `ToldTheTruth`, for any number of
calls. `ToldTrue` alone says nothing of the steps between reading the controller and
the closure; `ControlInv` adds where a call is in each stage (`Stages`), that a
controller is clean when a call begins (`Ready`), that a reply without error, and
a call on its way to be filled, come from a method that ran to its end and was
not canceled (`Answered`), and that the flag was set by the application for this
call (`CanceledAsked`).

`LifecycleProofs`: `LifeTypeCorrect`, and `FreedLast` for `FreedAfterWorker`, for any
number of calls. `LifeInv` adds that nothing runs before its object is made
(`BeforeBirth`) and what makes the destructor's polling of `m_threadid` enough
although two threads write it: while a worker has not cleared it, it is set from the
constructor's assignment on (`Announced`).

`OverflowProofs`, on `RequestTimeout`: `TimeTypeCorrect`, `NoneOverdue` (`InTime`) and `NoneEarly`
(`NotEarly`), for every period, limit, lag, width and number of clock changes that
`TimeoutAssumption` admits: `LIMIT + PERIOD + LAG <= HALF`, so that the first sweep after
the limit comes before the age wraps. `TimeInv` says that the age of an undisturbed
call is exact and below the wrap (`Exact`), that ids are in the order of ages
(`OlderFirst`), and that no undisturbed call stands behind a disturbed one
(`DisturbedBehind`), which is what makes the sweep's stopping at the first young call
harmless.

`OverflowProofs`, on `EchoDelay`: `StepKept` (`OneStepAtLeast`) and `NoEarlyOverflow`
(`NoOverflowBeforeMany`), for any number of echo threads and every start, step and width
that `EchoDelayAssumption` admits. `SecInv` says that after `n` stores `sec`, and
whatever a thread has loaded of it, is between `START` and `START + n * STEP`: a lost
increment only keeps it lower, and since the thread's own store came before, never
below one step. So it is `n` that has to be large before anything overflows, which is
why both properties count the stores (`SecFits`, `Many`) and not the value of `sec`; with
the code's numbers the sleep is right for 428 echoes (`Many` is 429). Without
`SecFits` the first is false for very many threads, since `sec` itself wraps.

`FramingProofs`: `FramingTypeCorrect`, `OnlyPacketsFound` (`NothingInvented`) and
`AllPacketsFound` (`NothingHeldBack`), for all bodies and noises that `FramingAssumption`
admits, a byte of any size, streams of any length and any cuts. No induction over the
stream is needed, because nothing is defined by one: `wire` only grows, and `FrameInv`
speaks of positions in it.

* `Layout`: the wire is what was sent, segment behind segment, without gaps or
  overlaps. So a position is in one segment, and the bytes there are known.
* `Aligned`: as long as nothing loud (a segment in which a header could be seen that is
  none) was sent and the channel has not dropped half a packet, `read_cb` is never inside
  a packet. `AtPacket` and `AtAlien` say what it sees at the start of a segment, and
  `HeaderSeen` that it can see a header nowhere else, except in something loud.
* `Jump`: one iteration from a place before a packet does not lead past its start,
  wherever it begins, unless the header it saw is a packet's own or stands in something
  loud; what starts in something loud ends within `HeaderLen + MaxByte` bytes of it. This is
  what makes `read_cb` find its way again (`Beyond`).
* `PassedHandled`: every packet behind the place of `read_cb` was decoded or echoed, but
  for those the properties except; `Behind`: what was found is in order, since it
  is found before that place. `Settled`: `read_cb` stops only with nothing whole in front.

Two lines of the code meet here. After a failed `evbuffer_pullup` the channel drops all
it has (`RpcChannelImpl.cpp:302`), so it may start in the middle of a packet and needs
`Beyond`; the server drops the body only (`RpcServer.cpp:283`) and stays aligned, but
leaves the loop although whole packets may follow, which wait until more bytes arrive.
`NothingHeldBack` excepts that (`failed`).

`KeepAliveProofs`: `AliveTypeCorrect`, `NotGivenUpIdle` (`IdleStaysUp`) and
`SilenceIsNoticed` (`SilenceDetected`), for all times with
`HEARTBEAT + LAG + 2 * DELAY < READ`. The invariant follows the last heartbeat: at
each end the quiet time is bounded by the age of what is on its way, the phase of
the timer and the time the network was cut.

All these invariants were checked by TLC before they were proved.

Every invariant and action property that a passing run checks is proved, and both
refinements. Only model-checked: the liveness properties (`DoneUnlessLockCycle`,
`LostIsReplaced`, `ClientFreed`, `ClosureRuns`, `DestructorsReturn`, `ReturnUnlessOvertaken`,
`EachCallTold`, `OverInTheEnd`), which are out of TLAPS's reach, and the counterexamples of
section 4.

## 6. Not modelled

* The vendored headers of libevent and protobuf and what protoc generated. They are
  nearly all of the lines of the tree (some 82000 of 84000) and none of the program's
  own logic; the libraries' code is not there at all. What the program relies on
  (deferred callbacks, timers, the buffers' locks, the break flag of an event base) is
  modelled from how it is used and marked external in `map`. Of the program's own
  code what is left is listed below.
* `EchoServiceImpl::Add`'s 32-bit sum: one assignment, on which nothing depends.
* Console output, the key presses and sleeps of `main.cpp`, and the order of the
  `delete`s in `DoneCallback` beyond their being done once.
* Constructors that fail and end the process.
* Encoding of messages: a message parses or does not, and a reply can be serialised or
  not. That a request could not, which `CallMethod` does not look at (`:184`), needs one
  of 2 GB.
* A `CallMethod` without a controller or a closure, which returns at once and does
  nothing (`RpcChannelImpl.cpp:173`).
* Heartbeats in the composition: `KeepAlive` has their times and `RpcServer` and
  `RpcChannel` their interleaving with packets.
* In `RpcServer` a request comes at most once (`PeerSend`). That the channel does not
  send one twice is not assumed in the composition but checked and proved there: `TakenOnce`.
* The type invariants that no run lists are stated and proved in the modules of the
  proofs.
