# A verification project for boost_base

boost_base is a small C++20 library over Boost.Asio coroutines: an application
skeleton with a thread pool, tasks that run one coroutine on a strand, an
awaitable event, timeouts, TCP and SSL sessions, a client, a server, and a proxy
that joins two sessions.  It has no tests.  Its core is concurrency: objects that
live on different strands and talk through posted handlers, cancellation signals
and shared ownership.  This directory holds TLA+ models of that core, TLC
configurations that check them on small instances, and TLAPS proofs about them.
Paths below are relative to `src/src/` of the repository.

## The system

| Component | Source | State | Operations | What makes it correct |
|---|---|---|---|---|
| AwaitableEvent | `Coroutine/AwaitableEvent.*` | `m_set`, list of operations, mutex; per operation `m_finalizing` and handler | `set`, `co_wait`, cancellation lambda, destructor | each waiter is resumed exactly once, no wakeup is lost, no pending operation at destruction, no leak |
| CoroutineTask | `Coroutine/CoroutineTask.hpp`, `CancellableSpawn.hpp`, `CancellationSignal.*`, `Spawn.hpp` | `m_state`, `m_cancellation`, `m_stopped` | `start`, `co_start`, `stop`, `co_stop`, `work`, `registerStop` | run() entered once, stop is final and reaches the coroutine, everything it awaits and everything registered |
| Timed | `Timed/*.hpp`, `TimedSpawn.hpp` | timer, parallel group | `with_timeout`, cancellation | result, timeout or cancellation: one of them, and the right one; nothing outlives the await |
| Session | `Network/Session/Session.*`, `Operations/*` | socket, autoClose, timeouts | `run`, `closeSocket`, `releaseSocket`, `mutate` | one session owns a socket; closing it unblocks the session; with its timeouts a session ends |
| Socket, TCPSocket, SSLSocket | `Network/Socket/**` | `m_state`, ownership of the stream | `co_start`, `co_close`, reads and writes | each transport object is deleted once and never used after, the descriptor goes with the session |
| Proxy, ProxyDataSession | `Network/Session/Proxy/Proxy.*`, `ProxyDataSession.*` | `m_state` (READ, WRITE), `m_otherDone`, `m_other` | `run`, `work`, `otherDone`, `onStop` | no socket is closed under the other pump, both pumps end, both sockets are closed |
| AsyncProxyProvider | `Proxy/AsyncProxyProvider.*` | queue of requests per class | `get`, `asyncResponse` | each response goes to one live request, in order |
| Client | `Network/Client.*` | `m_session`, mode | `run` (connect, session, reconnect) | reconnects until stopped; `connected()` agrees with the signals |
| Server | `Network/Server.*` | handler, factory, the sessions registered for its stop | `run` (accept loop) | a stop reaches the accepted sessions and ends the accept |
| AsyncLogger | `Logger/*` | message queue, mutex | `logImpl`, `flush`, `run`, `onStop` | no message is lost or repeated, order is kept |
| Application, ThreadPool | `AApplication.*`, `BaseConfigApplication.*`, `ThreadPool.*` | current logger, exit flag, work guard | `exec`, `quit`, `onExitRequest` | exits once, joins, never uses what is gone |
| IPCIntQueue | `IPC/IntQueue.*` | a queue behind a name of the system; each process's open queue | create, open, send, receive, destroy; crash | a parent starts with a queue of its own and without old messages, and its own leftovers do not keep it from starting |
| Config | `Config/*` | the items made of the file | `readConfig`, `parseArray`, `isEnabled`, `get` | all of the enabled items or none at all |
| GenericFactory | `Misc/GenericFactory.hpp` | map from a type's name to its creator | `registerType`, `registerDefaultType`, `create` | the last creator registered counts; `create` throws on another signature |

How they interact.  Every object derived from `StrandHolder` has its own strand, a
FIFO queue whose handlers run one at a time on some thread of the pool.  Calls
between objects are handlers posted to the callee's strand; on the callee's own
strand `co_spawn` runs inline up to the first suspension.  A coroutine that awaits
another one is resumed by a completion posted to its strand; cancellation goes the
other way through the cancellation slot that `cancellable_spawn` links to the
awaited coroutine's signal.  A signal completes a pending operation with
`operation_canceled`, leaves a completion that is already queued alone, and sticks:
each later `co_await` of that coroutine throws.  `stop()` of a task emits its
coroutine's signal and calls `stop()` of the registered tasks.

What is hard: steps of two strands in any order; a signal that meets a completion;
a stop before the start, or after the end; one side of a pair that fails while the
other blocks; ownership cycles through handlers.  `PROJECT.json` lists these
hazards at the line where each one bites and the properties that cover it.

## Modules

| Module | Models | Kind |
|---|---|---|
| `ManualResetEvent` | what an AwaitableEvent promises | abstract specification |
| `AwaitableEvent` | `AwaitableEvent.cpp` | detailed specification |
| `EventAndQueueProofs` | | theorems about `AwaitableEvent` and `IPCIntQueue` |
| `TaskLifecycle` | what a CoroutineTask promises | abstract specification |
| `CoroutineTask` | `CoroutineTask.hpp`, `CancellableSpawn.hpp`, `CancellationSignal.cpp` | detailed specification |
| `CoroutineTaskProofs` | | theorems |
| `TimedPromise` | what an await with a timeout promises | abstract specification |
| `Timed` | `Timed/*.hpp`, `TimedSpawn.hpp` | detailed specification |
| `Session` | `Session.cpp`, `Socket.cpp`, `TCPSocket.cpp`, `SSLSocket.cpp` | detailed specification |
| `SessionAndTimedProofs` | | theorems about `Session` and `Timed` |
| `ProxyDataSession` | `Proxy::run` and both `ProxyDataSession`s | detailed specification |
| `ProxyDataSessionProofs` | | theorems |
| `AsyncProxyProvider` | `AsyncProxyProvider.cpp` over `ManualResetEvent` | detailed specification |
| `AsyncProxyProviderProofs` | | theorems |
| `Client` | `Client.cpp` and the life of its latest session | detailed specification |
| `ClientProofs` | | theorems |
| `GenericFactory` | `GenericFactory.hpp` | operators |
| `Server` | `Server.cpp` over `GenericFactory`, and the lives of its sessions | detailed specification |
| `ServerProofs` | | theorems |
| `Config` | `Config.cpp`, `ArrayParser.cpp`, `ConfigItem.hpp` | operators |
| `BaseConfigApplication` | `BaseConfigApplication.cpp`, `AApplication.cpp`, `ThreadPool.cpp`, `AsyncLogger.cpp` over `Config` | detailed specification |
| `BaseConfigApplicationProofs` | | theorems |
| `IPCIntQueue` | `IntQueue.cpp` in several processes | detailed specification |
| `MCCoroutineTask`, `MCAsyncProxyProvider`, `MCBaseConfigApplication` | | instances for TLC; the other modules are checked as they are |

An operator whose comment calls it a mutant is a plausible mistake in the definition
that follows it.  Mutants take part in nothing; they show which property notices
which mistake.

### AwaitableEvent

One variable per field (`m_set`, `m_operations`, `m_finalizing`), the mutex, the
cancellation slots, the strand's queue of posted handlers, and the program counters
of the calls.  `set()` is three actions, because other threads run between them as
far as the mutex allows: `SetLock`, `SetDispose` (one `finalize` per linked
operation), `SetUnlock`.  The initiation of `co_wait()` is `WaitLock`, then
`WaitAlreadySet`, or `WaitNotSet` and `WaitLink`; it occupies the strand.  `Cancel`
is the slot's lambda, `RunHandler` the handler posted by `finalize`.  `Release` and
`Destroy` are the life of the `shared_ptr`: the event dies when the user has dropped
it and no slot holds the lambda.  The list is a set, since its order only decides
the order of posts.

### CoroutineTask

All tasks in one state: per task its fields, its coroutine (`body`, `pc`,
`canceled`, `awaiter`), and its strand as a queue of `start`, `stop`, `emit` and
`resume` handlers.  One action per handler (`Refuse` and `Work` for a start,
`CoStop`, `Emit`, `Resume`); while `pc` is "ready" or "unwind" the strand is
occupied, and the actions `AwaitOp`, `AwaitTask`, `RegisterStop`, `Finish`,
`Unwind` are what `run()` does between two suspensions.  `run()` is arbitrary:
it may swallow errors but lets `operation_canceled` through, as `Client::run`,
`Server::run`, `Session::run` and `AsyncLogger::run` do.  Starts are numbered,
so that it matters whose signal `m_cancellation` is.  `onStop` is empty here;
`ProxyDataSession` models its override.

`run()` is entered by `Work`, and `Finish` or `Unwind` performs the exit: the inline
`stop()` of the catch block, the scope guard, and the post of the completion.

### Timed

One coroutine that awaits again and again, each time with a timeout, with a timeout
but a completion signature without an error (`plain`), or without a duration
(`direct`).  `timer` and `op` are the two operations of the parallel group; each
completes first and its handler runs later (`TimerHandler`, `OpHandler`), as Asio
does it: the handler that runs first cancels the other operation, the second one
resumes the coroutine with the result of `gen_timeout_error::gen`.  `CancelAwait` is
the coroutine's slot, which cancels the timer and nothing else, so that a cancellation
reaches the operation through the timer's handler.  `Promise` is the refinement of
`TimedPromise`, in which an await has no parts: one outcome per await, `TimedOut`
exactly when the time is up, and `operation_canceled` only for a coroutine that was
canceled or whose time is up; and an await that is due or canceled returns.

### Session

A session from construction to destruction, with its socket, and the session that
`mutate()` hands the socket to.  Transport objects of a socket (the stream of a
`TCPSocket`, the SSL stream and its next layer) are numbered: `base` is the one that
the base class points at and owns if `owner`, `own` the SSL stream, and `freed` lists
those deleted, so that a double deletion, a use after deletion and a leak can be
told.  `SetTCPSocket`, `WithParameters` (`setSSLParameters`) and `Destroyed` are
where objects change hands; `Mutate` leaves session 1 a fresh socket and gives its
own to session 2.  `CoStart`, `Prepared`, `Handshake`, `StreamIO`, `SocketIO`,
`FinishIO` and `Leave` are `Session::run` from one suspension to the next; `CoClose`
is `Socket::co_close`, after which an SSL socket waits for `async_shutdown`
(`closer`).  `timeouts` says which of START and CLOSE are set.

An operation of `run()`, such as a handshake or a read of so many bytes, is made of
reads and writes of the TCP socket.  `Arrives` completes the one that is outstanding
and queues its handler; `Resumed` is that handler, which ends the operation or goes on
with the next read or write (`GoOn`).  `TCPSocket::cancel` and `close` abort what is
outstanding (`Aborted`), and nothing else: a handler that is queued at the `cancel()`
of `SSLSocket::close` goes on, with a read that nothing cancels.  Such an operation,
and one begun while the shutdown is under way, is `late`.  The coroutine's own cancellation,
unlike the socket's, is remembered by the operation (`GoOn` looks at `canceled`), and
so is a closed descriptor.

The session's state is small enough that `start()` and `stop()` are single actions;
their strand is what `CoroutineTask` is about.

### ProxyDataSession

`Proxy::run` from `get()` to its end, the two sessions, each a task on its own
strand, and their sockets.  `proxy` says what `Proxy::run` awaits: `get`, the starts
of the two sessions (`SetupNext`, `SetupFails`; `SetupComplete` is their completion
or timeout), then nothing between `StartFirst`, which starts session 1 detached, and
`AwaitSecond` or `AwaitSecondThrows`, and at last session 2 (`ProxyEnd`).
`ProxyCancel` is the cancellation of the Proxy, forwarded to what it awaits.

A handler is one action: nothing another strand does can come between its parts
except posts to the queues.  `Resume` continues a session's coroutine to its next
suspension: `Loop` is the head of `while(running() && !m_otherDone)`, `Leave` the
guard of `work()` (close both sockets, or `otherDone`), `End` the exit of
`CoroutineTask::work`.  `Gone` says when `m_other.lock()` is null.  Bytes are not
modelled; a read or a write completes with success or an error.  A failed write
marks the socket `broken`: reads from it no longer block, which is the reason the
comment at `ProxyDataSession.cpp:51-53` gives for doing nothing.

### AsyncProxyProvider

All of the provider runs on one strand, and the events of its requests have that
strand as their executor, so an action is a handler: `Get` is the coroutine up to
`co_await startAsyncRequest`, `Response` the lambda of `asyncResponse`, `Emit` a
cancellation, `ResumeStart` and `ResumeWait` the rest of `get()`.  `CoWait` is
`co_wait()`, `End` the end of the coroutine with `~TRequest`, which unlinks.  A
request and its call of `get()` are one thing, because the request lives in the
coroutine's frame.  The event is a flag and one pending operation; `EventPromise`
checks each of them against `ManualResetEvent`, which `EventAndQueueProofs` proves
of the real one.  The delegate is external: `startAsyncRequest` returns true, or
false, or throws, or never returns.  `arrived` and `dropped` are history.

### Client

`Client::run` with the task around it, the session it awaits, and users who start,
stop and cancel the client, stop a session they were told of, or do either from a
slot of `newSession` or `sessionCompleted` (`SlotsAsk`).  Client and session have a
strand each.  `pc` says what `run()` awaits: `CoStart` enters it, `ResumeConnect`,
`ResumeSession` and `ResumeWait` continue it to its next suspension.  `Signal` fires
the coroutine's signal: it completes the connect or the timer, or goes on to the
session's strand; `Await` is a `co_await`, which throws in a coroutine whose signal
has fired.  `RunSession` is the managed branch up to `co_await session->co_start()`,
`SessionCompleted` the scope guard.  The session follows `CoroutineTask`, with an
arbitrary `run()`.  Only the latest session is modelled: nothing an earlier one does
reaches the client.  `announced` counts `newSession` without `sessionCompleted`, it
is not in the code.  When `co_start()` throws at once, because the client was canceled,
the two signals come one after the other within one action and leave `announced` as it
was: `Announced` is about the paths on which the session was awaited.

### Server and GenericFactory

The accept loop as a task on the server's strand, the sessions that it creates, and
the owner, who registers types, starts and stops.  `Accepted(answer, stops)` is what
happens between two accepts: create socket and session, register the session for
the stop, call the handler, which may stop the server inline, start the session.  The
handler's answer is to start the session; or it answers FALSE, and has kept the
session (`TWSession` can be locked) or lost it.  Who keeps one starts it later
(`KeeperStarts`) or gives it up (`KeeperDrops`).  `Fire` is `m_stopped()`, called by `CoStop` or by
the exit of `run()` after `operation_canceled`; `StopAll` posts a stop to each
registered session that still lives.  `reached` is not in the code: it is the set of
sessions that existed when the server stopped.  The factory's map is `types`;
`create()` is an operator, because it changes nothing, and `CreateFails` is its
exception, which ends the server.

### Config and BaseConfigApplication

`Config` has what the file may hold (`File`) and what `readConfig` makes of it:
`Parse` is one turn of `parseArray`'s loop, `ParseArray` the loop, which returns at
the first bad entry and leaves the items before it in the result.
`BaseConfigApplication` extends it: the command line names any one of all `File`s, and
in the action `ReadConfig` the application goes on or ends by what `ReadFile` returns.

The application from `exec()` to its destructor.  `main` is the main thread, one
action per call in `exec()` that can fail or that others can see; the command line
only succeeds or fails.  `RunReturns` is the return of `ThreadPool::run()` with
the join: it needs an `io_context` without work (`Idle`), which is why the logger's
timer matters to exit.  `CallOnExit` is a signal or `quit()`, at any time from the
creation of the pool to the destructor; `DoExit` and `StopPool` are the two halves of
the posted lambda, because other threads run between them.  The logger is a task as
in `CoroutineTask`, its strand a queue of `start`, `stop`, `ok` and `canceled`.
`flush()` is two actions: `Flush` takes the messages under the mutex, `Printed` ends
the printing, during which the strand is occupied and any thread may log.  Messages
are numbered by their order under the mutex.

### IPCIntQueue

Several processes and the one name they meet at.  A queue is not its name: it lives
on, without the name, for those who have it open.  A parent's constructor is two
actions, `Remove` and `Create`, because another process may do the same in between;
`create_only` then throws (`CreateThrows`), and since there is no object there is no
destructor.  `Destructor` is the destructor, which removes the name in a parent, whosever
queue it has become; `Crash` runs no destructor.  `made`, `sent` and `born` are
history: by whom a queue was made, and what was sent before a process opened it.

## Runs

| Run | Checks | Bounds | States |
|---|---|---|---|
| `event` | `NoLostWakeup`, `DestructorAssert`, `Wakeup`, `NoLeak`, `PromiseSpec` | 2 setters, 3 waiters; cancellation any number of times | 3 200 |
| `task` | `StopCancels`, `CancelFollowsAwait`, `OneResumption`, `LifecycleSpec`, `StopEnds`, `RegisteredStop` | outer awaits inner awaits leaf, inner may register leaf; 1, 1, 2 starts; 1, 1, 0 user stops | 47 000 |
| `timed` | `Quiet`, `PromiseSpec` | 3 awaits of any kind | 500 |
| `session` | `Owned`, `CloseUnblocks`, `Ends` | a TCP or an SSL socket, 2 calls of `setSSLParameters`, each set of timeouts | 37 000 |
| `proxy` | `CloseSafe`, `NoHangOnRead`, `StopEndsBoth`, `CancelEndsBoth` | the Proxy and its two sessions, whose sockets are started | 2 000 |
| `proxy_close` | `SocketsClosedLater` (violated) | the same | |
| `provider` | `Linked`, `InOrder`, `Accounted`, `EventPromise`, `AnswerEnds`, `CancelEnds` | 2 `get()`s and 2 responses of one class, 1 response of another; each `get()` canceled at most once | 555 000 |
| `client` | `Announced`, `KeepsTrying`, `HaltIsFinal`, `HaltEnds`, `Reconnects` | each user request once, both modes | 1 300 |
| `client_stop` | `KeepsTryingUntilStopped` (violated) | the same | |
| `server` | `StopReaches`, `StopEnds` | 3 connections | 25 000 |
| `application` | `OnceInOrder`, `NothingLost`, `ExitInOrder`, `ExitEnds`, `ConfigComplete` | files of at most 2 entries of 9 kinds, 3 messages, 2 exit requests | 5 500 |
| `int_queue` | `Fresh`, `StartsAgain` | 2 parents, 1 child, capacity 2; 3 queues and 3 messages ever | 238 000 |

Each module has one type invariant, `TypeOK` (`TimedTypeOK`, `QueueTypeOK`).  It is in
no run, because each of them is a theorem, which says more.  `ResumedOnce` of
`AwaitableEvent` is a theorem too; the run has the stronger `PromiseSpec` instead.

What the runs show, in the order of the table.  A set event loses no wakeup, is not
destroyed with pending operations, is destroyed in the end, and keeps the promise of
`ManualResetEvent`.  A stop of a task reaches its coroutine, what that awaits and
what it registered, across strands and whatever is queued there.  An await with a
timeout has the outcome it should have and leaves neither timer nor operation
behind.  A socket has one owner at any time, each of its transport objects goes
exactly once.  Closing it ends the operation that its session is suspended in, though
the peer is silent, except on a TLS stream whose shutdown fails or has no timeout: an
operation whose handler was queued at the `cancel()`, or that was begun after it, may
then wait for the peer until the session is stopped or its descriptor closed.
No socket is closed under a pump and both pumps end.  Each response goes to the
oldest waiting request of its class, once.  A client tells its users the truth and
reconnects until something stopped it.  A stopped server leaves at most one
session running that it accepted.  Every message is printed once and in order, an
exit request ends the process, and a config is taken as a whole.  A crashed parent
finds neither its old messages nor its old name in its way.

The bounds are enough for the cases that matter: two setters race for the mutex and
three waiters are, at one time, one linked, one inside `co_wait` and one with a
posted handler; three tasks give a cancellation two strands to cross, with a task
that is both awaited and registered, and its second start can be refused.  Three
awaits are one after each outcome.  Two calls of `setSSLParameters` replace a stream
that was replaced before.  Three connections are one before the stop, one that the
handler stops at, and one whose accept is already complete.  Two entries are a good
one before a bad one.  Three messages are one printed, one taken and one queued; two
requests are one that counts and one that does not.  Three queues are one that is
orphaned, one that another parent made in between and one of this parent's.

The bounds are constants or follow from the model: `MaxStarts` and `MaxStops`, guards
of `Start`, `AwaitTask`, `RegisterStop` and `Stop`; `MaxAwaits` of `Timed`'s `Await`;
`MaxParameters` of `SetSSL`; `asked` in `Client`, which allows each of the four
requests once (a second stop is ignored by the code, a second start refused);
`MaxSessions` of `Complete` in `Server`; `MaxEntries` of `ProcessArgs`, `MaxLogs` of
`LogImpl` and `MaxRequests` of `CallOnExit`; `MaxQueues` of `Create`, by the choice
of the new queue, and `MaxSent` of `TrySend`.  The loops of `run()` are unbounded,
except in `Timed`.  `StartTimeout` is FALSE in the proxy's runs: the sockets of the
mutated sessions are started already, and `co_start` returns at once; the proofs hold
for both values.  All runs switch deadlock checking off, because in all of them the
users make finitely many calls and the system may then rest.

### Fairness

Handlers queued on a strand run, and code between two suspensions goes on: the
`io_context`'s threads do that as long as the pool runs.  Timers expire.  Users need
never call anything, operations need never complete unless something else is said
here.

* `AwaitableEvent`: a thread inside `set()` leaves it and the last owner runs the
  destructor.
* `CoroutineTask`: nothing that a task awaits need ever complete; code between two
  suspensions ends.
* `Timed`: an operation that is asked to cancel itself completes, which is what
  Asio's operations do, and a canceled coroutine comes to its end or its next
  `co_await`.
* `Session`: a queued completion has its turn (`Resumed`); a canceled coroutine, and
  one whose operation was aborted, ends;
  handshake and shutdown end in time only if START or CLOSE are set (`HasTimeout`),
  and peers may be silent for ever.
* `ProxyDataSession`: `get()` and the starts of the sessions complete, because each
  has a timeout (`SetupComplete`); the start of a socket that was started before
  completes, and so does a read from a broken socket.  `PeersRead`, the premise of
  `CancelEndsBoth`, is not guaranteed by the code: the sessions set no timeout on
  writes, so a peer that stops reading may block a write for ever.
* `AsyncProxyProvider`: only its strand runs; `startAsyncRequest` may take for ever.
* `Client`: a connect completes, because it has a timeout, and a session whose signal
  has fired ends, which is what `StopEnds` says of a task; a session that is left
  alone may run for ever.
* `Server`: its strand and those of the sessions run; nobody need ever connect.
* `BaseConfigApplication`: the main thread goes on, the pool runs what is ready, and
  the derived application's tasks end once `doExit()` was called, which is what
  `doExit()` is for; nobody has to log or to ask for the exit.
* `IPCIntQueue`: none; its properties are about safety.

### Findings

`proxy_close`: `ProxyDataSession`'s comments say the sockets are left open when one
session ends and are closed later, by the last one.  When both sessions end before
the lambda of `otherDone` has run on either strand, as after a stop or when both
peers disconnect, neither knows that it is the last, and no socket is closed
explicitly; the descriptors go with the sessions' destructors, and an SSL
connection gets no shutdown.

`client_stop`: `Client`'s comments say that a managed client reconnects until it is
stopped and that `operation_canceled` only comes from a stop.  A user who stops a
running session, through the pointer `newSession` gave out, ends the whole client
with that code; a session stopped inside a slot of `newSession` does not
(`KeepsTrying` is what holds).

### Observations without a property

Things the models show, or that were met while writing them, which no comment of
the code promises to be otherwise.

* A Proxy canceled after `p1->start()`, while the last `co_await` before it was
  already completing, throws instead of awaiting p2 (`Proxy.cpp:50`): session 1
  pumps alone, and nobody holds it to stop it (`AwaitSecondThrows`).  It is the one
  window that `CancelEndsBoth` leaves out.
* Without `PeersRead`, `CancelEndsBoth` fails: the Proxy is canceled while session
  2's write has just failed, session 2 ends with that error and therefore does not
  stop session 1, which may be blocked in a write.
* When the socket start of one session of a pair throws or times out, `work()` is not
  entered and neither is its guard: the other session is not told (`Session.cpp:77`).
  After `mutate()` the sockets are started, so this does not happen in a Proxy.
* At the end of file of one direction the other one is stopped at once, and what is
  in flight in it is dropped; a session writes to the other's socket from its own
  strand while the other reads from it on another (`ProxyDataSession.cpp:89`).
* A response handed to a request that is canceled, or whose `startAsyncRequest` has
  failed, before its coroutine goes on is lost, although another `get()` of the class
  may wait (`AsyncProxyProvider.cpp:27-33`): the request is unlinked only when its
  coroutine unwinds.  `Accounted` says how far the loss goes.
* The null check at `AsyncProxyProvider.cpp:67` never fires (part of `Accounted`).
* The ProxyDataSession that `Proxy::run` makes of an accepted session is not
  registered for the server's stop, which reaches only the session it came from
  (`Proxy.cpp:43`).
* Any error of `async_accept` other than `operation_canceled` ends the server, a
  passing one such as too many open files as well (`AcceptFails`).  When `create`
  throws for the session's type, the socket that was made before is leaked
  (`Server.cpp:39-40`).
* A TLS operation whose handler is queued at the `cancel()` of `SSLSocket::close` goes
  on.  If `async_shutdown` then fails, `TCPSocket::close` is skipped (`SSLSocket.cpp:90`),
  a second `co_close` returns at once (`Socket.cpp:20`), and the session waits for its
  peer until it is stopped (`Outlives`).
* An SSLSocket makes its handshake although `setSSL(false)` was called
  (`SSLSocket.cpp:79`); only reads, writes and the close look at the flag.
* `mutate()` is modelled as `Proxy::run` calls it, for a session that has ended
  without closing its socket.  Nothing in it checks that (`Session.cpp:32`).
* `timeout()` expects the I/O object on the coroutine's own strand (`Timed.hpp:58`):
  the group's handlers run there, and cancel an operation of another strand's object
  from it.
* `exec()` returns 0 also when `start()` or the parser throws
  (`BaseConfigApplication.cpp:62-66`).
* `setLogger` and `resetLogger` write `m_currentLogger` without synchronisation.  In
  the code they do so before the pool's threads start and after they are joined.
* The signal handler posts to the `io_context` (`AApplication.cpp:16`, `25`), which
  allocates and locks and is more than a signal handler may do.
* A handler that throws out of the main thread's `m_io.run()` makes `exec()` return
  without the join (`BaseConfigApplication.cpp:60-64`), and the pool's destructor then
  destroys joinable threads.
* A child keeps the queue it has open when its parent starts again, and hears of
  nothing sent since; the destructor of an older parent removes the newer one's name
  (`IntQueue.cpp:17`).

## Proofs

TLAPS checks the following for every value of the constants: any number of actors,
messages or sessions, where a model has them, and any bound.

* `AwaitableEvent`, in `EventAndQueueProofs`: type correctness; `ResumedOnce`,
  `NoLostWakeup` and `DestructorAssert`; `Spec => PromiseSpec`, the refinement of
  `ManualResetEvent`.  The only assumption is `ActorsAssumption`.  None of the three is
  inductive.  The invariant `IInv` adds who holds the mutex and in which step
  (`MutexInv`), that a linked operation is pending with its slot armed, and that a set
  event has linked operations only under a setter's lock (`ListInv`), and that an
  operation has a posted handler only after `finalize`, one at most, a successful one
  only for a set event (`HandlerInv`).  `FinalizeHandler` is the lemma about `finalize`
  that the three actions calling it share.
* `CoroutineTaskProofs`, from `TaskAssumption`, in two layers.  The first has type
  correctness, `Cancellable` and `StopCancels`, which needs `Cancellable`: the signal
  that `stop()` emits is the one stored by `work()`, so it cancels the running
  coroutine only if no later `co_start` replaced it.  The second is about several
  strands at once and has `OneResumption`, `CancelFollowsAwait` and the refinement of
  `TaskLifecycle`.  Its invariant `WInv` adds what a strand may hold (`Sound`: each
  start once, a signal behind the start it is for, one resumption at most), who waits
  for whom (`Linked`: a start that is awaited is in the child's strand until the
  child's `run()` begins, and from then on the child knows its awaiter; a coroutine is
  queued exactly if its resumption is), and where the signals are (`Follow`: the
  child of a canceled awaiting task is canceled, or the signal is in its strand).
  `Relinked` is the lemma about steps that only move completions.
* `Timed`, in `SessionAndTimedProofs`: type correctness, `Quiet`, and that each step
  of `Timed` is a step of `TimedPromise` or leaves it unchanged.  `TimedInv` adds that
  a handler runs after its completion (`RanInv`), that at most one of the two has run
  while the coroutine waits (`WaitingInv`), and that a timer is aborted and an
  operation asked to cancel itself only for a cause: the other one was first, or the
  coroutine is canceled (`AskedInv`).  The last is what makes `operation_canceled` an
  outcome only of a coroutine that was canceled or whose time is up.
* `Session`, in `SessionAndTimedProofs`: type correctness and `Owned`, for any number
  of calls of `setSSLParameters`.  `Owned` says of every transport object that it is
  deleted once and never pointed at afterwards, and of every socket that one session
  has it; it is not inductive.  `IInv` adds where a socket keeps its objects
  (`LayoutInv`: they are deleted in the order of creation, and the base class points
  at the last one, whoever owns it), that a reference or a coroutine keeps a session
  alive (`HeldInv`), which session has which socket before and after `mutate()`
  (`PairInv`), and that a socket is being closed only by a living session that has it
  (`CloserInv`).  `SetTCPSocketFacts`, `NewSocketFacts` and `DestroyedFacts` are the
  lemmas about the operators on sockets, `KeptInv` the one for the many steps that
  leave the layout alone.
* `ProxyDataSessionProofs`: type correctness and `CloseSafe`, for queues of any
  length, with start timeouts and without.  `CloseSafe` is not inductive: a close may
  be queued, and so may the notice that leads to it.  `IInv` adds that a session that
  has begun is not INITIAL, so that an ended one stays ended (`BegunInv`), that a
  session is told, or has the notice queued, that the other is done only when the
  other has ended (`DoneInv`), and that a socket is closed, or has a close queued,
  only when both have (`CloseInv`).  `QuietStep` is the lemma about the steps that
  post no notice and no close.
  `Rests` is what `NoHangOnRead`, `StopEndsBoth` and the last await of
  `CancelEndsBoth` need besides fairness: when both strands are empty, who was started
  has begun, a Proxy canceled in its last await has its session ended, and a session
  that goes on waits for the network, is not canceled, has neither of the two stopped
  and, if it reads after it was told that the other is done, reads from a broken
  socket.  `GoInv` says where each of these is on its way: what `run()` awaits is
  pending or its one completion queued (`Waits`), a session is started once
  (`Starts`), a stop of one is queued for the other unless that one is gone
  (`Spreads`), a session is told of a writer's end only with its own socket broken or
  one of the two stopped (`Tells`), and the Proxy's signal is queued behind the start
  of the session it is meant for (`Awaited`): were it ahead, it would be lost.  One
  lemma per handler keeps `GoInv`; `Pushed` and `Taken` say what queueing and taking
  a handler do to the queues it speaks of.
* `AsyncProxyProviderProofs`, from `ProviderAssumption`: type correctness, `Linked`,
  `InOrder`, `Accounted` and `EventPromise`, for any number of requests, responses and
  classes.  `IInv` relates the three places a request is in: the coroutine's frame,
  the list of its class and the strand.  `StrandInv` says that at most one handler of
  a kind is queued for a request or a response, and that what it finds when it runs
  still fits it; `RequestInv` that an event is set exactly when its request has an
  answer, of its class and given to no other; `ListInv` that a list holds the live
  requests of its class without an answer, each once, oldest first; `ResponseInv` that
  a response is queued, dropped or given to a request; `ResultInv` what a `get()` that
  is over may have returned.  `WithoutFacts`, `RemoveFirstFacts` and `JoinFacts` are
  the lemmas about the lists.  `EventPromise` is a refinement for each request:
  `EventMoves` says what a step may do to one request, and `EventStep` that each such
  move is a step of its `ManualResetEvent` or leaves it unchanged.  `Settled` is what
  `AnswerEnds` and `CancelEnds` need besides fairness: when the strand is empty, a
  called `get()` is over, or it awaits an answer that has not come and has not been
  canceled.  `GoesInv` has the reason for each place a `get()` can be in: the handler
  that moves it on is queued, or its operation is pending.
* `ClientProofs`: type correctness, `Announced`, `KeepsTrying` and `HaltIsFinal`, for
  any number of connects and sessions.  `Announced` is inductive with the types.
  `KeepsTrying` is not: a client ends because of a signal, a state or a handler that
  came from a request.  `IInv` adds that without a request nothing is stopped,
  canceled or queued on either strand that could stop it (`QuietInv`), that the one
  start is queued before `run()` begins (`StartInv`), so that no second start is
  refused, and that `m_state` and the signal fit `pc` (`StateInv`), which also gives
  `HaltIsFinal`: a stopped client that is still active is canceled, and each of its
  `co_await`s throws.  `Rests` is the same for `HaltEnds` and `Reconnects`: when both
  strands are empty, a client awaits something that still runs, and one that was
  stopped or canceled only a session that is canceled too.  `AwaitInv` says that
  exactly one thing is going to resume `run()`, `HaltInv` that a stop or a
  cancellation is queued until it has got to the session.
* `ServerProofs`: type correctness and `StopReaches`, for any number of connections.
  `IInv` adds that there is one answer of the accept at a time, and none outside of it
  (`Answering`), that sessions are created in order and each is registered
  (`Counted`), and that at the stop either the accept is over, or all of the sessions
  that exist are among those reached, so that the one answer that is left can make
  one more (`Reaching`).  `Rests` is what `StopEnds` needs besides fairness: when the
  strand is empty, a server in its accept waits for the network and was neither
  stopped nor canceled, and when a session's is and it was there at the stop, it does
  not run and cannot be started.  `Waiting` adds for it that an accept that is not
  pending has its answer queued.
* `BaseConfigApplicationProofs`: type correctness, `OnceInOrder`, `NothingLost`,
  `ExitInOrder` and `ConfigComplete`, for any number of messages and requests and any
  config file.
  `OnceInOrder` needs that nothing is left of an earlier `flush()` when the next one
  begins; `IInv` adds that (`FlushInv`), and that no `flush()` runs and nobody logs
  once the logger has been replaced, which with `OnceInOrder` gives `NothingLost`.
  `ExitInOrder` follows from `StartInv`: the strand is empty until the start is
  queued, so the start is its head.  `ConfigComplete` is about what the loop of
  `parseArray` computes for a file of any length: `ParseArrayFacts` says that it
  succeeds only with an item for each good entry, in their order.  It is an induction
  on the loop's turns; the library's induction theorems take an operator as a
  parameter and cannot be used here, so `Induction` is stated for a set of numbers and
  proved from the well-foundedness of `<`.  `Rests` is what `ExitEnds` needs besides
  fairness: the pool comes to rest only after an exit request, which then has stopped
  the logger and reset the work guard, and the logger's strand is never stuck behind a
  handler that the logger refuses (`EndInv`).
* `IPCIntQueue`, in `EventAndQueueProofs`: type correctness, `Fresh` and `StartsAgain`,
  for any sets of processes.  `Fresh` needs that a parent has a queue of its own making
  open, and none before (`Owners`), and that queues hold messages in the order of
  sending, none newer than the last one sent, and nothing before they were made
  (`Contents`).  `StartsAgain` follows from `Named`: between a parent's remove and its
  create the name is never that of a queue it made.

`EventAndQueueProofs` and `SessionAndTimedProofs` each hold the theorems about two
modules that have nothing to do with each other; `IPCIntQueue` and `Timed` therefore
prefix the names they would otherwise share with their neighbours (`QueueSpec`,
`TimedSpec`).

Only model-checked: what needs fairness (`Wakeup`, `NoLeak`, `StopEnds` of tasks and
of the server, `RegisteredStop`, the liveness part of `TimedPromise`,
`CloseUnblocks`, `Ends`, `NoHangOnRead`, `StopEndsBoth`, `CancelEndsBoth`,
`AnswerEnds`, `CancelEnds`, `HaltEnds`, `Reconnects`, `ExitEnds`).  The prover has no
rules for `ENABLED` and fairness.  For the last eight and the server's `StopEnds` the
theorems `SettledHolds` and `RestsHolds` show the part that needs neither: nobody
waits for something that was lost when there is nothing left to run.  What stays with
TLC is that the strands come to that point.

## Not modelled

* Template and platform helpers (`Misc/CallableTraits.hpp`, `Debug.hpp`, `Span.hpp`,
  `TypeName.hpp`, `TimeUtils.*`, ...) and the vendored `MagicEnum.hpp`: no state and
  no order of steps to check.
* `scopedSpawn` with `ScopedCancellationSignal`, and `StrandHolder::setStrand`, which
  nothing in the repository calls.
* Text and bytes: formatting of log messages, buffers and their sizes, JSON syntax,
  the command line, TLS, socket options.
* Boost.Asio itself: strands, coroutines, timers, the parallel group and
  cancellation signals are modelled from how this code uses them.
* Weak tracking of registered tasks: a `stop()` of a destroyed task has no effect.
* An exception that leaves a handler of the pool: every coroutine of this code is
  spawned with a completion that swallows it, and the derived application's own
  handlers are not in the repository.

## What is left

1. `Server` and `ProxyDataSession` composed: a stop of the server while `Proxy::run`
   turns an accepted session into a ProxyDataSession.
2. The proxy's starts on top of `Session` instead of `SetupComplete`, with a third
   actor that stops one of the two sessions during the setup.
