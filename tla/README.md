# Verification of the servers and of the libevent they run on

TLA+ models of the servers and clients of this repository and of the parts of
libevent they run on or offer to their users, the TLC runs that check them, and
TLAPS proofs of the shutdown protocol of the completion port, the lifetime of overlapped
bufferevents, the queues and wakeups of the event loop, listeners, rate limits, and the
servers and clients themselves.

## The system

The repository holds a few small programs, `src/Server` and `src/Client`, and the
copy of libevent 2.0 they link, `src/LibEvent`. `main` of the server
(`Server.cpp`) starts `EventIOCPServer`; the other servers (`TestServer`,
`EventTimerServer`, `EventHelloServer`) are alternatives named in its comments.

| Component | State it keeps | Operations | What makes it correct |
|---|---|---|---|
| Completion port (`event_iocp.c`) | the kernel's queue, `lock`, `shutdown`, `n_live_threads`, `shutdownSemaphore`, its workers | launch, the loop of a worker, activate, notify, shutdown | it is freed only when no worker will use it; a shutdown that waits without limit succeeds; completions are served |
| Overlapped bufferevents (`bufferevent_async.c`, `buffer_iocp.c`, `bufferevent.c`) | reference count, `ok`, `enabled`, operations in progress, virtual events, buffers with their references, the handle | new, enable, disable, read, write, completions, free, destruct | buffers outlive what the kernel does with them; references are exact; no direction stalls; a free leads to a release |
| `EventIOCPServer` (`EventServer.cpp`) | `map_Client`, `run`, `base`, `listener`, `signal_event`, the connections | Init, Run, destructor, `dispatch`, listener, read, write, event and signal callbacks | `map_Client` agrees with the connections; nothing is used after it is freed; the destructor returns |
| `TestServer` | `ClientData`, the structure in use, the queue, its workers | the `AcceptEx` loop, `WorkerThread` | a connection its peer has closed is closed |
| Listener (`listener.c`) | accepting sockets, enabled flag, references, deferred callbacks | new, enable, disable, set_cb, free, accept loop, AcceptEx and its completions | references are exact; an enabled listener goes on accepting; no completion is lost |
| Event loop (`event.c`, `evmap.c`, `win32select.c`, `signal.c`, `minheap-internal.h`) | active queues, heap of timeouts, common timeouts, deferred callbacks, events per descriptor, the arrays of select() | add, delete, activate, the loop, break, exit, reinit, free | no wakeup is lost, queues and flags agree, priorities are obeyed, deferred callbacks run |
| Buffers (`buffer.c`, `buffer_iocp.c`) | lists of chains, pins, freezes, callbacks | add, prepend, remove, drain, pull up, reserve, commit, move, search, lines, overlapped reads and writes | they are queues of bytes, and the kernel's memory stays where it is |
| Socket bufferevents and rate limits (`bufferevent_sock.c`, `bufferevent_ratelim.c`, `bufferevent.c`) | enabled directions, suspensions, watermarks, buckets, the group | read, write, connect, enable, suspend, refill, join and leave a group | each direction is waited for exactly when it should be; suspensions end |
| DNS (`evdns.c`) | queues of requests, name servers, searches, `getaddrinfo` requests; server ports | resolve, transmit, answer, time out, probe, search, cancel, suspend, free; parse and write packets, respond, close a port | one answer per request; a request that can be sent is sent; packets can be read |
| HTTP (`http.c`) | a connection's state, its requests, headers, bodies, retries, virtual hosts | make, cancel, read, chunk, reply, stream, retry, free; URIs, queries, escapes | each request is reported once; nothing waits that nobody wakes; replies are framed as announced |
| `EventTimerServer`, `EventHelloServer` | an event, connections | callbacks of one thread | a client is greeted, then closed |
| Clients (`IOCPClient.cpp`, `TestClient.cpp`) | one connection, a buffer | connect, send, receive, answer | they end when the server does |
| RPC, tagging, TLS, filters, pairs, other back ends, utilities | | | not modelled |

How they interact: the listener callback runs in the thread that dispatches the
event loop and creates a bufferevent for every connection. A bufferevent launches
overlapped reads and writes; their completions are queued to the port, and any of
its workers runs `read_complete` or `write_complete`, which take the lock of the
bufferevent and call the callbacks of the server. Callbacks free bufferevents, and
freeing one drops one of several references. `event_base_free`, called by the
destructor in the main thread, shuts the port down and waits for its workers. DNS and
HTTP are clients of the event loop and of socket bufferevents.

What is hard here is the interleaving of the main thread, the dispatching thread,
the workers, the kernel and the network: who holds the last reference, who sees the
shutdown flag, which completion or packet arrives before which call, what a callback
does to the object that called it. `PROJECT.json` lists the hazards line by line.

## Modules

### IocpPort: the completion port

One variable for each field of `struct event_iocp_port` that changes, the
kernel's queue, and the position of the owner of the port (`owner`) and of every
worker (`pc`). Inside a worker a critical section is two steps, what it does and
`LeaveAndExit`, since leaving it is the last access to the port's memory; the
other critical sections contain one access and are one step, guarded by the lock
being free. `event_iocp_port_launch` is `Spawn` and `CountThread` alternately,
then `InitLock`; `LaunchFails` is its error path, after which the workers that
were started meet a closed handle (`AbandonedWait`). `event_iocp_shutdown` is the
action of that name (the flag), `event_iocp_notify_all` (one post per step, which
may fail), `WaitSucceeds` or `WaitTimesOut`, `ReadLive` and `FreePort`. After a
timed shutdown returned -1 it may be called again, as `iocp-internal.h` allows.
The end of `loop` after its warning, where a worker that dequeued nothing counts
itself out, is left out: `NoSpuriousExit` shows it is not reached.

### BuffereventAsync: overlapped bufferevents

The state of a bufferevent is a record. Every function of the code is an operator
from such a record to the set of records it may leave behind, because a launch may
fail and a callback may do any of the things a callback does: nothing, read,
write, both, or free the bufferevent, from inside the operation that called it.
Code that runs under the lock of the bufferevent is one step. Buffers are their
lengths (in units of data) and their reference counts; the kernel's side of an
operation is `kread` and `kwrite`. Closing a handle sets its owner to nobody, and
a handle is given out again, so a second close can hit another connection
(`victims`).

### EventIOCPServer: the server

The threads of the program: main, the dispatching thread and the workers. The
bufferevents are those of the module above, reduced to what this server does with
them; accesses to `map_Client` are steps of their own, since no lock protects it.
A worker dequeues a completion (`Dequeue`, only before the port is shut down), waits
for the lock of the bufferevent (`ReadComplete`, `WriteComplete`) and goes through
the callbacks. When the launch of a read or a write fails, `iocp_conn_eventcb` runs
in the middle of the caller; `cont` says where the thread goes on after it. The
first undefined behaviour (a data race on the map, the use of a freed object, a
dereferenced end iterator, an uninitialised member) is recorded in `fault`, and the
run ends there, as nothing can be said about what follows.

The launch of the port is taken to succeed: when it fails,
`event_base_new_with_config` ignores it and the server falls back to socket
bufferevents, which are not modelled.

### TestServer

The main thread's `AcceptEx` loop and the workers. The buffer passed to `AcceptEx`
is null, because `DataBuf.buf` is never set. Whether the system accepts that is not
decided by this code: a call that fails changes nothing and is no step of the model,
and the steps there are describe a call that is accepted.

### EventBase, EventMap, MinHeap: the event loop

`b` is the `event_base` as a record, and every operation of `event.c` an operator from
a base to a base. `th_base_lock` is released only in `select()` and around callbacks,
so a step goes from one such point to the next; `LoopStep` is the
thread that dispatches, `Call` a call of the API by it (in a callback) or by another
thread at any of these points, and `Resume` the end of a call that had to wait. `EventMap` has
the lists of events of each descriptor with their counters (`evmap.c`) and the arrays of
`win32select.c`, in which the last descriptor moves to the place of a deleted one;
`MinHeap` is the heap of deadlines. The clock may be set back (`timeout_correct`).
A behaviour uses one of the `Programs`, sets of events that are interesting together.
An array's memory and its growth are left out, and so are debug mode and configuration.

### Listener

Both kinds of listener. An accepting socket is a record with its lock, its overlapped
operation and its deferred callback; a step goes from one callback of the user to the
next. The user calls from the loop and from another thread, in any order, and frees the
listener at any moment. `start_accepting` may fail to create or to associate a socket, and
`AcceptEx` may be pending, fail, or succeed at once, after which its completion comes all the
same. Where the code cannot stand an order, `trouble` records it and the behaviour ends: two
threads that wait for each other (`"deadlock"`), or a completion or a callback for an
accepting socket that was freed (`"freed memory"`).

### ByteQueue and Evbuffer: buffers and the refinement

`ByteQueue` is what `buffer.h` promises: a queue of bytes per buffer, and for every call
what it returns. `Evbuffer` is the code: chains in a heap, `last_with_datap` as a pointer
to a link, misalignment, pinned chains, reserved space, and the overlapped reads and
writes of `buffer_iocp.c`, for the two buffers of a bufferevent. `Implements` says that
`Evbuffer` implements `ByteQueue`, the content of a buffer being the concatenation of its
chains, and is checked as a property of the run. A failed assertion sets `bad`, to `"npin"`
for `npin == nvecs` of `evbuffer_launch_read`. Adding after `evbuffer_expand` can fill a
chain past the one `last_with_datap` leads to; the history variable `behind` records that it
happened. `Implements` is about the steps from states in which `last_with_datap` is where it
should be (`InOrder`), and `StructureOK` says that it is unless `behind`.

With `Careful` callers avoid two things that destroy memory the kernel works on: prepending to
an empty buffer while a read is in flight (`PrependSafe`; the pinned chain is used), and
pulling up all bytes of it (`PullupSafe`; the pinned chain is freed). Nothing is claimed about
these; the first of the two is at `buffer.c:1668`, the second at `buffer.c:1255`.

### BuffereventSock: socket bufferevents and rate limits

Reading and writing are two directions, and a function that exists once for each is one
operator. A handler of the loop or a call of the user is a step under the bufferevent's
lock; the user may keep the lock over several steps (`bufferevent_lock`), which is what
makes the group postpone a suspension or its end. Joining a group is two steps, as the
code leaves the group's lock in between. `bufferevent_socket_connect_hostname` suspends the
two directions and takes its reference in three critical sections, and is one step here: in
between the bufferevent has no socket that could be read or written, and what a call of
another thread would find is one direction suspended and the other one not yet. A connect may
fail with the event callback, or without it where no socket can be created. A bucket that
the user has filled above its maximum, with a negative decrement, is not cut to it but grows
at every tick, as in the code (see below); `MaxBucket` bounds that.

### EvdnsConfig, Evdns, EvdnsServer: DNS

`EvdnsConfig` turns lines of `resolv.conf`, of the hosts file and of the registry into a
configuration. `Evdns` is the resolver: a step is a callback of the loop or a call of the
user, the network loses, repeats and delays packets, `sendto` fails or would block, and
deferred callbacks report results. Servers may be dropped, by suspending or freeing, while they
are probed, and the base freed under an `evdns_getaddrinfo`; `mem.dropped` records that this
happened and `mem.bad` the first use of freed memory or failed assertion. A name fits, fits
only without a search domain, or is too long for a query. `EvdnsServer` has the packets, as cells at offsets
so that name compression is what it is in the code, and the server port with its
references and its queue of replies.

### HttpText and Http

`HttpText` has the pure functions on texts. `Http` is one connection, outgoing or
incoming, over a bufferevent that reads tokens in any portions; the peer's messages,
timeouts and errors are the environment, and `policy` fixes what the user's callbacks do
(make another request, cancel, free the connection, keep the request, reply now or later, with
or without a body, whatever the method was). A failed assertion, `event_errx` and a null
pointer read are recorded in `world.failed` and end the behaviour. Three of them come from
something that a connection keeps when it takes up a new state, which `world.stale` records:
a retry timer that is still pending (`"retry"`), the close detection of an idle connection
that was reset (`"detect"`), a deferred read that is still queued (`"deferred"`).
`Consequences` says which failures each can bring about, and `RequestsOnce` that there are no
others. `sends` counts how often a request was put on the wire.

### Chat: clients and servers composed

Each client against each of the two libevent servers, over a connection that splits and
joins what is sent, and may be refused or reset. A byte carries the message it belongs to. `IOCPClient` answers
every piece it reads, so that a conversation grows without bound (`MaxMessages`). A read
that fills `readbuf` leaves no terminating zero, and what `append` finds behind it is any
byte, a letter of the client among them (`Beyond`); `readbuf` records that it happened. The
server may run the event callback of a connection before it has greeted it.

### Mutated definitions

Definitions whose comment calls them a defect or mutated (`CountOutEarly`,
`ClearForgetsMoved`, ...) are variants of the definition that follows them. No
specification uses them; putting one in the place of the original makes TLC report the
property it is meant for, which shows that the property would notice such a change in
the code.

## Runs

| Run | Instance | Properties |
|---|---|---|
| `port` | no hint for the number of processors, so 4 workers; 1 operation; posts and thread creation may fail; timed and infinite waits; `MaxQueue` 6 | `NoUseAfterFree`; `IInv`, the inductive invariant of the proof; `ShutdownEnds`: a shutdown with a packet for every waiting worker ends; `CompletionsServed` |
| `bufferevent` | 1 bufferevent, buffers up to 2 units | `KernelOwnsLiveBuffers`, `NoAssertionFails`, `ReferencesCounted`, `NoStall`, `BevInv` (inductive), `FreeEnds` |
| `server` | 2 workers, 2 clients, 1 message each, everything may fail | `MapTracksClients`, `ReferencesCounted` until the first undefined behaviour; `DestructorReturns` |
| `test_server` | 2 workers, 4 structures | `ZeroBytesClose`, which the code violates: a finding |
| `event_base` | six programs of one or two events; 3 or 4 calls; clock to 2 | `QueuesOK` (queues, flags, heap and counts agree), `MapOK` (descriptors and arrays agree), `NoLostWakeup`, `CommonTimeoutScheduled`, `PriorityOrder`, `DeferredRuns` |
| `listener` | 2 accepting sockets, 1 connection, 2 calls, every outcome of `AcceptEx` | `ReferencesCounted`, `AlwaysAccepting`, both up to the first deadlock or use of freed memory; `CompletionsReported` |
| `evbuffer` | chains of 2 and more bytes, 3 bytes, 4 chains, 5 calls, five programs | `StructureOK`, `KernelMemory`, `Implements` (refinement of `ByteQueue`) |
| `bufferevent_sock` | 2 bufferevents, 1 group, 3 calls, five programs, buckets up to `MaxBucket` | `EventsAsEnabled`, `SuspensionsEnd` |
| `evdns` | 2 servers, 4 requests, 3 handles, 3 calls or faults, five programs | `QueuesOK`, `NothingStalls`, `AddrinfoOnce` |
| `evdns_server` | 2 requests, 2 records, a buffer of 66 bytes and a limit of 60 | `RoundTrip`, `PortOK` |
| `http` | 3 requests, 2 messages of the peer, 2 faults; texts of 4 words | `RequestsOnce` (one callback, one send, no failure but those of a leftover), `NothingStalls`, `ReplyFramed`, `TextRoundTrip` |
| `chat` | 2 clients by 2 servers, 3 rounds, messages up to the length of `readbuf` | `GreetingFirst`; `NothingInvented` until `readbuf` is read beyond its end; `ClientEnds` |

Bounds. `MaxQueue` limits when a shutdown is retried; 6 leaves room for a second
round of notifications in front of the first. More workers repeat the role of the
second last and last one, and the proofs cover every number. Bufferevents do not
share state other than handles, so one is enough; a buffer of 2 units distinguishes
empty, partly and fully written. Two workers and two clients give the server a race
between any two of its callbacks and the listener. `Programs` are the groups of operations
that touch the same state; a group is small so that every order of its calls fits. In `evdns`
the programs with failing sends or refusing servers use names that fit a query, and the one
with failing sends does not search, where that would only multiply the states. Sizes
are scaled such that equalities and overflows remain: `readbuf`, a read and `WriteData`
are equally long; a response may fit, exceed the limit or exceed the buffer; two names
may share a suffix. `MaxDeferred` is 1 with two deferred callbacks, so that the loop stops
in between. Three chains can be before, at and after the last one with data. No run uses
symmetry; `evbuffer` uses a view without `call`, which is a result and not read by any action.

Deadlock is not checked, since these programs may stop: the port is freed, every
connection is closed, main returns, the calls a bound allows are used up.

Fairness. `FairSpec` of `IocpPort` assumes that the system schedules the workers and
the owner and that callbacks return; it does not assume that anything completes or
that the port is shut down. Posts may fail and the code ignores that, so `ShutdownEnds`
only speaks of a shutdown with enough packets in the queue. `BuffereventAsync` assumes that
the kernel completes the operations on a closed socket. `EventIOCPServer`
assumes that main and the threads inside a callback are scheduled; clients are not obliged
to do anything. The lock of a bufferevent need not be fair: finitely many messages contend
for it. `EventBase` assumes that the thread of the loop is scheduled, `Listener` that the loop
and the kernel are, and `Chat` that both programs are and that what was sent arrives or the
connection breaks. `NothingStalls` of `Evdns` and `Http` is an invariant: in every state,
whoever waits has somebody (a timer, an answer, a callback) that will wake it.

## What the models show of the code

Each of these was found with the models; where a definition is named, TLC finds it
violated when it is added to the run of its module. They are stated here rather than as
runs of their own.

- `bufferevent_free` closes the socket, and `be_async_destruct` closes the same
  handle value again, after an operation in flight was aborted; the source suspects it
  ("XXXX possible double-close"). `ClosesOwnSocket`, with two bufferevents on one handle.
- `map_Client` is shared by workers and the dispatching thread without a lock (`NoMapRace`);
  `iocp_listener_cb` greets a bufferevent that a worker may have freed
  (`GreetingReachesBufferevent`); `iocp_conn_readcb` dereferences the iterator of a client
  that is not in the map, also without a race (`UnknownClientAnswered`); `~EventIOCPServer`
  frees the event base while the detached thread dispatches it (`BaseOutlivesLoop`).
- `TestServer` never recognises a closed connection (`ZeroBytesClose`, the violation run
  `test_server`), and by its `rc == TRUE` branch records only connections whose `AcceptEx`
  was not pending, so that a pending one is lost.
- `iocp_conn_readcb` reads up to 16384 bytes into `readbuf[16384]` and treats it as a text
  that ends in a zero; a full buffer has none, and the server returns bytes nobody sent
  (`OnlyReturns`).
- `event_del` in another thread waits for one callback only; its event may be run again
  before it returns (`DelWaitsForCallback`). After `event_reinit` a pending notification is
  remembered but lost.
- `event_active_nolock` compares the priority of a signal with the one being run before it waits
  for the running callback of that signal, and inserts the event after it. If the loop has gone
  on to less urgent events meanwhile, nothing tells it to stop, and it starts the next of them
  while the urgent signal is active (`PriorityOrder`, with the signal in `Urgent` and two
  other active events).
- `LEV_OPT_THREADSAFE` promises a listener that is "safe to use from multiple threadcs at
  once" (`listener.h`), and there are three ways to a deadlock (`NoDeadlock`): disabling or
  freeing an event listener waits in `event_del`, with the lock of the listener, for a
  callback that needs this lock (`listener.c:296-317`, `event.c:2236`); accepting again takes the lock of
  the accepting socket before the listener's, and disabling the other way round; and
  `listener_read_cb` returns with the lock held after an error of `accept()` when there is
  no error callback.
- A free does not always release an overlapped listener (`FreeReleases`): an accepting socket
  that has no socket when the listener is shut down keeps its reference for ever. And a
  completion may come for an accepting socket that was freed (`NoUseAfterFree`): the one after
  a success at once, or one for a listener that was enabled again before a stopped accept
  was reported.
- `evbuffer_expand` followed by `evbuffer_add`, the use `buffer.h` recommends, can leave
  `last_with_datap` behind, and a later `evbuffer_add_printf` or read puts its bytes in front
  (`AlwaysAQueue`). `evbuffer_launch_read` asserts `npin == nvecs`, which fails when an
  earlier call made more room than this one asks for (`LaunchReadAsserts`).
- A token bucket that holds more than its maximum, after a decrement by a negative number
  (which `bufferevent.h` allows), is not cut to it: the maximum minus the content is negative, as an unsigned number it is large, and the
  bucket grows at every tick (`bufferevent_ratelim.c:95` and `101`).
- HTTP: a retry timer is never cancelled. When it fires on a connection that was connected
  meanwhile, a request is sent twice (`SentOnce`), or an assertion fails: that no event is
  pending when the retry event is assigned, or that there is a request to fail.
  An idle connection that is reset keeps its close detection, and the assertion that it is
  idle fails with the next event. A deferred read that is still queued when its connection is
  taken up again reaches `event_errx` with "illegal connection state" (`http.c:1093`).
  `evhttp_send_reply_start` reads through the null pointer of a connection that is gone
  (`http.c:2459`). `NothingFails` is violated by each of these.
- HTTP: `evhttp_response_needs_body` says that a reply to HEAD, 204 and 304 must not have a
  body, and the code writes the one of an error page or of the user nevertheless
  (`NoBodyAfterHead`); a client of a persistent connection takes it for the next reply.
- HTTP: cancelling while a retry is pending connects for an empty queue; a failed bind strands
  its requests; a request that cannot be sent is not freed, though `http.h` says so; a virtual
  host pattern that ends in a star never matches; a reply streamed to a HTTP/1.0 client that
  keeps the connection is announced as empty.
- DNS: a server that is dropped while it is probed is used afterwards, by the callback of a
  probe that was answered or in the place of a cancelled one (`DroppedServersUnused`);
  `evdns_base_free` leaves the callback and the timeout of an `evdns_getaddrinfo` with the freed
  base (`FreedBaseUnused`).
- DNS: with one request in flight, the next name of a search is not sent until another
  request ends; a probe that is sent again to another server marks the probed one as up;
  answers are matched by their number only; a response that is too long is sent as 512 bytes
  that may end inside a record (`WithinBuffer`), and a port that is closed with requests
  outstanding keeps reading (`PortGone`).

## Proofs

`IocpPortProofs` proves, for every number of processors, every set of operations and
every kind of wait, with failing posts and thread creation:

- `PortInvariant`: `Spec => []IInv`;
- `ShutdownFreesIdlePort`: the port is freed only when all workers are out of their
  last critical section (`NoUseAfterFree`);
- `StopIocpAssertion`: an infinite shutdown does not return -1
  (`InfiniteShutdownSucceeds`);
- `PortTypeOK` and `NoWorkerBreaksOut`: `TypeOK` and `NoSpuriousExit`;
- `LiveThreadsCounted`: `n_live_threads` counts the workers in their loop (`LiveCount`).

The only assumption is `PortAssumption` on the constants (the notification is not an
operation, the hint is an integer). The argument: `NoUseAfterFree` is not inductive.
That no worker is left when the count read is 0 needs the count to be exact
(`LiveCount`); that none is between its decrement and `LeaveCriticalSection` needs the
lock to be held by exactly the worker that is there (`LockInv`), and the count to be
read with the lock free; that workers do not count themselves out too early, or leave
through the warning, needs that notifications follow the flag (`NotifyInv`); and the
launch, which counts outside of the lock, needs that nothing can be dequeued before it is
over (`LaunchInv`). `IInv` is the conjunction of these. `LiveCount` is about the
cardinality of a set of workers; the lemmas `LiveRemoved`, `LiveSame` and `LiveNone`
say how a step changes it. The preservation has a lemma for the launch, the workers, the
kernel and the shutdown.

`BuffereventAsyncProofs` proves, for any number of bufferevents and handles, any length
of the buffers, any outcome of the launches and any behaviour of the callbacks:

- `BevInvariant`: `Spec => []BevInv`;
- `BevReferencesCounted`, `BevKernelOwnsLiveBuffers`, `BevNoAssertionFails`,
  `BevBuffersGo`, `BevOneEnd`, `BevVirtualEventsReturned`: the invariants
  `ReferencesCounted`, `KernelOwnsLiveBuffers`, `NoAssertionFails`,
  `BuffersGoWithBufferevent`, `OneEnd` and `VirtualEventsReturned`.

The argument follows the calls. `Good(s, k)` says what holds of a bufferevent inside an
operation when the calls in progress hold `k` references: the count is the user's
reference, one per operation in flight and `k`; the bufferevent lives while the count is
positive; callbacks are set and the stream may be intact only while the user holds it;
the buffers are referred to by the bufferevent and by what the kernel does with them.
There is one lemma per function: `IncrefGood` goes from `k` to `k + 1`, `DecrefGood` back
(and destructs at the end), a commit turns the reference of the operation into one of the
call, and the lemmas on the callbacks need `k > 0`, which is why every handler of a
completion keeps its reference until it returns. `BevInv` is `Good` with `k = 0`, for every
bufferevent. The proof uses no assumption on the constants.

`BevNoStall` adds what the reference counts do not say: `NoStall`, that an enabled
direction has its operation in flight. It holds between the operations but not inside
them (`bev_async_consider_reading` has yet to run when a callback returns), so the lemmas
follow the calls once more, with two statements: `ReadsOn` and `WritesOn`, which each
operation re-establishes on its way out whatever the callbacks did in the middle, or the
stream has ended.

`EventIOCPServerProofs` proves, for any workers, clients, number of messages and with every
step allowed to fail, `ServerInvariant`, `ReferencesCountedThm` and `MapTracksClientsThm`.
A behaviour ends with the first undefined behaviour, so these say
what can be relied on up to it. The count is only exact if the lock of a bufferevent is held
by exactly the thread in one of its functions (`LockHeld`), a dequeued completion belongs to
the operation in flight and to one worker (`CompletionsOnce`), the event callback runs only
for a bufferevent not yet freed (`EventcbOnce`), and the connection being set up is unknown to
the workers (`ListenerOwns`). Every action keeps the lock of its bufferevent, gives it up or
touches none, and one lemma for each of these three carries the invariant; the actions only
show which one they are. Assumption: `ServerAssumption`, that the names differ.

`ListenerProofs` proves, for any finite set of accepting sockets, any number of connections and
calls of both threads in any order, with no assumption on what the user does,
`ListenerInvariant`, `ReferencesCountedThm` and `AlwaysAcceptingThm`. They say what can be
relied on up to the first deadlock or use of freed memory, after which a behaviour stands
still. `Counted` is the count of references for every place the loop can be at, with the
callback's own one while it runs. `Works` says of each accepting socket what keeps it going: a
pending operation, a completion, a queued callback, or the loop that is about to start it
again; `AlwaysAccepting` alone is not inductive, since it says nothing of a disabled listener,
whose sockets have to be closed for `evconnlistener_enable` to start them. `LoopOK` keeps
the two kinds of listener apart. Stopping the sockets, on a disable or a free, frees none of
them (`DisableImplOK`, `DestroyOK`), and a decrement and the release of a single socket
change the number of owners by one (`DecrefOK`, `FreeAcceptingOK`).

`ChatProofs` proves, for every length of reads, buffers and messages and each pair of
programs, `ChatInvariant`, `GreetingFirstThm`, `EchoInvariant` and `NothingInventedThm`. That
nothing precedes the greeting needs
that nobody has sent anything before it (`QuietBefore`), which needs that `TestClient1` does
not pass its first `recv` on an open connection (`WaitsForGreeting`); that what follows is
not taken for it needs that on an open connection the whole of it is read or on its way
(`GreetedWhole`). That the server invents nothing is a statement about counts, which no step
preserves by itself; `EchoInv` says why they agree: there is an increasing function from the
letters that came back to the bytes the server has read (`Echoes`). A read of the server
that stays inside of `readbuf` extends it by the bytes it takes (`EchoGrows`), which are the next ones that were sent
(`UpIsTail`); losing bytes restricts it (`EchoCut`). The function makes the count of a letter
at most that of the letters sent, and the order follows from the order of the messages
(`SentInOrder`). `EchoInv` and `NothingInvented` speak of behaviours in which `readbuf` was not
read beyond its end; after that they claim nothing about what comes back. Assumption: `ChatAssumption` on the lengths.

`BuffereventSockProofs` proves, for any finite set of bufferevents, any choice of `Programs`,
any rates and bursts that `ev_token_bucket_cfg_new` accepts, any number of calls and any
bounds:

- `SockInvariant`: `Spec => []IInv`;
- `EventsAsEnabledThm` and `SuspensionsEndThm`, the two properties of the run;
- `NoEmptyIOThm`: if the minimum share of a group is not zero, no read or write of zero bytes
  is tried because a bucket or a share has run out, which the code would take for the end of
  the stream. (`bufferevent_rate_limit_group_set_min_share` accepts zero, and then a share of
  a member may be nothing; the default is 64.)

`IInv` has four parts for a live bufferevent. `EventsOK`: a direction is waited for if and only
if it is enabled and not suspended, except for the write event of a connection in progress.
`SuspensionsOK`: every flag has its reason, and conversely an empty bucket suspends, which
is what `NoEmptyIO` and the functions that lift a suspension rest on. `GroupOK`: a member suspended by the group is known
to it, through `susp` or `pending_unsuspend`. `Held = Holders`: references are the user, the
queued callbacks, a lookup, a kept lock and a deferred run; so a dead bufferevent cannot have a
callback queued. `DeadOK` is what is left after the last reference, and `JoinOK` covers the
window of `bufferevent_add_to_rate_limit_group` between the two locks: what the newcomer was
told is still known to the group when it suspends itself. The proof has three layers. Lemmas
about one record (`SuspendSound`, `EnableSound`, `RefillSound`, ...) say that a function of
`bufferevent.c` keeps `EventsOK` and `SuspensionsOK`; `EventsOK` has a parameter for the moment
in `bufferevent_writecb` at which a connection has ended and the left-over write event is not
yet deleted. Lemmas about the memory (`Mid`: one bufferevent is at work with `k` references held
besides, all others are at rest) follow the handlers through callbacks that may free, drain,
write or disable, and `Carries` says what suspending or lifting a whole group does to all
members at once. One lemma per action opens the invariant, applies these and closes it.
Assumptions: `RateAssumption` (the configurations are ones the constructor accepts, and the
minimum share is at most the rate, as the code clamps it) and `SizeAssumption` (finitely many
bufferevents, natural numbers).

`EventBaseProofs` proves, for any finite sets of events of each kind, any descriptors, signals,
deferred callbacks and delays, any choice of `Programs`, any number of calls and a clock that
may be set back:

- `Invariance`: `Spec => []Inv`;
- `MapCorrect`, `QueuesCorrect`, `CommonTimeoutsFire`, `LoopWakes`: the invariants `MapOK`,
  `QueuesOK`, `CommonTimeoutScheduled` and `NoLostWakeup` of the run;
- `TypeCorrect` (`TypeOK`), and `FreeEmpties`: `event_base_free` leaves no event in any queue.

`Good` is a well-formed `event_base`: the lists, counters, arrays and positions of the map agree
(`MapInv`), the heap is a heap without repetition and the list of the common timeout sorted
(`TimeInv`), every active event is in the queue of its priority, once. That the loop loses no
wakeup is not inductive, and needs three facts about the two threads. `Due`: the internal timer
of the common list is in the heap and early enough, or active, except while its own callback
runs, since `common_timeout_callback` schedules it again at its end. `Alert`: a notification that is
pending has its byte in the socket, except between the two halves of
`evthread_notify_drain_default`. `Covered`: a loop in `select()` has a byte to wake it, or
nothing to do before its time is over (`Asleep`), no active event, no deferred callback, no break,
no timeout that is earlier, no descriptor that it does not watch. After `event_reinit` with a notification pending
(`deaf`) nothing is claimed, as said above. `Base` collects these for each place where the
lock is released.

The proof has four layers. Queues, the heap and the map: what `min_heap_push` and `min_heap_erase` do to
a sequence, what `do_fd_clear` does to an array whose last element moves, that an insertion in order keeps
a list in order. One lemma per function of `event.c` says which fields it changes (`Touches`)
and that it keeps `Good`. For the thread of the loop, `Went` and `Landed` follow the base from one
release of the lock to the next; for a call of the other thread, `Served` says that a loop that
was covered is covered after it, which holds because each call either changes nothing the loop waits for or
notifies it. One lemma per action closes the invariant. Loops over events are folds in the
model; each is named, and what it leaves is shown by induction on the number of rounds, from a
first-order principle for sets of numbers (`UpTo`). The shifts of the heap are recursive
functions on numbers, which are shown to exist before they are used. Assumptions:
`UsersAssumption`, `BoundsAssumption` and `KindsAssumption`: the sets are finite, the kinds of
events disjoint and the delays and bounds numbers.

Every inductive invariant was checked by TLC before it was proved, on the instance of its run
(`EchoInv` with two rounds instead of three, as it looks for a function in every state).

Only model-checked, and why:

- everything temporal under fairness (`ShutdownEnds`, `CompletionsServed`, `FreeEnds`,
  `DestructorReturns`, `DeferredRuns`, `CompletionsReported`, `ClientEnds`): liveness is beyond
  this prover;
- `PriorityOrder` of `EventBase`: with an urgent signal it is false, as said above; it holds for
  the programs of the run, whose signal is not urgent;
- `StructureOK`, `KernelMemory` and the refinement `Implements` of `Evbuffer`: the chains are a
  linked list, and its content is a recursive operator along it;
- `Evdns`, `Http` and `RoundTrip` of `EvdnsServer`: the queues, names and texts are built by
  recursive operators and folds; `TextRoundTrip` and `RoundTrip` are statements about what
  these compute. The library's induction theorems have an operator as a parameter, and the
  provers cannot instantiate those; the way around it of `EventBaseProofs` does not
  reach recursive operators, in whose presence the SMT solver is not available;
- `PortOK` of `EvdnsServer`, which shares its module with the recursive name encoder.

## Not modelled

- Filters, pairs, TLS, RPC and tagging: used by no program here. TLS depends on a library
  that is not part of the repository.
- The back ends of other systems: not built on Windows, for which the servers are written.
- Utilities: wrappers of system calls, logging, random numbers. Locks are modelled where
  they are used.
- Failing allocation everywhere; files in buffers; several callbacks on one buffer.
- The connect path, watermarks and rate limits of overlapped bufferevents.
- Event configuration, debug mode, the growth of arrays, memory functions.
- HTTP: the close callback, setters of limits and timeouts, binding. DNS: canonical names,
  SOA records, the functions on a global base, and calls from other threads, which can
  deadlock with a cancel.
- `TestClient2`, which accepts one connection and returns.
- The text of messages, formatting and addresses, except where a property is about them.

## Plan

1. `IocpPort`, `BuffereventAsync`, `EventIOCPServer`, `Listener`, `Chat`, `BuffereventSock`,
   `EventBase` and `EventMap` (done): modelled, checked, and every safety invariant of their
   runs but `PriorityOrder` proved.
2. `TestServer`, `Evbuffer`, `ByteQueue`, `Evdns`, `EvdnsServer`, `Http` (done): modelled and checked.
3. Left: `PortOK` of `EvdnsServer`. The recursive encoder of names has to become a recursive
   function or move to a module of its own, and the loop of `server_port_flush` a named fold as
   in `EventBase`, so that the references and the queue of a port can be proved about.
4. Left: the queues of `Evdns` in the same way, once its recursive operators are functions.
