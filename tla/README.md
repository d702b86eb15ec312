# Woeful in TLA+

A model of the Woeful Wisp server (`src/src/`), checked with TLC on small
instances and proved, where it matters most, with TLAPS for instances of any
size.  Woeful multiplexes the TCP and UDP streams of many websocket clients
over one event loop, one epoll thread and a thread pool that share maps,
counters and raw descriptor numbers.  What is hard to get right, and hard to
test, is what these threads do to each other, so that is what the core of this
project models; around it are the packets, the configuration, the life of the
process, the capture of the PCAP build and the thread pool.

## 1. Inventory

| Part | State it keeps | Operations | Talks to |
| --- | --- | --- | --- |
| `server.cpp` (loop thread) | globals `threadpool`, `interface`, `system_watcher`; `interupted` | callbacks `open`, `message`, `drain`, `close`; post handler for SIGINT | uWebSockets calls it; it calls `WebSocketManager` |
| `WebSocketManager` | `streams` under `stream_lock`, `has_backpressure`, its `ws` | constructor, `receive`, `handle_connect`, `handle_data`, `update_streams`, `close_stream`, `force_close`, destructor | sends packets; submits write tasks; enters `watched_sockets` |
| `SystemWatcher` (watcher thread) | `watched_sockets` under its lock, `send_queue_len`, `epoll` | `watch`: wait, read, defer; the deferred lambda (on the loop thread); `wake` | reads target sockets, defers to the loop |
| `SystemInterface`, `EpollWrapper` | epoll set, self-pipe | `open_stream` (block list, DNS, `socket`, `connect`), `push_fd`, `erase_fd`, `wake`, `wait` | the kernel |
| `BS::thread_pool` (vendored) | task queue, worker threads | `submit_task`, parallel loops, worker loop, destructor; `multi_future` | runs the write tasks |
| `packets.h` | none | parse and serialize Wisp packets | everyone |
| `config.cpp`, `server.h` | `global_conf`: port, capture, block list | `read_config`, `set_conf` | `main` sets it, `open_stream` reads it |
| `main.cpp`, globals of `server.cpp` | `THREAD_COUNT`, `interupted`, `deconstructing` | start, SIGINT, destructors | everyone |
| `pcap.h` (optional build) | capture file, sequence numbers | write synthetic frames | `WebSocketManager` |

**Path of a payload upward.**  The loop thread's `message` callback parses a
DATA packet, `handle_data` submits a task that captures the manager and the
packet, and charges one packet to the stream's `buffer`.  A pool thread takes
`stream_lock` shared, looks the stream up, polls its descriptor, looks it up
again and writes.

**Path of a chunk downward.**  The watcher wakes from `epoll_wait`, reads the
descriptor until EAGAIN, end of file or `MAX_WS_FRAME`, erases the descriptor
from epoll if the socket ended, counts the event in `send_queue_len` and defers
a lambda that captures the descriptor *number*.  On the loop thread the lambda
looks for the stream with that number over all managers, sends a DATA packet,
notes backpressure, closes the stream if the socket ended, uncounts the event,
and calls `update_streams`, which sends CONTINUE to every stream that has run
out of buffer.

**What is hard here.**  Descriptor numbers outlive the sockets they stood for
(in `epoll_wait`'s results, in deferred lambdas, in the watcher's `erase_fd`).
Tasks outlive the streams and managers they captured.  Credit travels through
`buffer`, `has_backpressure`, `send_queue_len` and packets that queue up in
uWebSockets.  The loop thread waits for locks that pool threads hold in
`poll(-1)`, and for a pipe that only the watcher empties.  `PROJECT.json` lists
these hazards one by one, each at its line with the properties that cover it.

**What makes each part correct.**

* manager: entries name open descriptors of their own stream, nothing leaks,
  a write under way keeps its stream and its socket, CLOSE is a stream's last
  packet, the credit of a client is covered by `buffer`;
* watcher: data in order, CLOSE after data, `send_queue_len` exact, no stream
  left that nobody listens to;
* pool: every task once and, with one thread, in order;
* server: the loop gets through every handler; streams of targets that went
  away are closed; clients without credit get it back;
* packets: what one side puts together the other takes apart, and no size wraps
  but that of a message too short for its own fields;
* configuration: a file counts as a whole or not at all, and the block list
  decides on the very bytes the client sent;
* process: it ends when told to, unless it is held up, and each destructor finds
  that those before it have done their part;
* capture: one TCP conversation per stream that misses nothing.

## 2. Modules

```
WoefulState        variables, types, Init, constants and their assumptions
  WebSocketManager   the manager, open_stream/wake, the write task
    SystemWatcher      the watcher thread and the deferred lambda
      Woeful             callbacks, clients, targets, Next, Spec, CooperativeSpec, FairSpec
        WoefulProperties   everything that is checked or proved
          MCWoeful           instances for TLC (*.cfg)
          WoefulTypeProofs   TLAPS: types and send_queue_len
            WoefulProofs       TLAPS: ownership of descriptors, none unwatched
              WoefulFlowProofs   TLAPS: backpressure, credit, order of packets and payloads
                WoefulDownloadProofs TLAPS: what becomes of the data targets send
```

```
WispCredit         flow control as a client relies on it (implemented by Woeful)

TaskQueue          what the server expects of the thread pool
  ThreadPool         BS::thread_pool, which implements it
    ParallelLoop       blocks, loops, sequences and futures on top of it
      ThreadPoolProofs   TLAPS: exact count, refinement; division into blocks, use of
                         the pool, every index once

WispPackets        packets.h on bytes, and its use in receive() and the senders
  Config             read_config(), set_conf(), and open_stream() on what the packets say
    ConfigProofs       TLAPS: packets, files and block list

Lifecycle          main(), SIGINT, static initialisation and destruction
  LifecycleProofs    TLAPS: order of destruction
PcapInterface      one capture and the threads that write it
  PcapProofs         TLAPS: one conversation that misses nothing
```

`INSTANCE` is used for the two abstract specifications (`Queue` in `ThreadPool`,
`Credit` in `WoefulProperties`); `ParallelLoop` and `Config` compose by extension.

The threads of the server share almost all of their state, so the core
modules extend each other over one set of variables rather than being
instantiated side by side.

### State and code

| Variable | Code |
| --- | --- |
| `manager[c]` | life of the `WebSocketManager` of connection `c`; `open` and `closing` ones are in `watched_sockets` |
| `streams[c][s]` | `WebSocketManager::streams`, `NoStream` where `find()` is `end()` |
| `has_backpressure[c]`, `send_queue_len` | the atomics of the same name |
| `loop`, `watcher`, `worker[w]` | where each thread stands: a step of the model ends where another thread can interfere or the thread can block |
| `deferred` | lambdas given to `uWS::Loop::defer` |
| `epoll`, `pipe`, `fdtab`, `sock` | kernel: epoll set, self-pipe, number -> open socket, all sockets with their peer |
| `tasks` | queue of the pool |
| `ws[c]` | packets between server and client: the last `backlog` of `out` are still kept by uWebSockets |
| `client[c]` | a Wisp client: credit, stream states, what it received |
| `crashed` | the process has died (null dereference, use after free, SIGPIPE) |

Locks are not variables.  `stream_lock` is held over several steps only by pool
threads (shared, while at `poll`) and by `handle_connect` (unique, while at
`wake`), so `NoReader` and `WriteLocked` say all there is; `watched_sockets_lock`
is taken by the loop thread only and is never contended.

### Steps

* `handle_connect`/`open_stream` is four steps: refused or socket created
  (`RecvConnect`), `connect()` returns (`ConnectFails`, `ConnectSucceeds`), the
  entry is written under the unique lock (`ConnectInsert`), and `wake()`
  (`Wake`).  Between them the loop thread blocks in `connect()`, on the lock,
  and on the full pipe.
* The write task is popped (`WorkerPop`), takes the lock and looks up
  (`WorkerLock`; `WorkerNoStream` and `WorkerNoManager` are the two undefined
  outcomes: a look-up that fails is dereferenced, a deleted manager is used),
  and writes (`WorkerWrite`, `WorkerSigpipe`).
* The watcher waits (`WatchWait`), takes the events one by one (`WatchWake`,
  `WatchEvent`), reads (`WatchRead`, one `read()` per step), erases an ended
  descriptor (`WatchErase`), counts (`WatchCount`) and defers (`WatchDefer`),
  every time by descriptor *number*: a `read()` and an `erase_fd` reach whatever
  socket has the number now.  A number reused by `open_stream` stands for
  a socket that is still blocking: a `read()` fails with ENOTCONN before
  `connect()` is called and blocks after that (state `stuck`), until
  `WatchReadReturns`.
* The deferred lambda is `RunDeferred` (search and send), `DeferredClose` if the
  socket ended, `Finish` (the second look at `send_queue_len`, which the watcher
  may have counted up since the `--`), then one `UpdateNext` per manager.
* The close callback is `WsClosed`, one `ForceClose` per stream, `Destruct`.
  Write tasks take the lock between two of them.

A handler runs from start to end on the loop thread (`loop.at = "idle"` guards
its start), so callbacks never interleave with each other, only with the
watcher and the pool.

### Thread pool

`ThreadPool` is one level below the core: `tasks_mutex` and the two condition
variables.  A critical section is one step; `notify_one` comes after the lock is
released and is a step of its own; sleepers may wake for no reason.  The loop
thread is the only caller, of `detach_task` and at the end of
`~thread_pool`: `wait()`, then `request_stop` and `join` of each `std::jthread`, last
one first.  `TaskQueue` is the abstract pool: tasks are taken in order, each by one idle
thread, and the pool shuts only when all have run.  `ThreadPool` implements it
(`Implements`, with the mapping in `Queue`), and its `Take` is the core's `WorkerPop`,
so what the core assumes of the pool is what the pool provides.

### Parallel loops

`ParallelLoop` puts the loops of the pool on top of `ThreadPool`: a range is divided by
`blocks`, each block is one task of the pool, its thread calls the function index
by index (`CallIndex`) and sets the promise with a value or an exception (`Finish`,
`Throw`), while the caller waits in `multi_future::get` or `wait`, future by future,
and at last in `~thread_pool`.  The steps of the pool are those of `ThreadPool`,
unchanged, so its properties are checked, and its theorems hold
(`LoopsUsePool`), under this load too.  The server itself submits single tasks and never
calls these loops; they are here because `BS_thread_pool.hpp` is part of the repository
and because they load the pool in ways that single tasks do not.

### Flow control

`WispCredit` says what a client may rely on: credit is spent packet by packet, a
CONTINUE comes only when the room is used up, never a second before the first
has arrived, and brings all of it back.  The mapping (`Credit` in
`WoefulProperties`) takes `credit` from the client, `buffer` from the entry and
`granted` from the packets in flight (`Credits`, `Buffers`, `Grants`), for TCP streams
that are open at both ends.

### Packets and configuration

`WispPackets` has the constructors and `serialize()` of every packet type on
sequences of bytes, least significant first (`Uint16`, `Uint32` read them, `InMemory`
lays a `uint32_t` out), with `data_len` modulo `SizeT`: the
subtraction for a short message wraps, and the allocation of that length ends the
process (`at = "dead"`).  `Config` reads a file element by element (`ReadRoot`,
`ReadChild`, `ReadEnd`), hands it to `set_conf`, and then serves messages: `receive`,
`handle_connect`, and `open_stream` with its block list, on the host name and port
that the ConnectPacket has made of the bytes.  An attribute is missing, cannot be
converted, or has a value; XML itself is tinyxml2's.  The test for a terminator looks at
the last byte of the packet.  When the host name is empty that is the high byte of the
port, so an empty name before a port below 256 counts as terminated although no byte of it
is there (`NameEnds` is false): `open_stream` then takes any host name.  `HostnameAsSent`
says what reaches the block list in every case, this one included.

### Start and end of the process

`Lifecycle` begins with the globals: `system_watcher` starts its thread, `threadpool`
starts `determine_thread_count(THREAD_COUNT)` threads (`hardware_concurrency() - 2` in
`unsigned int`, which wraps on a machine that reports fewer than 2), then `main` refuses small machines and bad
files, or listens.  SIGINT sets `interupted`, the post handler calls `app.close()`,
and the destructors run last to first: `DestructPool` waits for the tasks,
`DestructWatcher` sets `deconstructing` and then writes to the pipe, `Join` waits for
the watcher.  Streams are kept as far as they hold up the end: a stream in
`connect()`, tasks in `poll()`, the watcher in a blocking `read()`.  A task that starts
when the manager it captured has been deleted does what it does in the core
(`WorkerNoManager`): it kills the process, reaches a newer object, or hangs in the freed
lock for ever (`hung`).  `Held` names the two states from which the process does not end
whatever anyone does: `~thread_pool` waits for a hung task, or the watcher saw
`deconstructing` and ended without reading a self-pipe that is full, so that `wake()`
blocks.  TLC reaches both, and `InterruptEnds` and `ExitEnds` fail without either exception.

### Capture

`PcapInterface` is one capture: frames are made, written and counted under
`writer_gaurd` (`Lock`, `WriteFrame`) by pool threads and the loop thread; a task that
meets EAGAIN goes round its loop, which begins with the capture; `Delete` is
`close_stream`.  A task that was queued before `Delete` may start after it.  Its look-up
then gives nothing, or goes through a manager that is gone, and it dies or hangs there
(`LookedUp`) instead of writing a frame; `Running` stops the process when one has died.

### Data

Payloads and chunks are numbered, packets are records, lengths are counted:
`MAX_WS_FRAME` in reads of `SEGMENT_SIZE`, `MAX_BACKPRESSURE` and `SOCKBUF` in
packets, the pipe in wakes.  A UDP target differs from a TCP one where the code
tells them apart: it has no credit and raises no SIGPIPE.  `U32` is the modulus of
`buffer`, which wraps when a client sends more than its credit.

### External parts

uWebSockets' `send` (what the kernel does not take it keeps; beyond
`maxBackpressure` it drops), its drain callback (called when a kept packet
could be moved, whether or not all could), `defer` (a FIFO), epoll (level
triggered) and the kernel's descriptor table (a freed number may be given out
again at once) are modelled from the way the code uses them and marked external.
Clients come in two kinds: with `Conforming` they wait for the
initial CONTINUE, use an id once and respect the credit; without it they send
what they like.

## 3. Runs

Deadlock is checked in the runs of the core and of the pool: `Resting` lets the server
stutter only when no handler, event or task is under way, so threads that wait
for each other for ever are reported.  In `lifecycle`, `config` and `pcap` it is
not, because the process ends, dies on a short message or reaches the bound on frames.

| Run | Instance | Shows |
| --- | --- | --- |
| `download` | 2 clients with a stream each, 2 descriptor numbers that may pass from one to the other, a chunk and an end per stream, kernel takes 1 packet, websockets that close | `CloseIsLast`, `AstrayByReuse`, `ClosedIsSilent`, `QueueLenExact`, `UnwatchedIsClosing` |
| `flow_control` | 1 TCP stream, credit 2, 3 payloads, 2 chunks in one event or in two, kernel takes 1 packet, one pool thread, `FairSpec` | `CreditCovered`, `CreditKept` (implements `WispCredit`), `UploadOrder`, `DownloadOrder`, `BackpressureWillDrain`, `RefilledByTraffic` |
| `two_clients` | 2 clients whose streams have **one** descriptor number one after the other, 1 payload each, targets that end, a pipe that one wake fills, `CooperativeSpec` | `EntriesOpen`, `OneOwner`, `NoDescriptorLeak`, `LoopReturns`, `EndIsSeen` |
| `any_client` | a client without manners, TCP and UDP, 2 descriptors, 2 pool threads, `U32` = 2 so that `buffer` wraps, drops beyond one kept packet | `TypeOK`, `WriterHoldsStream`, `PollUndisturbed` |
| `thread_pool` | `ParallelLoop` with 3 threads, ranges of up to 3 indices, `FairLoopSpec` | `TypeOK`, `RunningExact`, `Implements` (the queue), `DestructorReturns`, `Divided`, `NeverTwice`, `DoneIsDone`, `CallReturns` |
| `lifecycle` | machines of 0 to 4 threads, every configuration, 2 streams, a pipe that one wake fills, ^C at any time, `CooperativeSpec` | `TornDownInOrder`, `InterruptEnds`, `ExitEnds`, `RefusesSmall` |
| `pcap` | 2 pool threads and the loop thread, numbers that wrap at 6 | `Conversation`, `WrittenIsCaptured`, `WritersHaveCapture` |
| `config` | files of up to 3 elements, messages with up to 5 bytes of body | `DiesOnTruncatedOnly`, `SerializeInverts`, `SentDecodes`, `HostnameAsSent`, `AllOrNothing`, `ServesTheFile` |
| `upload_stalls` | a stream whose target sends nothing, `FairSpec` | violates `Replenished` |
| `descriptor_reuse` | 2 clients, one descriptor number, 1 chunk each | violates `RightClient` |
| `late_task` | 1 stream, 1 payload | violates `TaskFindsStream` |
| `two_pool_threads` | 1 stream, 2 payloads, 2 threads | violates `UploadOrder` |

**Why the bounds are enough.**  The races are between one descriptor number and
its next use, one task and one close, one lambda and one reuse: two clients,
two sockets and one number meet all of them, and one number makes every stale
use hit a reused one.  `SOCKBUF` = 1 and `BUFFER_COUNT` = 1 or 2 put
backpressure, refill and the epoll batch limit within a few steps.
`MAX_QUEUE` = 1 puts both sides of its three tests within reach.  `MaxSock`,
`MaxChunk` and `MaxData` bound the length of a behaviour.  Two chunks are what it
takes for backpressure while the client has credit, and so for the refill in
`handle_data`.  Three indices in one to three blocks give even and uneven
divisions and blocks that share a thread.  Two streams let the number of a closed one
be reused while the watcher still holds its event, and the self-pipe of `lifecycle` is
full after one wake.  In `two_clients` two sockets share one number: the watcher can
hold a stale event, block in `read()` on the second socket and leave the pipe full, and
`LoopReturns` fails without either half of `Cooperation`.  A watcher that is stuck on one
stream while a third one waits to be closed would need a third socket, which is more than
TLC gets through in five minutes; so `EndIsSeen` does not need `StuckAnswered` in this
instance.  The streams of one manager do not meet in these instances either, since each
client has one: that `force_close` goes through all of them, and that each keeps its own
credit and order, is part of the theorems below, which hold for any number.  Bytes 0 and 1
are a terminator and another one, and make the two bytes of a port differ; of the ports in
the file, 65537 is the one that would be 1 as a `uint16_t`.  `SizeT` stands for
2^64: above it and `MaxAlloc` only the order of magnitude counts, because a wrapped
size is within a few bytes of the modulus and no allocation of that size succeeds.

**Fairness.**  `Fairness` is what an operating system gives: each thread runs.  It
includes the return of `connect()` on the loop thread, in the worst case by the timeout
of the kernel, but not that of `poll(-1)` or of a blocked `read()`, which have none.
Those depend on the targets: `Cooperation` says that a target takes what is written to it
or goes away (`PollReturns`), and that one whose socket the watcher is blocked on sends
something or goes away (`StuckAnswered`).  `CooperativeSpec` is the two together.  It is an
assumption on the rest of the world, not a promise of the code: without `PollReturns` a
pool thread holds `stream_lock` for as long as its target does not read, and
`close_stream` on the loop thread waits for it; without `StuckAnswered` a watcher that took
a reused number for the old one reads nothing any more, the self-pipe fills, and `wake()`
blocks the loop.  `LoopReturns` fails in both cases, and it should.

`Reception` is for the clients: weak fairness for a client reading its websocket, strong
fairness for the drain callback, since between two drains the loop runs other handlers, so
that the callback is enabled again and again rather than continuously, and uWebSockets polls
every writable websocket in each round of its loop.  `FairSpec` adds it to
`CooperativeSpec`, for the refills.  Apart from a blocked `read()` no fairness is assumed for
what clients and targets send, nor for closing.

That of `FairLoopSpec` is that the caller and the pool's threads run and that the function
returns or throws; spurious wakeups are not relied on.  In `Lifecycle`, `FairSpec` has
the threads run, `connect()` return (if only by the timeout of the kernel) and targets
read.  The main thread looks at `interupted` in its post handler, after every round of
its loop, and uSockets' timer brings it round at least every four seconds.
`CooperativeSpec` adds that a target whose socket the watcher blocks on sends
something or ends; without that, `InterruptEnds` and `ExitEnds` fail.

**What the violations say.**  Each is a statement the repository makes and the
code does not keep; `PROJECT.json` quotes the line.  `upload_stalls`: the refill
in `handle_data` requires backpressure, the one in `update_streams` requires
target traffic or a drain, so a client that only uploads runs dry.
`descriptor_reuse`: a lambda that captured a number finds the next owner of that
number.  `late_task`: a task dereferences a look-up that can fail.
`two_pool_threads`: tasks of one TCP stream hold the lock shared and may pass each
other.

**What the model shows without a run of its own.**  The comment "hostname must be null
terminated" (`src/src/packets.h:128`) is not true of an empty name before a port below 256;
`HostnameAsSent` and `ServesTheFile` name this as their exception (`NameEnds`).  Of the
following no line of the repository promises the opposite; they are noted here and as
hazards: where THREAD_COUNT wraps the process dies in the
constructor of the pool, before `main` can say why; a watcher in a blocking `read()` of
a reused number, a self-pipe that is full when the watcher has ended, or a task that hangs
in the lock of a deleted manager keeps the process from ending (`Held` in `Lifecycle`); a payload is captured once per attempt to write it; the CLOSE of a client does
nothing.

Every property of a passing run also has a mutant: a definition preceded by a
comment `Slip:` that changes one mapped definition the way a plausible mistake
would (a guard or a reset missing, two steps swapped), and under which TLC finds
the property violated.

## 4. Theorems

`WoefulTypeProofs` and `WoefulProofs` prove, for every value of the constants
that satisfies `StateAssumption` and `NoStreamAssumption` (finitely many stream
ids, none of them 0, the pipe not among the sockets' numbers, positive buffers,
a modulus larger than the credit, an entry different from no entry):

* `TypeCorrect`: `Spec => [](TypeOK /\ QueueLenExact)`.  The two need each
  other: `send_queue_len--` stays a natural number because the counter counts
  the very lambda that runs it, and that is exactness.  The types also need
  `StuckOnSocket` (a blocked `read()` is on a socket that exists), since what it
  takes goes into the lambda, and `SocketsStay` for that.
* `OwnershipInvariant`: `Spec => []Ownership`, and from it `EntriesAreOpen`,
  `OwnersAreUnique`, `WritersHoldStreams`, `NoLeak` and, as an action property,
  `PollsAreUndisturbed`.

None of `EntriesOpen`, `OneOwner`, `WriterHoldsStream`, `NoDescriptorLeak` is
inductive alone.  `close_stream` keeps `EntriesOpen` for the *other* entries only
because no other has the number (`OneOwner`); a freshly opened number is in no
entry only because entries name open descriptors (`EntriesOpen`); a write task
keeps its stream because close and insert wait for readers, and its socket
because of both.  `LoopOwns` adds what the loop thread knows in the middle of a
handler (the stream to be closed is there; `force_close` has exactly the
remaining streams before it, so `delete manager` leaves no entry behind), and
`FreshIds` what a conforming client adds (the id it connects has no entry, so the
insert overwrites nothing).

The proof has one lemma per action.  Most actions leave the entries, but for
their buffers, and the sockets, but for their contents, as they are: `QuietStep`
and `KeptStep` settle those.  `CloseStreamKeeps` is shared by the lambda and
`force_close`.

* `UnwatchedAreClosing`: `Spec => []UnwatchedIsClosing`, from `Watched`, which says the
  same of the descriptor `handle_connect` has registered and not yet entered, and that an
  event about to erase has `to_close` set.  The
  step that needs it is the watcher's `erase_fd`: it goes by number, and what it hits is
  covered because the watcher's own event, with `to_close` set, carries that number
  and its lambda will close whatever stream has it.

`WoefulFlowProofs` proves, under the same assumptions:

* `BackpressureDrains`: `Spec => []BackpressureWillDrain`.  `Backpressure` adds that the
  flag of a manager that is still to be made is not set.
* `FlowInvariant`: `Spec => [](Conforming => Flow)`, and from it `CreditIsCovered`,
  `SilentAfterClose` and `KeepsCredit`.  `Flow` has three parts.  `ClientFlow` is about
  a whole client: there are packets for it only while its manager is open, every CONTINUE
  brings the whole credit, a CLOSE is the last packet of its stream.  `QueueFlow` says
  when packets of a stream may be under way at all (an unused id has none, an entry has
  no CLOSE before it).  `CreditFlow` is the core: there is at most one CONTINUE per
  stream, and while there is one the client has no credit and `buffer` is full;
  otherwise `buffer` covers the credit.  `CreditCovered` alone is not inductive: that
  a second CONTINUE cannot be sent follows from the first one having filled `buffer`,
  and that an entry begins with credit covered from what `handle_connect` was told.
* `KeepsCredit`: `Conforming` and `[]NothingDropped` imply `CreditKept`, the
  refinement of `WispCredit`, one lemma per kind of step (`CreditStays`, `CreditOpens`,
  `CreditSends`, `CreditReceived`, `CreditCloses`, `CreditGrants`).  The hypothesis
  `NothingDropped` is needed: uWebSockets drops packets above `maxBackpressure`,
  a dropped CONTINUE is credit that the server believes to have given, and nothing in
  the code sends it again.  `flow_control` has states of this kind only, since its
  packets never exceed the limit.
* `UploadInOrder`: if there is one pool thread, `Spec => []UploadOrder`, for clients of any
  kind.  `UploadLine` lines up the payloads of a stream: written, in hand, queued, and
  not above what the client has sent; each step moves the first of a line to the end of
  the next.  `Ownership` is needed for the write, which goes by number: the
  socket behind the entry is one of the payload's stream.  With two threads the property
  is false (run `two_pool_threads`).

`WoefulDownloadProofs` follows the data of the targets:

* `DownloadInOrder`: `Spec => []DownloadOrder`, for clients of any kind, any number of pool
  threads and whatever uWebSockets drops.  `DownloadLine` follows a chunk along its path:
  unread in the socket, in the event the watcher holds, in a deferred lambda (the two
  together are `Pending`), in a packet under way, received.  Chunks of one socket are in
  order in each place, and every place is ahead of the ones before it, so that each step
  either moves something across the border of two neighbours or adds at the far end.  The
  lambda's search by number plays no part: a chunk sent to the wrong stream
  (run `descriptor_reuse`) is still in order there.
* `StraysByReuse`: `Spec => []AstrayByReuse`, again for clients of any kind.  The run
  `descriptor_reuse` shows that `RightClient` is false; this says how far it is
  from true: a chunk reaches a foreign stream only if the socket it was read from
  had the number of one of that stream's own sockets.  `PureEvents` says that an event
  holds data of its own number only, `NumberedStreams` the same of what a
  stream is sent.  The case that needs more is a `read()` that blocks: `Numbers` says that
  the socket it waits on has the number of the event.
* `ClosesLast`: `Conforming` and `[]NothingDropped` imply `[]CloseIsLast`: the CLOSE that
  answers the end of a target follows everything the target sent, unless the number
  of its socket was used twice.  The inductive invariant `EndLine` says three things of
  the socket of a stream that is in use: every chunk sent so far is with the client,
  in an event or unread (`Reaches`); an event that reports the end is followed by no data
  and leaves none in the socket (`EndsLast`); when the lambda is about to call
  `close_stream`, no data is left anywhere (`Drained`).  It rests on `Numbers` (a
  number in an event or in epoll is that of a connected socket, and a `read()` blocks
  only where a number was used before), on `OneSocket` (a conforming client uses an
  id once, so a stream has one socket), on `Flow` (a new id has no CLOSE
  under way) and on `Ownership` (the search by number finds this stream).  The two
  hypotheses and the exception are needed: a DATA packet may be dropped and the CLOSE
  after it not; when a client uses an id again, the CLOSE of its first use may still be
  under way; and a stale event on a number that is in use again closes the new
  stream.  TLC finds a counterexample to each of the three weakened statements.

`ThreadPoolProofs` proves, for any number of threads (at least one) and tasks:

* `PoolCounts`: `Spec => [](TypeOK /\ RunningExact)`.  `RunningExact` is inductive with
  the types, and they need it: a thread may count itself out only because it is
  in the count.
  `PoolTypes` states the types alone.
* `PoolIsQueue`: `Spec => Queue!Spec`.  Every step maps to one of the queue or to
  nothing.  The step that needs `RunningExact` is the one that shuts the queue: `wait()`
  looks at `tasks_running = 0`, the queue at the threads.

It also proves of `ParallelLoop`, for any range, number of blocks and number of threads:

* `BlocksDivide`: the blocks of `blocks(first, after, n)` follow each other from `first`
  to `after`, none is empty, their lengths differ by at most one, and there are at
  most `n`.  The argument is arithmetic: `total = num * size + remainder` with
  `remainder < num`, so the start of each block is that of the one before plus `size`
  or `size + 1`.
* `RangesAreDivided`: `LoopSpec => []Divided`; only `Start` sets the division, and
  always to one of `blocks`.
* `LoopsUsePool`: `LoopSpec => Spec` (of `ThreadPool`), so that `PoolCounts` and
  `PoolIsQueue` carry over.
* `LoopInvariant`, and from it `CallsNeverTwice` (`NeverTwice`) and `WaitsToTheEnd`
  (`DoneIsDone`).  Neither is inductive: an index is called once because the
  function has been called with exactly the indices the blocks are past (`OnceEach`), each
  block is in one place only, queued or with one thread (`Accounted`), and blocks do not
  overlap (`BlocksDivide`).  `Awaited` says which futures the caller has seen, and `Shut` that a
  pool past `wait()` has nothing left, which is `RunningExact` again.  `LoopAssumption` has
  `Index` an interval, as the indices of a loop are.

`PcapProofs` proves, for any number of threads, payloads and any modulus:

* `AlwaysConversation`, `AlwaysCaptured`, `AlwaysHaveCapture`.  The numbers a thread puts
  in a frame are read from the interface and written back under `writer_gaurd`; the
  invariant says that a thread between making a frame and writing it holds the mutex
  (`Guarded`), so that its frame still says what the numbers are (`Current`), and that
  the numbers are those after the last frame of each side in the file (`UpToDate`).  A task
  that polls has its payload in the file (`Captured`).  A capture that is closed has
  no thread in it (`ClosedIsIdle`), because `close_stream` waits for the readers of
  `stream_lock`, and a task that starts later does not get to it.  What the theorem leaves
  open is that such a task starts at all and takes the process with it: that is the
  violation `late_task` of the core.

`ConfigProofs` proves, for any bytes, files and bounds that satisfy `SizesAssumption` and
`ConfigAssumption` (bytes below 256, stream ids and credits that fit in 32 bits, messages
that can be allocated, a `SizeT` beyond every allocation):

* `PacketInvariant`, and from it `OnlyTruncatedDies`, `SentIsDecoded`, `SerializedAgain` and
  `HostnameReachesTheList`: what has been parsed or sent is the constructor's result on the
  bytes at hand, and the constructors invert `serialize()`.  The lemmas are about the
  layout: where each field begins, that reading a `uint32_t` from its own bytes gives it
  back, that the first zero of a host name is where the name the client sent ends.
  `HostnameReachesTheList` is about type, port and name of every ConnectPacket; for the
  empty name before a port below 256 it says that there is no name.
* `FileInvariant`, and from it `WholeFileOrNothing`: after `n` elements the configuration is
  what the first `n` elements say (`Collected`, stated without recursion: the last port,
  the last flag, all names and ports of the list).
* `AskedInvariant` and `TheFileIsServed`: the answer of `open_stream` is the verdict of the
  configuration in force, and that is the file's, since `set_conf` is called once, before
  anything is asked.  The empty name is covered wherever it ends in the packet (a port of
  256 or more).

`LifecycleProofs` proves `TornDown`: `Spec => []TornDownInOrder`, for any machine,
streams, tasks and pipe, from `Phases`, which says what the main thread has seen to at
each point: no task after `~thread_pool`, no `connect()` outside the loop, no open
stream after `app.close()`.  `TornDownInOrder` alone is not inductive: that no
stream is open when `deconstructing` is set follows from what held when the loop
ended.

**Only model-checked.**  All liveness properties, which, with `ENABLED`, are out of the
prover's reach, as is what recursive definitions and folds compute for every input.
Every invariant and action property of the passing runs is a theorem, and so is the safety
part of the two refinements (`KeepsCredit`, `PoolIsQueue`; the fairness of the queue in
`Implements` is left to TLC).

## 5. Plan

1. *(done)* core: manager, watcher, lambda, callbacks, their safety and
   liveness, type correctness and ownership proved.
2. *(done)* `ThreadPool` and `ParallelLoop`: the vendored pool at the level of its
   mutex and condition variables, and its parallel loops.
3. *(done)* `WispCredit`, `WispPackets` and `Config`, `Lifecycle`, `PcapInterface`.
4. *(done)* Proofs: `NeverTwice` and `DoneIsDone`, `CreditCovered` and from it `CreditKept`,
   `ClosedIsSilent`, `UploadOrder`, `DownloadOrder`, `UnwatchedIsClosing`,
   `BackpressureWillDrain`, the capture, the packets and the configuration.
5. *(done)* `CloseIsLast`, restated without a fold, and `AstrayByReuse`, the bound on what
   `descriptor_reuse` shows.
6. Left: a model of shutdown in which the watcher still defers to a loop that has ended
   (`Lifecycle` has the order of destruction, not the lambdas).

## 6. Not modelled

DNS and the XML parser; error returns of `epoll_ctl` and `pipe`, allocation failure other than that of
a wrapped size; assignment of a `WoefulConfig::Member`, which the program never
does; the parts of the thread pool that neither the server nor the loops use
(timed waits, pause, priorities, purge, reset, the light pool); checksums and file
format of the capture, which are PcapPlusPlus's; what uWebSockets does besides what
is described above.  Client messages are
handled in the step in which they are sent: the loop takes the messages of a
websocket in order, so a message that waits is one that is sent later.
