# EDSM: a TLA+ model of the engine and its echo server

The repository is an engine for *event driven state machines* (EDSM) in C and a
demonstration of it, a TCP echo server. This directory holds TLA+ modules of the
engine (message buffer, dispatcher, timers and signals, channels, file system
watches, descriptions of machines), of all the machines of the echo server running
on one engine, of the engine's own test, and of the containers they are built with;
the TLC configurations that check them; and theorems with proofs checked by TLAPS.

## The system

One process, one thread. `main()` (`echo-server/main.c`) creates the machines,
each from a template and a `.smd` file that lists its states and reflexes, and
enters `main_loop` (`include/edsm.h`):

* `exec()` gets messages from a global ring until it is empty and dispatches each
  to its destination: an *action* (`@state E: handler`) or a *transition*
  (`+state E next`: `leave` handler, new state, `enter` handler). A message for
  which the state has no reflex is dropped.
* `wait()` blocks in `epoll_wait()` and puts a message for each of at most 32
  events: data, hang-up or room on a socket, an expired timer, a signal. What the
  event *says* is found out only when its message is dispatched.

So there are no threads, but there is concurrency: up to 32 events are queued
together, the handler of one may detach the channel, stop the timer or free the
machine another event in the queue is for, and the messages machines send each
other are queued behind all of them.

| Component | State | Operations | Makes it correct |
|---|---|---|---|
| message buffer, `engine/message-buffer.c` | ring, write and read index, counter, capacity | `mb_put` (doubles a full ring), `mb_get` | a FIFO queue; nothing lost, invented or reordered |
| dispatcher, `engine/message-dispatcher.c`, `edsm-api.c` | the state of each machine | dispatch, `msg`, `new`, `run`, `del` | no message is dropped that somebody waits for; no message for a freed machine |
| event capture, `engine/event-capture.c` | timers' intervals, timerfds, signalfds, epoll | wait, arm, disarm, read a tick or a signal | a timer is heard when it was started and is due; what was reported is there when it is read |
| channels, `engine/channel.c`, `edsm-api.c` | per machine: channels with their descriptors; epoll's interest list | create, delete, attach, detach, enable | a descriptor is of one channel; a stale event does no harm; nothing leaks |
| state machine descriptions, `engine/smd.c` | timers, signals, states, reflex matrix | parse a `.smd` file, make the matrix | a machine is what its file says, or is not made |
| object pool, `utils/object-pool.c` | a stack of items, capacity, low water mark | get, put, expand, shrink | never more items than slots; the mark is a low water mark |
| rx, `rx.c` | requester, flags, channel, timer | read a line for a worker, with a timeout | one answer for each request, then back to the pool |
| tx, `tx.c` | requester, channel | write a line for a worker | all of the line, once, then back to the pool |
| worker, `worker.c` | client, two buffers, `io_context` | alternate reading (`getp`) and writing (`ackp`) for one client | gives its client up once, and only when it is done |
| manager, `manager.c` | - | find a worker for a client, send gone clients to the listener, stop on SIGINT, SIGTERM | every client is with exactly one machine |
| listener, `listener.c` | listening socket | accept, close | no socket leaks, none is closed twice |
| pool manager, `poolman.c` | - | once a minute delete machines that were not needed | deletes only machines at rest |
| file system watches, `edsm-api.c`, `message-dispatcher.c` | table of names, inotify descriptor | add, delete, read one event | each event is read once, in order, and its watch has its name |
| memory pool, `utils/mempool.c` | pages, list of free blocks | get, put a block | gives no block that is in use, loses none |
| list, queue, stack (`utils/`) | nodes in blocks of one memory pool | add at either end, take | sequences of their own |
| pool of objects with numbers, `utils/pool.c` | two arrays, marks | register, get, put, expand | takes back what was registered, and nothing else |
| array, `utils/array.c` | items, capacity | add, set capacity, reset, walk | a sequence; no write beyond its memory |
| prefix tree, `utils/prefix-tree.c` | nodes with sorted edges, counters | get, add, set, delete, trim, nuke, walk | a sorted dictionary |
| test machine, `test/` | two timers, two signals, watches | print, stop | ends by its timeout or a signal |
| sockets, strings, logging, backtrace, load tool, api registry (`utils/`) | none that matters | | |

A client's way through the echo server: `listener` accepts and sends the client to
`manager` (M0); `manager` takes a `worker` from its pool and sends it the client
(M1); `worker` takes an `rx` machine from its pool and sends it the context of the
input buffer (M1); `rx` attaches the socket, reads, detaches it and answers M1 or
M2; `worker` copies the line and does the same with a `tx` machine; and so on.
On M2, or when a pool is empty, `worker` sends the client back to `manager` (M1)
and itself to its pool; `manager` sends the client to `listener` (M0), which closes
the socket. Whoever takes the last machine out of a pool creates another
(`utils/add-sm.c`); `poolman` deletes machines again.

### What is hard about it

* **Order of events in a batch.** Data, hang-up and timeout of one machine may be
  reported together, in any order, before or after events that free others.
* **Stale events.** A message of epoll is interpreted when it is dispatched; the fd
  may be detached by then, the timer disarmed, the machine deleted.
* **Hand-over.** One socket passes from rx to tx and back through messages; epoll
  allows an fd to be added once, and the listener closes it in the end.
* **Pools at their limit.** Pools run empty, expand on a put and shrink on a tick,
  by a low water mark that is kept between ticks.
* **Things that must happen.** A client that falls silent is noticed by a timer only.
* **The ring at its limit.** It is doubled when full, and its contents may be
  wrapped around the end at that moment.
* **Things taken back.** A timer may be stopped or started again, a watch removed, a
  socket detached, a machine deleted while an event of it is waiting.
* **Numbers used again.** Descriptors come back from the kernel, blocks from the memory
  pool, machines from the pools: a pointer or number kept too long means something else.

`PROJECT.json` lists these under "hazards", each at its line.

## The modules

| Module | Models |
|---|---|
| `MessageQueue` | abstract: the FIFO queue `mb_put` and `mb_get` promise |
| `MessageBuffer` | `message-buffer.c` slot by slot |
| `MessageBufferProofs` | the theorems about it |
| `MCMessageBuffer` | the instance for TLC |
| `ObjectPool` | `object-pool.c` as operators on a record |
| `Edsm` | what machines stand on: queue, dispatch, channels, timers, signals, pools, epoll, and the world outside (peers, time, signals) |
| `Rx`, `Tx`, `WorkerMachine`, `Manager`, `Listener`, `Poolman` | one machine each: one action per reflex of its `.smd` file, and its reflexes |
| `EchoServer` | the whole: `Init` after `start_machines()`, `Exec` (dispatch one message), `Wait`, `World`; the properties |
| `EchoService` | abstract: what each client is promised |
| `EchoProtocol` | what keeps the machines in step: the inductive invariant of the server |
| `EchoProtocolProofs` | its lemmas: pools, and what single machines and clients count on |
| `EchoInStepProofs` | every handler, and the world, keep the machines in step |
| `EchoServerProofs` | the theorems about the properties of the server |
| `EchoServiceProofs` | the server implements `EchoService` |
| `MCEchoServer` | the instances for TLC |
| `OsEvents` | `event-capture.c` and the reading of ticks and signals, under arbitrary machines |
| `TestMachine` | the machine of `test/`, on `OsEvents` |
| `Channels` | `channel.c` and the part of `edsm-api.c` that makes, deletes, attaches |
| `Smd` | `smd.c`, and `edsm__create` as far as it fills matrices |
| `Watches` | file system watches of one machine and the kernel's side of inotify |
| `EventCaptureProofs` | the theorems about `OsEvents`, `TestMachine` and `Watches` |
| `MachinesProofs` | the theorems about `Channels` and `Smd` |
| `MCEngine`, `MCEngineFair` | these together for TLC, one in each behaviour |
| `Memory` | what memory holds apart from data: `Null`, `Junk`; the width of numbers |
| `BlockAllocator`, `MemPool` | abstract allocator, `mempool.c` |
| `ListService`, `List` | abstract lists with two ends; `list.c`, `queue.c`, `stack.c` on `MemPool` |
| `Pool` | `pool.c` |
| `Collection`, `DynArray` | abstract collection, `array.c` |
| `Dictionary`, `PrefixTree` | abstract dictionary, `prefix-tree.c` |
| `DataBuffer` | the two buffers of a worker byte by byte (`worker.c`, `rx.c`, `tx.c`) |
| `ContainersProofs` | the theorems about `MemPool`, `List`, `Pool`, `DynArray`, `DataBuffer` and `PrefixTree` |
| `MCContainers` | the containers and the buffers for TLC, one in each behaviour |

Components that do not touch one another's state are put side by side in `MCContainers`,
`MCEngine` and `MCEngineFair`: the variable `part` says which of them a behaviour
exercises, and the others stay as they start. Nothing is lost by it, since they do not
interact; those that do are composed properly (`List` extends `MemPool` and takes
its nodes from it, `TestMachine` extends `OsEvents`, `EchoServer` has all machines).

### Message buffer

A slot, an index and the counter are variables, named as in the struct. An action
is a whole call: `PutRoom`, `PutExpand` (with `__expand_mb` inside), `PutFails`
(`realloc` failed), `mb_get`. Masking with `capacity - 1` is the step from
`capacity` to 0, since an index is never larger. What a fresh slot holds is `Junk`.

`Spec` lets anybody put at any time. `DisciplinedSpec` leaves one thing out: a put
into a ring that is full *and* wrapped. The second implements `MessageQueue`
(`ImplementsQueue`, with `Contents`, the pending messages in order, as the
refinement mapping), the first does not (a finding). That the echo server keeps
the discipline follows from `EchoServer!QueueBound`: the ring of 128 slots is
filled with 163 messages before the first is read, so it is doubled when it is not
wrapped; afterwards it holds at most three messages for each event of a wait, which makes 96 for the 32 of
the program. This is proved for every size of a batch (`QueueStaysBounded`).

### Echo server

State as in the code: `queue` (the ring, seen as `MessageQueue`), `state[m]`,
`io[m]` (fd and what epoll watches), `timer[m]`, `pool[k]`, `job[m]` (requester),
`flags[m]`, `wi[w]` (`struct worker_info`). `net[c]` is the connection of peer `c`,
whose name also stands for its socket; `fate` says how the process ended. A step
dispatches one message, or waits, or lets the world move: a peer connects, sends,
leaves (`fin`) or resets the connection (`rst`), reads; a timer expires; a signal
comes. The world moves between any two steps.

Data. What a peer sends is a sequence of chunks, of which only matters whether they
hold a newline; a chunk is identified by peer and number, so that an echo of
another's data, out of order or repeated, is seen as such. `read()` and `write()`
take any number of chunks of those there are. Text has no zero bytes (the worker
copies with `strcpy`).

Handlers that end the program (`exit(1)`, a crash, SIGPIPE) set `fate`; the properties say
which of those cannot happen. `malloc` and `realloc` are taken to succeed.

A message without a reflex is dropped by the dispatcher. That is no action of the
model; instead `NoMessageDropped` says that it never happens, and the model would
otherwise show a stuck queue.

### The engine below the machines

`OsEvents`. Per timer the machine's interval and the timerfd (`left`, `reload`,
`expired`), the pending signals, the queue of messages. A call (`tm_start`, `tm_stop`,
`tm_set_interval`) is a step of its own, so that it may come from any handler, before, between
or after the messages of a batch. `asked` is history: how each timer was started, and
whether an expiration that was already reported has been taken back. `ReadTick` and
`ReadIntr` end the process when there is nothing to read, as the code does; `ReadsSucceed`
says that this happens only if the machine took the expiration back itself, or another
interrupt for the same signal has had it. Time goes in units; how often a timer
expired before it was read is not told apart.

`Channels`. `fd[c]` as in `struct channel`, `open`, `nonblock` and `interest` for the kernel,
which gives the lowest free number. The application opens, closes and attaches sockets
as it likes, but closes none that is attached and attaches none over another; a machine is
deleted when no message for its channels is pending (what `NoDanglingMessage` says of the echo server).

`Smd`. A file is a sequence of lines, a line a record of what `sscanf()` gets from it. `ReadLine`
is one turn of the loop of `smd_load_desc` with everything it calls; then functions are
resolved, the states made, and `edsm__create` fills the matrix, later reflexes over
earlier ones. The properties read the meaning off the text alone.

`Watches`. The kernel's names, files, watches and event queue (with its overflow); the
machine's table of names, with `Junk` where `realloc()` has added memory nobody cleared. Sizes of
events are in units of `struct inotify_event`. An event is read with ever larger lengths until
one fits, exactly one for each message.

### Containers and buffers

`MemPool` keeps the links of free blocks only: the first word of a block in use is its
holder's, and is the link of a node in `List`. `DynArray` keeps the places that fit into
the bytes the array has, so that a capacity and its memory can disagree; `CarefulSpec`
has the callers' discipline: no capacity below the number of items, no size in bytes
that wraps. `PrefixTree` has numbered nodes
and the caller's reference to the data of one. `pt_del` destroys the data of a word and leaves them in the
node, which therefore stays; a datum that was destroyed is in `freed` until somebody stores it again (an address
`malloc()` has given once more). `TreeSpec` has any caller. In `TidySpec` callers do what this makes necessary: who deletes a word with data holds
a reference to its place, and stores `NULL` there before anything else is done with the tree. `exited` says that the process
has ended, which it may do when memory runs out (`pt_add_exits`). The loops of `__pt_cut_branch` and the recursion of `__pt_trim` are
given by the nodes they delete: `Falls` and `Below` collect them round by round, as many rounds as there are nodes, and `del_nodes`
takes them out of the edges of those that stay.

`Pool` has the application's side too: which objects it holds, registered or not, and their first words. Nobody clears the array
that leads from numbers to objects, so `malloc()` and `realloc()` may leave any of `Left` there, among it objects of the
application (the memory may have been another pool's array). `NewCap` adds as the code does, in unsigned numbers put into an `int`;
that sums do not wrap (`NoWrap`) is up to callers.

`DataBuffer` takes the bytes that `EchoServer` abstracts to chunks: letters, newlines and zero bytes.
A full buffer gets one byte that `realloc()` does not clear, and `strchr()`, `strlen()`
and `strcpy()` go on to the first zero. `phase` is `overrun` when there is none in the
buffer; `LinesAreExact` says when this can be, and else that the echo is the line.

## The runs

| Run | Instance | Shows |
|---|---|---|
| `ring_fifo` | 2 messages, 2 slots, up to 8 | the disciplined ring is a FIFO queue; indexes and counter agree |
| `ring_wrapped` | the same, undisciplined | **finding**: junk is delivered |
| `echo_client` | 1 client, at most 2 chunks, both signals, 4 events a batch, with fairness | types and pointers; no engine assertion fails but the two findings; short reads and writes neither lose nor repeat a chunk; the client, if it reads its echo, is seen off |
| `echo_crowd` | 2 clients, 1 chunk each, 1 rx, 2 tx, 1 worker (growing to 3), 2 events a batch | the machines stay in step, none is lost, sockets are exclusive and have one holder; queue bound; each client is served as `EchoService` says |
| `echo_shrink` | 2 silent clients, 3 rx, 2 tx, 3 workers | deletion by the pool manager |
| `echo_race` | 1 client | **finding**: data and timeout in one batch end the server |
| `echo_run_dry` | 2 clients, 5 workers, deleted two at a time | **finding**: the pool manager deletes from an empty pool |
| `containers` | a queue and a stack in pages of 2 blocks; 3 objects; an array up to 9 items; 4 words; lines shorter than 4 bytes | the refinements of the four abstract containers; no block is lost; puts are checked; walks are sorted, trims keep whips, nothing is destroyed twice; lines are echoed exactly |
| `tree_deletes` | the same 4 words, any caller | **finding**: deleted data stay in the tree |
| `pool_recycled` | the same 3 objects, one of them in the memory the pool gets | **finding**: an object is taken that was never registered |
| `engine` | 3 machines and 7 descriptors; files of 6 lines (order) and of 4 (all kinds); a timer and 3 interrupts; 2 names of 2 files | kernel and channels agree; machines mean their text and are made only from well-formed ones; timers, signals and file events are heard when and as they should |
| `engine_fair` | the same timers, the engine's own test, a queue of 2 file events that overflows | a heartbeat goes on; the test ends, in time; file events are read |

Properties of the echo server, each in `EchoServer.tla` with its comment:
`NoMessageDropped`, `NoDanglingMessage`, `PooledIffQuiet`, `PoolFits`, `FdExclusive`,
`ClientHasOneHolder`, `AssertionsHold`, `QueueBound`, `ImplementsEchoService`,
`EveryClientIsSeenOff`. `PooledIffQuiet` and `ClientHasOneHolder` are claimed until
the defect of `echo_race` has struck (`DoneTwice`): from then on the server is about
to end. The properties of `MCContainers` and `MCEngine` are those of the modules
they instantiate, by the same names.

Each property of a passing run is also run against a fault planted in one
definition (the operators commented "A fault", next to the definition they
replace), and TLC finds the property violated.

**Bounds.** `MaxCapacity` (ring), `MaxSends` (chunks a peer sends), `MaxEvents`
(events of a batch, 32 in the program), the sets of machines (a name is used again
after deletion) and of clients. Machines are created on demand: the last one taken out of a pool
creates another, for which there must be a name that is not in use. When there is none, that step is not
taken (`AnyFresh` in `Edsm`): the set of names bounds what is created, and must be large
enough for the instance (a program has memory for as many as it needs). The proofs have the same guard, for sets of any size. Two messages tell order and repetition; capacities 2, 4, 8
let the ring wrap in each size and double twice. A batch of 2 to 4 events contains every
pair of events of one machine and events of two machines; one machine has at most an
i/o event and a timer event in a batch. Two clients exhaust a pool of one, and make
machines change hands. Pools with `capdelta` 1 or 2 reach empty, full, expansion and
shrink. `EchoServer!Connect` happens once for each client: a second connection
of the same peer is a second client.

In `containers`, two pages of two blocks run dry, grow, fail to grow and are put back in any
order while a queue and a stack share them; three objects, with first words that are
nobody's number, another's and their own, meet pools of fewer and of more slots
(`Limit` 5 stands for `POOL_CAP_LIMIT`), whose memory may hold one of them (`Left`), and increments that make an `int` negative or wrap; the word size (`Wrap` 16, items of an array have 2
bytes) lets sizes wrap within reach of two doublings; the words hold a prefix of another, a branching below a letter,
a node of no word and a stem of its own. Buffers of 2 bytes (`FirstLen`, 1024 in the program) grow
twice. In `engine`, 7 descriptors are fewer than all machines and two sockets need, so that creation
fails; up to 6 lines put two states, their transitions and actions in every order, up to 4 lines
reach each edge of an event's number; intervals are negative, zero and two different positive ones; a
batch of 2 events (`MaxEvents`, 32) meets up to four channels that are ready. `MaxWd`, `MaxHappened`
let the table grow beyond its first size and the queue (`MaxQueued`) overflow.

**Fairness.** In `echo_client`: `WF(Exec)` and `WF(Wait)`: the main loop goes on, as it is
the only thread and no handler blocks. `WF(TimerExpires(m))` for rx: an armed
timerfd expires. `WF(PeerReads(c))`: peers read their echo, because tx machines have
no timeout, and the property is false without it. Nothing is assumed of what peers send or whether
they hang up. `MaxEvents` is 4 there, at least the number of sockets and timers,
so that no ready event is passed over again and again; epoll itself rotates its ready list.
In `engine_fair`: `LoopWaits`, `LoopDispatches` and `TimeGoesOn`, each weakly fair: the main loop, and
time. Nothing is assumed of signals, files or the calls of machines; `MaxEvents` is at least the number of
channels, for the same reason.

## Proofs

### The ring

`MessageBufferProofs` proves for every set of messages, every initial capacity and
every bound that under the callers' discipline

* the ring is type correct, its indexes and its counter agree, and no junk is pending
  (`TypeCorrect`, `IndexesAlwaysAgree`, `NoJunkPending`), and
* it implements the FIFO queue (`Refinement`).

The assumptions are those of the constants: capacities are natural numbers, the
initial one is positive, `Junk` and `Nothing` are no messages. The inductive invariant
is `IInv == TypeOK /\ IndexesAgree /\ PendingWereWritten`. `TypeOK` alone is
not enough: `IndexesAgree` says that the slot about to be written lies just behind the
pending messages, so that a put overwrites none of them; and in an expansion it turns "not
wrapped" into "the oldest message is in slot 0". Each operation has a lemma
(`PutRoomStep`, `PutExpandStep`, `GetStep`, `GetEmptyStep`) that says both that it keeps
the invariant and what it does to `Contents` (`Append`, `Tail`).

### The echo server

For every number of machines and clients, all pool sizes and increments, every batch
size and all limits, `Spec` keeps all the invariants that the runs `echo_client`, `echo_crowd` and `echo_shrink`
check on small instances:

| Theorem | Property | Says |
|---|---|---|
| `TypesHold` | `TypeOK` | types, and the `void *` of each message is what its receiver casts it to |
| `NoMessageIsDropped` | `NoMessageDropped` | each message meets a reflex |
| `NoMessageDangles` | `NoDanglingMessage` | no message for, or of, a machine that is deleted |
| `PoolsHoldTheIdle` | `PooledIffQuiet` | a machine rests in its pool exactly if nothing is coming for it |
| `SocketsAreExclusive` | `FdExclusive` | a socket is attached by one machine, for the worker that serves the client |
| `ClientsAreHeldOnce` | `ClientHasOneHolder` | an open connection has one holder, another none |
| `NoOtherAssertionFails` | `AssertionsHold` | no assertion fails but the two of the findings |
| `QueueStaysBounded` | `QueueBound` | three messages for each event of a wait |
| `PoolsFit` | `PoolFits` | no pool outgrows its array |

**Assumptions** are those of `Edsm`: the names are of different things (`NamesAssumption`; in the program
they are addresses of different objects), each pool starts with at least one machine and a positive
`capdelta` (`PopulationAssumption`; so in `main.c`), the bounds are natural numbers and a batch has at
least one event (`BoundsAssumption`).

**Pools.** `PoolFits` is not inductive: whether a pool fits after a shrink depends on the low water mark, so
`PoolInv` (for each pool `SoundPool`) adds that the mark is never above the capacity, and that `capdelta`
does not change. Given a sound pool, a put, a get from a pool that is not empty and a shrink that does not run dry
leave a sound pool (`PutSound`, `GetSound`, `ShrinkSound`). The shrink that runs dry (the third finding)
ends the program.

**Staying in step.** None of the other properties is inductive, and they do not hold one without another: that
a message meets a reflex depends on the state its receiver is in, which depends on whom the receiver
works for and on what is pending between the two. The invariant `ServerInv` (types of the variables, the shape of the pools, and `StaysInStep`,
in the module `EchoProtocol`) states for each party what it may count on, given its state:

* `HelperView`, `LinkView`, `RxView`, `TxView`: which calls may be pending for an rx or tx machine in each state
  (none, exactly its own M0, exactly the M1 of one worker); it has a job from the M1 it takes to the M0 it finishes with, and
  the socket it has is that of its worker's client; events are pending only for a machine at work.
* `WorkerView`: a worker at work waits for exactly one thing: it has asked a helper (`Asking`), a helper has the
  socket (`Helped`), an answer is pending (`Answered`) or its own message is (`GoingOn`).
* `ClientView`: an open connection is with one message or with one worker; `SingleView`: how the machines there
  is one of start up.
* Order: events are in front of what is put after them (`EventsFirst`); a helper that has answered finishes before its
  worker asks again (`FinishFirst`), because its M0 was put in front of the worker's; while events are pending,
  only answers are put behind them (`EarlyOnly`), so no machine changes hands within a batch.

The second finding makes this invariant false as it stands: an rx machine that gets its line and its timeout in
one batch answers twice, and the second answer fits no view. It is then true of a queue that was never there, the pending messages without the second
answer and what comes after it: `StaysInStep` says that there is such a queue `q`, equal to `queue` or in front of the second answer equal to it
(`Ruined`), and that nothing behind that answer is dispatched before the program ends. So the theorems
hold of all behaviours, those that run into the finding included; only `PooledIffQuiet`
and `ClientHasOneHolder` are claimed until then, as in the runs.

`EchoProtocolProofs` has a lemma for each view and each way a step may touch it: a message is taken, one is put
behind, a machine changes its state, a connection changes. `EchoInStepProofs` goes through the
handlers, one lemma for each reflex, and ends in `MachinesStayInStep` (`Spec => []ServerInv`). `EchoServerProofs` derives
each property from it.

**The queue.** `QueueBound` is about a number, and the length of the queue alone is not inductive: one event may put
two messages, one of which puts another. So each pending message has a weight, of what it may still cause:
3 for an event and for a client just accepted, 2 for what a worker goes on with (an answer, a client, its own M0), 1 for others
(`Weight`). `QueueInv` says that the weights can be paid for with 3 tokens for each event of a wait (`Paid`: pending messages
hold disjoint sets of tokens, so that no recursive sum is needed), and each handler puts
no more than the message it takes has paid for (`RxPays`, `TxPays`, ..., `NextPays`). Until the listener has started, the messages of `main()`
are worked off and nothing is put (`Starting`).

**The service.** `ServerImplementsService` (`EchoServiceProofs`): `Spec` implements `EchoService`, with the connections, the chunks sent and the
chunks echoed as they are in `net`; the defect of `echo_race` included. What a client has sent and the server has read but not
echoed is not in `net`, so the proof needs to know where it is. That is `DataInv` (in `EchoProtocol`): what a client got
back is the beginning of what was read from it, and the rest is in the hands of one worker (`Carries`): in its input buffer, in the rx machine
that adds to it, in its output buffer, or in the tx machine that works it off, depending on the state of
the worker and on what is pending between the two. A line is written only after its newline was read. After a second answer of an rx machine the
pending messages mean nothing any more, and `DataInv` is claimed of none of them. `DataStays` goes through the handlers once more, given `ServerInv`; then
each step of the server is `Connect`, `Accept`, `SeeOff`, `Say`, `Echo` or a stutter.

### Components of the engine

These are used by any number of callers, whose order of calls is left open. All theorems hold for all values of the constants
under the assumptions that the modules declare.

*Containers* (`ContainersProofs`):

* **Memory pool**, for any size of pages: no block is on the free list and in use, no two
  links lead to one block (`MemPoolInvariance`), and the pool implements `BlockAllocator`
  (`AllocatorRefinement`). The invariant needs that links are one-to-one: otherwise
  the block that is taken off could still be linked.
* **Lists**: no block is lost, neither by the pool nor by a list (`ListsLoseNothing`), and lists implement
  `ListService` (`ListRefinement`). `List` and `MemPool` find the nodes of a list by following links, with recursive functions. The
  proof gives the sequence instead (`Leads`: distinct nodes, each linked to the next, the last to nothing), shows that
  there is one only and that the recursive functions find it (`NodesAreThese`, by the least number for which they would not), and says
  of each operation which sequences there are after it. `ListInv` holds the free list and the lists together: all of them are disjoint, and
  every block is on one (`Whole`).
* **Pool of objects**, for any objects, first words, contents of new memory, and capacities whose sums do not wrap: numbers that were given
  out and objects correspond, the pool holds each object once and none that is out (`PoolInvariance`). A registered object is always
  taken back, as long as the pool holds registered ones only, and another is taken only by a number that was not given out yet (`PutsAreChecked`):
  that the pool is never full for a registered object is a counting
  argument about one-to-one functions between intervals (pigeonhole).
* **Array**, for any word size and item size, under `CarefulSpec`: the memory has as many places as
  the capacity says, every item is in it and no access leaves it (`ArrayInvariance`), and the array implements
  `Collection` (`CollectionRefinement`).
* **Buffers of a worker**, for any first length: the echo is the line that was read, and when not, the buffer was full to
  its last byte (`BuffersInvariance`). The invariant relates what is in memory to what came in (`Holds`) and says what string C sees in memory
  (`IsString`): as many bytes as there are before the first zero, wherever that came from.
* **Prefix tree**, for any words and data: `TreeTypes` and `TrimsKeepWhips`, and under `TidySpec`, in which words are deleted with their
  data, `DeletedIsAtHand` and `DictionaryRefinement`. Their invariant is that no datum is at two places unless it was destroyed (`OneWordEach`) and that what was destroyed is only
  where the caller is about to clear it: until it has, `pt_del` has removed the word (`KeptAt`), although its node is full. A word's *way* (`Way`) is the sequence of nodes that its letters lead to; `TreeOK` says that each node but
  the root has one parent and one letter, so that ways to one node are one way (`WaysDiffer`), and `Reached` that each node is on the way of some word. An insertion only adds
  nodes (`Sprouted`), a deletion leaves a part of the tree (`Part`) in which a word leads where it led or nowhere (`SearchInPart`). That the rounds of
  `Falls` and `Below` find all nodes there are to find is a counting argument: a step that only adds nodes, and to a larger set no
  fewer, has nothing left to add after as many rounds as there are nodes (`RoundsStable`). That stems end within as many steps is the pigeonhole
  again: no way is longer than there are nodes (`WaysEnd`). From it, a word is cut by a trim exactly if its way forks before
  its end (`CutIfForks`).

*Event capture* (`EventCaptureProofs`):

* **Timers and signals**, for any finite number of them, any intervals, any order of calls and any size of a batch:
  `HeartbeatsKeepPhase`, `TimeoutsAreDue`, `ReportsCanBeRead`. The invariant `OsInv` relates what a machine has asked of a timer
  to its timerfd (`Agrees`: age and time left make up the interval, an expiration of a one-shot timer is unread exactly when it is due), and what is pending to
  both (`ReportsAreSound`: each channel is reported once; what was reported is there, or was taken back, or another interrupt shares the signal).
* **The engine's own test**, for any tick and timeout: it is over before its timeout only because of a signal
  (`TestKeepsItsTime`, which is `EndsInTime`). `TestInv` adds to `OsInv` that, while the test runs, its
  timeout is the one it was started with (`TimeoutRuns`), so that it is due only at that age (`Agrees`).
* **Watches**, for any files, names, limits and lengths of the queue: `WatchesInvariance`, `EventsComeInOrder`,
  `EventsLeadToNames`. The invariant says of each event in the kernel's queue what it will tell when it is read
  (`Tells`): the number of its watch is one the table has, and its entry is a name that the machine gave to the file of the event, or was
  removed by then. That the growing `read()` gives one event and not two is a fact about sums of sizes (`SizeUpTo`), proved by the least number
  of events for which it would be wrong.

*Machines* (`MachinesProofs`):

* **Channels**, for any machines, channels and number of descriptors: `KernelAgrees`
  (`KernelAlwaysAgrees`), and that `epoll_ctl()` never fails for a socket that is attached (`AttachedMaySet`).
  The four parts of the invariant hold together or not at all: a descriptor may be used again after a
  deletion only because no other channel has it, and epoll's pointers stay exact only because of that.
* **Descriptions**, for any lines and files of any length: `MadeFromWellFormed` and `MachinesMeanText`. `SmdInv` says that each list of a
  description holds what the lines of its kind say, in their order (`Collected`: the place of a line in its list is the number of
  such lines up to it), that a name stands for the first state of that name, and that the process ended only because of a line that is refused, a
  function that there is not, or an event without a column. From it: the
  last reflex of a cell is that of the last line for it. Both theorems have the hypothesis `NumbersFit`, that numbers of events are below 65536: beyond, an
  event becomes one of another type (`smd.c:172`, see below), and the properties do not hold. No such hypothesis is needed for the types
  (`DescriptionTypes`).

### What is only model-checked

* Liveness (`EveryClientIsSeenOff`, and the properties of `engine_fair`): out of reach of the prover, as is ENABLED.
* `WalkIsSorted`: the walk builds a sequence along a recursion over the tree, which is induction over data. That the edges it
  follows are sorted is proved (`TreeTypes`).

Induction over data, which the prover does not have either, was avoided in the proofs above: where a recursive function
computes something, the least number for which it would be wrong gives the contradiction
(`NatLessThanWellFounded` and `WFMin` of the library).

## Findings

1. *Expanding a wrapped ring* (`ring_wrapped`). `__expand_mb` moves the messages between
   the read index and the old end to behind the old end, and leaves a hole between them and the wrapped
   ones. The echo server does not meet it.
2. *An rx machine that is done twice* (`echo_race`). `rx_work_D0` does not set `HAVE_D0`. If the
   last data and the timeout come in one batch, the machine answers twice, and
   its second M0 ends the server in `io_enable`.
3. *Deleting from an empty pool* (`echo_run_dry`). `poolman.c:105` restarts the low water mark of a pool at its capacity
   although machines are out of it. If no machine is taken until the next tick, that mark makes the pool manager delete machines that are not there: a
   crash. With the 128 workers of the program, deleted 32 at a tick, this takes 65 to 95 clients that stay connected while no new one comes for two
   ticks, or 33 to 64 for three.
4. *Deleted data stay* (`tree_deletes`). The destructor of `utils-tests/prefix-tree/trie-test.c:31-33` is told not to clear what it frees, as
   "the node is being DELETED". `pt_del` calls it with the data of a node that it then keeps, because it has data: `pt_get` and `pt_walk` find what was freed.
   Of `pt_trim` and `pt_nuke` the comment is true.
5. *A foreign object is taken* (`pool_recycled`). `pool_put` compares an object with the slot of its number even if that number was never given out;
   the slot holds what its memory held before. No program of the repository uses this pool.

## What else the models say

Not findings, as no document promises otherwise, but worth knowing:

* The second `realloc()` of `expand_pool` (`pool.c:87`) may fail after the first has moved the stack, whose
  address is then lost (not in the model, which has the failure of the first). A pool may
  be expanded beyond `cap_max`, and an increment whose sum wraps cuts its arrays (`pool.c:77`; `NoWrap` is what callers have to see to).
* A peer that resets its connection after its own shutdown, while `tx` writes, ends the server by SIGPIPE (`tx_work_D1_breaks`).
  The model does not remember whether a reset came after a shutdown and has both outcomes for each.
* `array__setcap` takes a capacity below the number of items, and sizes in bytes wrap: a walk or an add then leaves
  the memory. `CarefulSpec` is what callers have to see to.
* When memory runs out in `__pt_add_kid`, a pointer that was never set decides whether the process ends (`pt_add_exits`). The counters of `pt_info` are not initialised.
* Event numbers of 65536 and more, or below 0, change the *type* of an event in its code (`smd.c:172`);
  `edsm__create` turns down whatever is outside the matrix, so that a machine is made only if its numbers are in range (`MadeIffWellFormed`), but one
  of 65536 and more may land in it, in another row: `MadeIffWellFormed` is checked, and proved, for numbers below.
* `IN_IGNORED` and `IN_Q_OVERFLOW` have no column in the matrix: the dispatcher then looks beyond it
  (`Watches`, `watchFate` is `crash`). More watches than the description asks for leave `Junk` in the table, which deletion frees.
* When `realloc()` of the output buffer fails (`worker.c:203`), nobody is told: the tx machine, the worker and the client
  are stuck (`DataBuffer`, phase `stuck`).
* A timer that is started or stopped while its expiration is reported, and a signal that two machines
  declare, end the process at the read that finds nothing (`message-dispatcher.c:36`, `:54`).

## Not modelled, and why

Formatting and logging; `malloc` failing where the program ends at once; signals other than those taken and SIGPIPE;
names in descriptions that are longer than the buffers of the parser (`smd.c:185-198`, `:95`, `:241-243`: 15 letters for a state, 7 for an event, 63 for the whole name of a function, where
`sscanf()` and `sprintf()` would write behind them); the watchdog timer of the pool manager (no state);
`listener_work_M1` (nobody sends it); `tx` with an empty buffer (for connecting,
used by no machine here); the client side of `tcp-sockets.c` (used by no program here). `strings.c`, `logging.c`,
`backtrace.c`, `load-tool.c` and `api.c` format, print and look up symbols, and keep
no state of the system; the second half of `list.c` is a comment. Nothing of the system is persistent, and there is one process: no crash and
restart, no lost messages other than those modelled.

## What is left

A sharper service, in which a client is seen off only if it left, fell silent or a
pool was empty.
