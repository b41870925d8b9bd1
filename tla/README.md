# A TLA+ model of rusty_tokio

rusty_tokio is a hand-written asynchronous runtime in the style of tokio: a task
state machine driven by an atomic byte, schedulers with work stealing, a blocking
pool, a timer thread, epoll and io_uring reactors, and the usual synchronisation
primitives. Nearly all of it is concurrent code whose bugs are lost wakes, double
polls and waits that nobody ends. This project models that code module by module,
checks the models with TLC, and proves the central invariants with TLAPS.

`PROJECT.json` maps every definition to its source lines. Paths below are relative
to `src/src/`.

## Inventory

| Part | State | Operations | What is hard | Model |
|---|---|---|---|---|
| task core (`task/state.rs`, `mod.rs`, `join.rs`) | state byte, future slot, completion hook, join state, `active_tasks` | spawn, run, wake, abort, await the handle | every operation is several atomic operations; wakes and aborts land between any two | `Task`, abstractly `TaskLifecycle` |
| scheduler (`runtime/worker.rs`, `runtime/mod.rs`) | local queues, injector, parked threads, shutdown flag | schedule, next_task, steal, park, block_in_place | batches moved between queues; whose local queue is pushed to; two threads of one index | `Scheduler` |
| runtime lifecycle, current-thread and per-core flavors | queues, workers, drivers and pool of each `Shared` | spawn, block_on, Drop, shutdown_timeout, shutdown_background | stages with a deadline; closures spawned during teardown | `RuntimeLifecycle` |
| blocking pool (`runtime/blocking.rs`) | job queue, thread count | spawn, worker loop, drain | idle timeout against spawn at the cap | `BlockingPool` |
| timers (`time/mod.rs`, `clock.rs`) | heap, clock, driver thread | register, cancel, fire, pause, advance | shutdown against wait; clock taken back under a fired Sleep; missed ticks | `Timer`, `Interval` |
| context, ids, task locals, coop budget | thread-locals | enter, scope, poll, poll_proceed | nested calls left by a panic | `Ambient` |
| LocalSet, JoinSet | queue and owner; handles | run_until, join_next, abort, drop | wakes and drops from other threads | `LocalSet`, `JoinSet` |
| Mutex, RwLock, Semaphore | flags, counts, queues | acquire, release, downgrade, merge, close | release wakes and does not grant; grants ahead of the poll; dropped futures | `AsyncMutex`, `RwLock`, `Semaphore` |
| Notify | permit, waiters | notify_one, notify_last, notify_waiters, poll, enable | notification between look, registration and store of the waker | `Notify` |
| OnceCell, SetOnce, Barrier | cell state, generation, waiters | get_or_init, set, wait | initialiser cancelled while others wait | `OnceCell`, `SetOnce`, `Barrier` |
| channels (`sync/mpsc.rs`, `oneshot.rs`, `watch.rs`, `broadcast.rs`) | buffers, counts, versions, wakers | send, reserve, recv, clone, drop | last end dropped during a wait; lag; reservations; wakes spent on dropped futures | `Mpsc`, `Oneshot`, `Watch`, `Broadcast` |
| reactors (`io/reactor/*`) | readiness, one waker per direction, kernel polls | register, poll_io, event loop, deregister | clearing an edge that has just arrived; one-shot polls and reused descriptor numbers | `Reactor`, `UringReactor`, `AfdReactor` |
| sockets, AsyncFd, pipes | descriptor numbers and owners | create, connect, accept, split, reunite, into_std, drop | error paths between open and registration | `Sockets` |
| in-memory pipes, copy_bidirectional | bounded buffers, wakers | read, write, shutdown, drop | end of stream while the peer waits; half-closed relays | `DuplexPipe`, `Pipes`, `Relay` |
| buffered adaptors and copy loops | buffers, positions | fill, flush, copy, read_line | partial writes, errors and dropped calls | `Buffered` |
| files, directories, stdio | Idle, Busy, Poisoned | read, write, seek, next_entry | a dropped call's operation goes on | `BlockingFile` |
| io_uring files and simulated disk | slab, rings, buffers; file contents | submit, poll, close, crash | a future dropped under the kernel's write | `UringFs`, `SimDisk` |
| child processes, signals | handle, pipes; self-pipe, listeners | wait, kill, output; recv | cancelled wait; a signal between look and registration | `ChildProcess`, `Signals` |
| metrics, ids, builder, name resolution, interests, macros, attributes | | | counters that are only read, conversions, compile-time code | not modelled |

The parts meet in a few places. Everything that waits leaves a `Waker`, which is an
`Arc<Task>`; waking it runs `State::wake` and perhaps `Task::schedule`, which puts the
task on a queue that a worker pops and runs. So the task core is the contract the
rest stands on: a wake is followed by a poll, and a task is polled by one thread at a
time. The primitives owe their waiters one wake when they become ready.

## Task: the core

`Task.tla` takes one step per atomic operation of `task/state.rs` or critical section
of `task/mod.rs` and `task/join.rs`. Workers dequeue a task and go through `Task::run`;
other threads call `wake()` or `abort()` between any two steps. The state byte is the
set of its bits. The run queues are abstracted to the number of references they hold,
and the boxed future to what a poll may do: store its waker, return Ready, return
Pending, panic. A `compare_exchange` is a load step and an exchange step that compares
with the byte loaded. `begin_poll` exchanges once and panics the thread when that
fails (label `dead`); `end_poll(false)` and `wake` retry. `end_poll(true)` is two
read-modify-writes and two steps. `Alive` is the `Weak::upgrade` of the abort thunk:
a suspended task lives in its wakers alone.

`owed` and `abortReq` are history variables. `ForgetWakers` says whether a waker may
be dropped unused.

## TaskLifecycle: what the rest may rely on

`TaskLifecycle.tla` is the life of a task in six phases: fresh, queued, running, rerun
(woken while running), idle, done. `Task` implements it (`Phase` reads the phase off the
byte and the progress of `spawn`), and so does `Scheduler`, whose tasks are nothing but
a phase. A wake of a queued or finished task is a stutter.

## Scheduler: the worker pool

`Scheduler.tla` has a thread per OS thread: the first workers, and the replacements that
`block_in_place` starts. A thread goes through `worker::run` and `Shared::next_task` one
queue operation at a time: own queue, injector, each sibling in turn, park. A batch
steal pops the head and moves any number of the tasks behind it, since crossbeam decides
how many. While it polls, a task may spawn or wake any task, block in place, and return
Ready or Pending. `stealers` keeps pointing at the queues of the first threads, as in
the code, so the queue of a replacement is nobody's to steal from. `Shared::park` waits
at most 50 ms; a parked thread may go on at any time, which covers every notification of
`park_condvar` and its absence. `parity` is `park_unpark_counts` modulo 2.

`ScheduleGuest`, a thread inside `block_on` of a current-thread runtime, is part of
`GuestSpec` only. A worker of another multi-threaded runtime has a local queue and would
put the task there; that composition is not modelled, nor is the death of a worker in
`begin_poll` (disagreement 1), which `Task` has.

## Locks: Mutex, RwLock, Semaphore

One step per critical section of the inner `std::sync::Mutex`. The wakes that follow
the unlock belong to the step: a woken task may be polled at any later time, and a
future may be polled unwoken or dropped at any time, so splitting them adds no
behaviour the properties can see. A future dropped while it waits leaves its waker in
the queue, as in the code. Mapped and owned guards differ from the plain ones only in
what they point to and share their actions.

The history flag `disturbed` (Mutex, RwLock) records that a waiting future was dropped
or polled unwoken, `dropped` (Semaphore) that a queued or granted future was. The
hand-off properties and the exact half of `Conserved` are stated for executions in
which the flag is off. Without that condition TLC refutes them for Mutex and Semaphore:
a wake is spent on a future that is gone, or granted permits are lost with it (the
RwLock's fails even with it, see below). The exclusion properties and the bound on
permits hold regardless.

## OnceCell, SetOnce, Barrier

The value of a cell is written outside the lock and wakers are called after the unlock,
so each of these is a step. An initialiser may fail, panic or be dropped at its await;
`ResetGuard::drop` is then the step that lets another one in.

## Channels: Oneshot, Watch, Broadcast, Mpsc

Again one step per critical section with its wakes. A `recv`, `changed`, `send` or
`reserve` future is polled by one task, at any time, woken or not, and may be dropped
while it waits; its waker stays where the code leaves it. Handles are cloned, upgraded
and dropped at any time.

`Oneshot` keeps `State`; the Drop that runs when `send` consumes the sender is a step of
its own. `Watch` abstracts the value to its version. Both `Watch` and `Broadcast` take
all wakers at once, so a set stands for the vector. `Broadcast` keeps the ring and, as
history, the log of everything sent: what a receiver got and what `Lagged` told it it
missed are measured against that log. `Mpsc` counts the permits each sender task holds;
`Permit`, `OwnedPermit` and `PermitIterator` differ in how they are dropped and share
`FillReserved` and `ReleaseReserved`. With `Unbounded` the capacity test, reservations
and waiting senders are gone, which is what `unbounded_channel` is.

The history flag `disturbed` of `Mpsc` plays the part it has in the locks; it is also
set by a `reserve_many` of several slots, which is woken for the first of them.

A receiver whose task has used up its budget (`coop::poll_proceed`) wakes itself and
returns Pending. The task stays awake and nothing else changes, so this is no step of
these models; the budget itself is a variable of `Ambient`.

## Notify

A `WaiterState` is shared outside the lock of the queue, so `Notify` takes a step per
atomic operation: a poll is `Poll`, `CheckWoken`, `Register`, `StoreWaker`, `Recheck`,
and `fire` is `FireStore`, `FireWake`, with any number of other steps between.
`notify_waiters` takes the whole queue and fires it one future after the other. The history
variable `given` says by which kind of call a future was notified, so that `Banked` can
follow each notification from the call to the future it was spent on.

## What a task runs under: Ambient, LocalSet, JoinSet

`Ambient` is one thread: the runtime it is in, the id of the task it polls, a `task_local!`
key and the budget. Every call that replaces one of them pushes what it found and what it
set; it returns, or a panic unwinds through it, in which case only what a guard restores
comes back (`RestoresInPanic`). `LocalSet` uses the state byte of `Task`, an operation on
it being one step; other threads wake, abort and drop its tasks, any thread may drop the set
itself, and `LocalRuntime` drains the same queue. `FutureStaysHome` says which futures may
end on a foreign thread: those whose set was dropped there, or that lived in a waker alone. `JoinSet` abstracts a member to its `JoinInner`; a turn of the loop over
the handles is a step, so members finish between turns.

## The runtime's own threads: Timer, Interval, BlockingPool, RuntimeLifecycle

`Timer` has the driver thread, `Sleep` and `Timeout` futures, the clock and the caller of
`shutdown`. The driver reads its flag, takes the lock and looks (`dpc = "decide"`), then
waits or fires; `advance` and `resume` take the clock's lock and notify. Real time moves by
`Tick`; a wait may end at any time at or after its deadline. `Waits` and `Released` tell a
heap entry the driver will still fire from one it has left behind at its exit, and a waker
that arrives after the exit must be called at once. The flag `disturbed` says that
`resume` took the clock back behind a deadline that had fired. `Interval` keeps the
scheduled instant and the deadline of the Sleep inside.

`BlockingPool` takes a step per critical section and one for each thing done outside the
lock: the notify, the growth of the pool, the thread count, the flag. A thread that leaves
gives its name back to the threads to come. `stranded` is set in one place: a spawn at the
cap which finds every counted thread on its way out.

`RuntimeLifecycle` composes the parts where they meet: task queues, workers, drivers and
pool of each `Shared`, for the three flavors, from build to the end of `Drop`,
`shutdown_timeout` or `shutdown_background`, whose deadline may pass in any stage. Threads
include the replacements that `block_in_place` starts (`Spares`), which nobody joins, and
closures are spawned by tasks and from outside, before, during and after the shutdown.

## Readiness: Reactor, UringReactor, AfdReactor, Sockets

`Reactor` is one descriptor number in one direction: the kernel's event, the loop that
looks up the `ScheduledIo`, sets its flag and calls its waker, and readers inside
`poll_io`, one atomic operation per step. An epoll event is reported once per arrival, a
kqueue event as long as it holds. Two flags name what the code gives away: `overrun`, an
arrival between WouldBlock and `clear`, and `displaced`, a reader whose waker slot another
one took.

`UringReactor` has the queue of pending operations, the submission queue with its bound,
the kernel's one-shot polls, that of the wake descriptor among them, and completions, which
carry a number that may by now belong to a later file; a submission may fail or be
interrupted, and `lost` holds the pushes that found no room even after it. `AfdReactor` has
the poll requests the Windows kernel holds a reference for, refused ones, and cancels that
fail or find nothing (`cancel`).
The kernel's side of all three is modelled from how the code uses it and marked external.

`Sockets` is the life of descriptor numbers: a number names a socket, `dup` gives a second,
`close` frees it for reuse; the epoll entry is keyed by number and socket, the registry by
number alone. The constructors, those that adopt a descriptor of other code included, their
error paths, connect over several addresses, split, reunite, `into_std` and drop are
actions. `adopted` marks descriptors that were registered while still blocking. They are those of the TCP types; the UDP, Unix
and pipe types take the same steps.

## Bytes: DuplexPipe, Pipes, Relay, Buffered

`DuplexPipe` gives each `poll_*` call and destructor as a function of the pipe; `Pipes` puts
tasks on both ends of a duplex or simplex pair, split or not. `Relay` is
`copy_bidirectional`: one step per `poll_*` call, the far ends moving in between.
`Buffered` puts two chained readers under a `Take` and a `BufReader`, a sink under a
`BufWriter`, and lets a task run `copy`, `copy_buf` or `next_line` over them. Source and
sink answer each poll as they like. Bytes are numbered, so a lost, repeated or displaced
one shows; `lost` and `repeated` account for what a dropped call takes with it.

## Services: BlockingFile, UringFs, SimDisk, ChildProcess, Signals

`BlockingFile` is the machine that File, ReadDir and the standard streams share: one closure
on the pool at a time, which outlives a dropped call. Buffers have a length, so that a
leftover result may be too long for the call that finds it, and another handle contends for
the mutex of a standard stream. `UringFs` follows an operation from
the future through the driver's queue, slab and ring to the kernel and back, with other
code reusing closed numbers. `SimDisk` has the contents as cells numbered by the write that
put them there, every injected fault and the crash. `ChildProcess` keeps the pair `inner`,
`status` beside what really became of the process. `Signals` has the handler, the pipe and
its bound, the reader task, `dispatch` and the listeners, on Unix and on Windows.

## Runs

Parts that share no state are checked in one run: `MCSync`, `MCRuntime` and `MCIo` hold an
instance of each of their modules over common variables `x1`, `x2`, ..., and a behaviour
is one of the instance that `part` names. A property of such a module is the conjunction,
over its parts, of what each module states.

| Run | Instance | Shows |
|---|---|---|
| `task_safety` | one task, two workers, two wakers, one aborter, wakers may be dropped | `TypeOK`; `QueuedOnce`: one queue entry or one thread stands for the QUEUED bit; `RunExclusive`: one poller, which finds the future; `ActiveExact`; `JoinerWoken`; `JoinResultStable`; `AbortStopsPolling`; `ImplementsLifecycle` |
| `task_live` | one task, two workers, one waker, one aborter, wakers not dropped unused | `NoLostWake`, `AbortHonoured` |
| `scheduler` | two workers, one thread for a replacement, two tasks | `ConservedTasks`: no task lost or duplicated between queues and pollers; `OneServerPerIndex`; `NoneAbandoned`; `ParkParity`; `ImplementsLifecycle`; `LocalQueueServed` and `InjectorServed` under fairness |
| `sync` | three tasks or futures, queues of 4, 3 permits; two notifiers; two receivers, three senders, capacity 2; two local tasks and threads, three JoinSet members; two runtimes, calls nested 4 deep | exclusion (`LocksExclusive`), `MutexHandOff`, `SemaphoreConserved`, `NotifyBanked`, `NotifyWakes`, `RendezvousExact`, `RendezvousAwake`, `OneshotDelivers`, `WatchNoMissedChange`, `BroadcastAccounts`, `MpscBounded`, `ChannelsAwake`, `LocalTasksServed`, `AmbientRestored` |
| `runtime` | a Sleep and a Timeout, or one Sleep on a pausable clock; an Interval over three periods; three jobs and a cap of two threads; two tasks on each flavor | `TimersServed`: a pending Sleep has a wake on its way, the driver never waits past the earliest deadline, ticks keep their schedule; `PoolAccounts`; `ShutdownOrderly`: a task stays with its `Shared`, a shutdown that returned left no thread but those nobody joins; `RuntimeLive` |
| `io` | two readers or sockets, three descriptors or operations, buffers of one or two | `ReadinessDelivered`, `PollsOutstanding`, `BytesFaithful`, `FileOpsSound`, `ServicesAnswer` |
| `task_begin_cas`, `scheduler_foreign`, `rwlock_handoff`, `mpsc_send_wait`, `tcp_connect`, `child_wait` (violations) | the module alone, the smallest instance that shows it | see the disagreements below |

**Bounds.** Tasks do not share state in `Task` except `active`, so one task meets every
race on its byte; two workers are needed for a double poll, two wakers for two wakes in
flight at once. Two tasks over two workers give a batch of two, a steal and a yield beside a
waiting task; the one spare thread lets either worker be replaced. That a replacement may
itself be replaced is left to the proofs, which hold for any number of threads.

In `sync`, three tasks are the fewest that show a holder, a woken waiter and a sleeping one;
a queue of four leaves room for repeated registrations. Four messages through a ring of two
make a receiver lag by one and by two and go on reading; three senders over two slots leave
a holder of permits, a woken sender and a sleeping one, and two places in `send_waiters` a
stale waker before a live one. A barrier of two among three tasks lets a third arrive in the
next round. Four nested calls hold a task poll inside block_on with a scope and an
unconstrained section inside the task.

In `runtime`, the Timeout waits longer than the bare Sleep, so a registration comes earlier
than the deadline the driver waits for; on the pausable clock a delay of one meets advances
of one and two, so an advance reaches the deadline or passes it, and a second registration
follows the first. One spare thread lets a worker of the lifecycle be replaced before or
during the shutdown. Three jobs against a cap of two queue
behind busy threads, and three thread names are all that can exist at a time: two counted
and one that has given up its count and not yet ended. Ten instants are three periods.

In `io`, the second reader takes the waker slot of the first, the second generation of a
descriptor number meets events of the first, a submission queue of one entry is full after
every push, three file operations over one number have one dropped, one queued and one on a
reused number; a pipe of capacity one fills at every write, a relay buffer of two is smaller
than the three bytes sent; five bytes over a source of two and three cross the chain, the
limit and both buffers. Three calls with buffers of up to two bytes leave a long result to a
short buffer, and a directory of three entries is read in a full and a short batch.

At the bound of a queue, counter or clock a further step is disabled, and futures, calls and
processes come to an end, so a state without a step is no flaw: these runs do not check
deadlock. Nor do the task runs, because a finished task really stops, nor `scheduler`: after
a shutdown with every task done nothing is left to do.

**Fairness.** In `task_live` a thread inside run, wake or abort keeps
executing, every poll returns, and a queued task is eventually popped; the last is
strong fairness because another worker may take its place. Nobody is obliged to call
wake or abort.

`scheduler` looks at what the queues give. Its own fairness is weak: a worker thread
keeps executing and every poll returns; the closure of `block_in_place` need not. Then a
task in a local queue is polled in the end, however often others yield
(`LocalQueueServed`, which is the FIFO order of the queues), unless a closure blocks in
place, the runtime is shut down or a retiring thread moves it to the injector. A task in
the injector is taken as long as some worker finds its own queue empty again and again
(`InjectorServed`). That condition is real: a worker looks at the injector only when
its own queue is empty, so tasks that yield for ever on every worker keep the injector
waiting (`tests/runtime.rs:160-167` says as much). The strong fairness of `task_live`
therefore stands for programs whose workers' own queues run empty from time to time.

`runtime`: the driver thread, the pool threads, the workers and whoever is inside spawn,
`shutdown` or `Drop` keep executing; a closure on the pool and the last poll of a task end,
since `Drop` waits for them without a bound; a deadline passes. Time goes on and a woken
Sleep is polled under strong fairness, because a pause of the clock or the driver's lock
may disable either for a while. Nobody has to pause, advance, spawn or shut down. A
behaviour is of one part, so `MCRuntime` states fairness of a disjunction over the parts,
which is fairness of the part's own action. A Sleep need not
resolve while the clock is paused, after a shutdown or once the clock was taken back.

## Disagreements with the repository's own text

Six are runs of their own, each ending in a state that the quoted line excludes.

1. `task_begin_cas`. `begin_poll` loads the byte and exchanges it once, on the ground
   that only the dequeuing thread can make the transition (`task/state.rs:38-43`).
   `request_abort` ORs ABORTED in at any time; between the two the exchange fails,
   `expect` panics outside `catch_unwind`, and the worker ends.
2. `rwlock_handoff`. "The writer gets its turn one release later"
   (`sync/rwlock.rs:75`). A reader woken by a write release finds the writer queued
   behind it and queues again; no guard is taken, so no release follows.
3. `mpsc_send_wait`. "`send().await` suspends the sending task while the buffer is
   full" (`sync/mpsc.rs:1-2`). A dropped send or reserve future, as `send_timeout`
   leaves at every timeout, keeps its waker at the front of `send_waiters`; the wake
   of the next `recv` goes there, and a live sender sleeps on an empty channel.
4. `scheduler_foreign`. `push_local` relies on a local queue that "is guaranteed to
   already be populated" because `schedule` has checked the worker index
   (`runtime/worker.rs:36-39`). `block_on` of a current-thread runtime sets the index and
   installs no queue, so a spawn on, or a wake into, a multi-threaded runtime from there
   panics, and the task stays marked QUEUED in no queue.
5. `tcp_connect`. "the socket becoming writable is the signal to check whether it actually
   succeeded" (`io/tcp.rs:337-339`). A fresh `ScheduledIo` counts as writable, so the check
   runs in the first poll and finds no error yet; `connect` returns Ok on a socket that may
   be refused later, and the next address is not tried.
6. `child_wait`. "try_wait/wait always keep these two in sync" (`process/mod.rs:341-342`). A
   `wait` that is dropped or fails has moved `inner` into its closure and stored no
   `status`; the next `wait` panics, `kill` and `kill_on_drop` do nothing.

The others are the exceptions the properties name. The model takes the step the code takes;
the property says what holds apart from it.

- A suspended task lives in its wakers alone. When the last is dropped its hook goes unfired
  and the handle stays pending, although `abort` promises a cancelled result
  (`task/join.rs:168-172`). `task_live` has `ForgetWakers = FALSE`, and `WorkerDied` for (1).
- `block_in_place` "hands the calling thread's other queued work off [...] *before* running
  `f`" (`task/block_in_place.rs:15-17`); the replacement starts with an empty queue and the
  old one is drained after `f`, so with one worker its tasks wait for `f`.
- The blocking pool promises a thread per queued job up to the cap (`runtime/blocking.rs:1`);
  a spawn at the cap that meets only threads past their idle timeout starts none
  (`stranded`).
- `Drop` of a Runtime "joins every background thread" (`runtime/mod.rs:991`). It waits for
  the pool before it joins the workers, so a task in its last poll, or a Handle outside, may
  leave a closure running (`spawnedLate`); and the JoinHandle of a thread started by
  `block_in_place` is dropped (`runtime/worker.rs:162-167`, `192-194`), so such a thread may
  still be in a poll when `Drop` returns. `ShutdownComplete` names both.
- Notify: `notify_one` wakes a waiter or banks a permit (`sync/notify.rs:25-27`, `87-88`).
  `Notified` has no Drop: a notification spent on a future that was dropped, before or after,
  is lost. The last conjunct of `Banked` names it.
- LocalSet: its futures are "never actually accessed except on that one thread"
  (`task/local.rs:15-17`, `76-86`).
  A set may be dropped by any thread (`374-378`), and a suspended task by the thread that
  drops its last waker; both drop the future there. `FutureStaysHome` names both.
- A Sleep registered before the timer driver's shutdown stays pending for ever; one
  registered after it is woken at once.
- `shutdown_notified` "resolves once `begin_graceful_shutdown` has been called"
  (`runtime/mod.rs:346`); it looks at the flag once and registers afterwards, and
  `notify_waiters` banks nothing. Not modelled: read off the code.
- `resume` may take the clock back behind a deadline that has fired; a Sleep not polled by
  then updates a waker whose heap entry is gone (`disturbed`).
- `reactor/mod.rs:3-7` speaks of level-triggered readiness; epoll registers with EPOLLET
  (`reactor/epoll.rs:162`), so an arrival between WouldBlock and `clear` is not reported
  again (`overrun`). Two readers of one socket share a waker slot (`displaced`).
- io_uring reactor: when a full submission queue cannot be flushed, the second push is lost
  without a word (`reactor/io_uring.rs:272-275`) and its socket, or the wake descriptor, is
  watched no more; the thread ends on an error of `io_uring_enter` (`140`). `RegisteredWatched`
  and `LoopHears` name them.
- An AFD poll that cannot be submitted leaves its socket unwatched (`quiet`) and `pending` on
  (`reactor/windows.rs:538`), so that `deregister` cancels what the kernel does not have,
  against the comment at `598-601`; the result of the cancel is ignored. `KernelReferences`
  names the cancel that finds nothing and the one that fails.
- `TcpSocket::from_std_stream` leaves "those steps", among them making the socket
  non-blocking, to `connect` or `listen` (`io/tcp.rs:1080-1083`); neither does it, so a
  blocking descriptor is registered (`adopted`).
- A connect that fails or is dropped closes a registered number without deregistering it
  (`leftover`).
- io_uring files: an operation cancelled while queued may run on a reused number; a second
  failure of the submission queue loses an operation; the driver loop ends on a submit
  error; a dropped open leaks its descriptor. `SimDriver`'s crash keeps bytes written over
  the durable prefix and the capacity set by `set_disk_full_at`, although fault-injection
  settings "are *not* inherited" (`io/uring_fs.rs:879-880`), and a read past the end panics and poisons
  its lock. `UringFile::set_len` on a real file is an ftruncate on the blocking pool with the
  bare number (`624-646`): dropped at its await, it may truncate a file opened later under
  that number. It is not modelled.
- `File`: a leftover result of the same class answers a later call; `State::Busy`'s doc
  (`fs/mod.rs:61-71`) says that what does not match is discarded, and the class is what is
  compared. So a write may report a length that is not its own, and a read that finds a
  leftover longer than its buffer panics (`fs/mod.rs:398`, `io/stdio.rs:107`).
- Standard streams: "no two concurrent logical writes" interleave and each `poll_write`
  "already writes the whole buffer" (`io/stdio.rs:19-30`, `142-144`). A leftover write answers
  a later call, whose buffer is then never written; it holds the stream's mutex until it is
  polled again, which keeps every other handle waiting; and a handle dropped with a write in
  flight releases the mutex while the closure still runs.
- Signals: the comment that the pipe never fills (`signal.rs:195`) is not enforced; a byte
  that does not fit is dropped. When the runtime that set up the reader stops, nothing is
  delivered any more; when the setup fails, its error is kept for the life of the process.
- `copy_buf` dropped between writing and consuming repeats what it wrote (`repeated`).

## Proofs

All of them hold for every value of the constants. The assumptions are
`ThreadsAssumption` of `Task` (workers are distinct from the other threads, `NoTask` is no
task), `SchedulerAssumption` of `Scheduler` (at least one worker, a different first thread
for each, `NoTask` is no task), `SizesAssumption` of `MCSync` (sizes are naturals, a
channel's capacity is positive as its constructor asserts, and the first handle is one of
the handles), and in `UringFsProofs` that the names of "no file" and of other code's files
are no operation's (`NamesDiffer`). No set is assumed finite: where something is counted,
the invariant says that what is counted is finite.

**TaskProofs.** `QueuedOnce` and `RunExclusive` are not inductive. `IInv` adds
`CallShape` (a thread has a task exactly while it is in a call, and only workers are
inside run), `ByteShape` (QUEUED excludes RUNNING and COMPLETE; a byte with neither
RUNNING nor COMPLETE has its future in the slot), `RunShape` (what a running worker's
program counter says of the byte) and `OneRunner`. The argument turns on the QUEUED
bit as a token: the exchange that turns it on makes one thread the holder, the holder
pushes one reference, the pop hands it to one worker, and `begin_poll` exchanges it for
RUNNING, which stops every later wake from turning QUEUED on until `end_poll`. A failed
exchange leaves the token with the dead worker. There is one lemma per kind of step
(`Frame`, `WorkerMove`, `WorkerEnds`, `WakeCasStep`, `ScheduleStep`), then the actions.
Theorems: `Inductive`, `TypeCorrect`, `QueuedOnceHolds`, `RunExclusiveHolds`,
`BeginPollAssertionHolds`.

**TaskLife.** How a task ends, on top of `IInv`. `LInv` adds `LifeShape`: a worker in a run
is the only one in a run of that task and its place says whether the result is stored and
whether the hook is left (`Owners`, `Placed`), a task with a result or without a hook is
never queued again (`Over`), and a joiner asleep on an unfinished task has its waker in the
`JoinInner` (`Waits`). `Counted` compares `active_tasks` with the set of unfinished tasks,
which each step leaves alone or changes by one task. Theorems: `ActiveExactHolds`,
`JoinerWokenHolds`, the action properties `JoinResultStableHolds` and
`AbortStopsPollingHolds`, and the refinement `ByteImplementsLifecycle`: every step of every
thread is a step of the life of one task or a stutter. Only the three exchanges, the OR
that sets COMPLETE and the push of `spawn` move a phase, and the invariant says which phase
each of them finds.

**SchedulerProofs.** For any numbers of workers, threads and tasks and any size of batch.
`IInv` is `TypeOK`, `Shape` (what a program counter says of the thread's index, task and
flags), `QueuesConserve` and `PollersConserve` (the two halves of `ConservedTasks`, apart
because no step but the start and the end of a poll touches both), `OneServerPerIndex`,
`NoneAbandoned` and `ParkParity`. The lemmas about sequences say what a push, a pop and
a cut into head, batch and rest do to membership and to the absence of duplicates; each
action is then one kind of queue step and one kind of poller step. `ParkParity` needs
`OneServerPerIndex`: a retired thread never parks again, so at most one thread of an
index does. Theorems: `TasksConserved`, `WorkersReplaced`, `RetiringDrains`,
`ParityExact`, and `PoolImplementsLifecycle`.

**LockProofs.** Semaphore, Mutex, RwLock and Notify, each with its own invariant.
- `SemInv`: a live waiter is its task's only one and asks for what the pending future wants
  (`SemQueue`), a task with a future holds nothing, and free, held and granted permits add
  up to the supply (`SemSum`; they stay below it once a future was dropped). Sums are
  cardinalities of sets with one element per permit (`Units`), so that a transfer is a
  union and a difference. A release pops a prefix of the queue, and `HeadBlocked` is what
  makes the prefix the longest that fits.
- `MutexInv`: while undisturbed, the queue holds exactly the sleeping tasks, each once
  (`MutexQueue`), and a free mutex with a non-empty queue has an awake waiter
  (`MutexAwake`).
- `RwInv` relates the reader count to the cardinality of the set of read guards and says
  nothing of the queue but its type: exclusion does not depend on who is woken.
- `NtInv` says that a future stands in the queue or in a notifier's hands at most once and
  until it is given a notification (`QueuedOnce`, `GivenShape`), so that the futures given
  one by `notify_one` can be counted (`SpentOnce`); it adds `StoredShape` (a notifier between the halves of `fire` still holds the
  future whose flag it set), `Findable` (a registered future that was not notified is
  queued or in a notifier's hands) and `PollShape` (a parked future has its waker stored or
  is awake, and if it was notified and is not awake, is in a notifier's hands). The flag is
  set before the waker is taken and the waker is stored before the flag is read again, so
  one of the two sides sees the other.

**MpscProofs.** `MpInv`: `reserved` counts the permits and `senders_alive` the senders
(`MpCount`), what was sent is what was received and what is queued (`MpFlow`), and, as long
as nothing disturbed the order, the queue of wakers holds exactly the sleeping senders and
there are no more free slots than woken senders on their way to them (`MpWaits`). That last
inequality is what `SenderAwakeUndisturbed` needs and no single state shows: each freed
slot wakes one sender, and only the sender it woke takes it off the count.

**RendezvousProofs.** Broadcast, JoinSet, OnceCell, SetOnce, Barrier, oneshot and watch.
- Broadcast: the ring is the end of the log, as long as fits (`CastRing`); start, messages
  read and messages missed add up to the position of a receiver (`CastRead`); a sleeper
  has read everything and is among the waiters (`CastSleep`).
- JoinSet: every spawned task of a set that exists has a handle or was returned, never both
  or twice (`JsOnce`), and a poll that goes on has left its waker in every handle it passed
  or has been woken (`JsWaits`).
- OnceCell and SetOnce: `CellType` and, for OnceCell, `OnceWriter` (the state says whether
  somebody writes, and at most one does); with `NobodyForgotten` they are inductive.
- Barrier, oneshot and watch: the property with the types and, for oneshot, what the slot
  says of the sender; for watch, that a registered receiver's waker is stored or it is
  awake.

**SyncProofs.** The properties of the run `sync`, for every value of its constants. A
behaviour of `MCSync` is one of the component that `part` names (`StepAlone`), so `SyncInv`,
the component's invariant, is inductive, and each property of the run but the two named
below follows from it. `MCSync` takes the components from the modules of their proofs:
the formulas proved are those TLC checks.

**UringFsProofs.** `CancellationSafe`: `BuffersKept`, for any sets of operations and
descriptors and any size of the ring. That the buffer stays in the `OpState` follows from
`StageShape` (an operation in flight is in the slab and its future has not finished). That
the kernel, which looks a number up when the entry is submitted, finds the file the caller
meant needs the rest of `IInv`: `Queues` (an entry stands in one queue, once), `FilesOpen`
and `NumberKept`, the argument from ownership. An awaited operation borrows its
`UringFile`, so no `close` and no `Drop` can start under it; a close owns the file, so it is
the only one under its number; and a number an open was given stays its own until its
caller has the `UringFile`. Nobody else frees a number in use, so it cannot be given out
again. Every step is a change of one `OpState` (`Moves`), of the queues, or of a
descriptor no operation uses.

**Only model-checked.** The liveness properties, which are beyond the prover;
`LocalTasksServed` (its half about JoinSet is proved as `JoinSetSafe`) and
`AmbientRestored`, everything `MCRuntime` checks, and of `MCIo` everything but
`BuffersKept`. The counterexample runs stay with TLC.

## Not modelled

- `begin_graceful_shutdown` and `shutdown_notified`: the advisory flag in front of a Notify.
- A task of one multi-threaded runtime woken from a worker of another: it lands in the
  waking thread's queue. `Scheduler` has one pool.
- Socket options, address conversion and name resolution; the UDP, Unix and pipe types
  beyond what they share with TCP; `BufStream`, seeks and the fixed-width integer helpers of
  the buffered adaptors; the one-shot functions of `fs`, one `spawn_blocking` call each.
- Metrics, task ids as numbers, the task builder and tracing spans, `Interest`, the compat
  adaptors: values without protocol state.
- `select!`, `join!` and the attributes: compile-time rewriting.
- Weak memory: steps are sequentially consistent. Poisoned std mutexes (but for
  `SimDriver`'s) and allocation failure. A task that outlives its runtime, whose `Weak`
  reference to it then fails to upgrade.
