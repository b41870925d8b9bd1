-------------------------- MODULE RuntimeLifecycle ---------------------------
(***************************************************************************)
(* A Runtime from build to shutdown (runtime/mod.rs, current_thread.rs,    *)
(* thread_per_core.rs), composed of its parts at the level they meet: task *)
(* queues, worker threads, the blocking pool and the reactor and timer     *)
(* threads of each Shared.  Queues keep no order, parks are bounded and    *)
(* left out, and the steps inside a task or a pool are those of modules    *)
(* Task, Scheduler and BlockingPool.                                       *)
(***************************************************************************)
EXTENDS Naturals, FiniteSets

CONSTANTS
    Tasks,      \* tasks that may be spawned
    Cores,      \* 0..n-1, the Shareds of a thread-per-core runtime
    Workers,    \* worker threads of a multi-threaded runtime
    Spares,     \* threads that block_in_place may start in a worker's place
    Caller,     \* the thread that calls block_on
    NoTask

VARIABLES
    flavor,     \* of the Builder: "multi", "current", "percore"
    place,      \* of each task: "no", "queued", "running", "idle", "done"
    home,       \* the Shared each task belongs to
    next,       \* Runtime::spawn's cursor
    worker,     \* of each thread that runs tasks: "none", "loop", "take", "run", "exit"
    job,        \* the task it runs
    shutdown,   \* the hard flag of each Shared
    drivers,    \* its reactor and timer threads run
    retired,    \* RETIRED of each thread
    blocking,   \* wrapper tasks whose spawn_blocking closure still has its pool thread
    teardown,   \* the shutdown call: where it is
    how,        \* which one: "none", "drop", "timeout", "background"
    core,       \* the Shared its loop is at
    late,       \* the deadline of shutdown_timeout has passed
    tornDown,   \* torn_down
    spawnedLate \* history: closures handed to a pool after it was waited for

vars == <<flavor, place, home, next, worker, job, shutdown, drivers, retired, blocking,
          teardown, how, core, late, tornDown, spawnedLate>>
run == <<place, home, worker, job>>
down == <<teardown, how, core, late, tornDown>>

Shareds == IF flavor = "percore" THEN Cores ELSE {0}
Threads == CASE flavor = "percore" -> Cores
             [] flavor = "multi" -> Workers \cup Spares
             [] flavor = "current" -> {Caller}
SharedOf(w) == IF flavor = "percore" THEN w ELSE 0
Pool(c) == {t \in blocking : home[t] = c}
Active(c) == {t \in Tasks : place[t] \in {"queued", "running", "idle"} /\ home[t] = c}

\* Builder::build: build_single or build_thread_per_core; workers only where the
\* flavour has them.
Init ==
    /\ flavor \in {"multi", "current", "percore"}
    /\ place = [t \in Tasks |-> "no"] /\ home = [t \in Tasks |-> 0] /\ next = 0
    /\ worker = [w \in Threads |-> IF flavor = "current" THEN "out"
                                   ELSE IF w \in Spares THEN "none" ELSE "loop"]
    /\ job = [w \in Threads |-> NoTask]
    /\ shutdown = [c \in Shareds |-> FALSE] /\ drivers = [c \in Shareds |-> TRUE]
    /\ retired = {} /\ blocking = {}
    /\ teardown = "up" /\ how = "none" /\ core = 0 /\ late = FALSE /\ tornDown = FALSE
    /\ spawnedLate = FALSE

------------------------------------------------------------------------------
(* Spawning *)

Put(t, c) ==
    /\ place[t] = "no"
    /\ place' = [place EXCEPT ![t] = "queued"]
    /\ home' = [home EXCEPT ![t] = c]

\* Runtime::spawn: round-robin over the cores, if there are any.
Spawn(t) ==
    /\ teardown = "up"
    /\ Put(t, next % Cardinality(Shareds))
    /\ next' = IF flavor = "percore" THEN (next + 1) % Cardinality(Cores) ELSE next
    /\ UNCHANGED <<flavor, worker, job, shutdown, drivers, retired, blocking, down, spawnedLate>>

\* crate::spawn inside a task: the Shared that is ambient on the thread.  The same
\* from outside the pool through a Handle or core_handle, at any time.
SpawnOn(t, c) ==
    /\ Put(t, c)
    /\ UNCHANGED <<flavor, next, worker, job, shutdown, drivers, retired, blocking, down,
                   spawnedLate>>

SpawnInside(t, w) == worker[w] = "run" /\ SpawnOn(t, SharedOf(w))

\* Handle::spawn_blocking, from a task or from outside, at any time: a pool thread
\* for the closure, and a wrapper task that waits for it.
SpawnBlocking(t, c) ==
    /\ Put(t, c)
    /\ blocking' = blocking \cup {t}
    /\ spawnedLate' = (spawnedLate \/ teardown \in {"join", "down"}
                         \/ (teardown = "pool" /\ c < core))
    /\ UNCHANGED <<flavor, worker, job, next, shutdown, drivers, retired, down>>

\* The closure returns, its pool thread leaves; the wrapper may be over by an abort.
BlockingDone(t) ==
    /\ t \in blocking /\ blocking' = blocking \ {t}
    /\ UNCHANGED <<flavor, run, next, shutdown, drivers, retired, down, spawnedLate>>

------------------------------------------------------------------------------
(* Running *)

\* block_on of a current-thread runtime; it borrows the Runtime, so no shutdown call
\* is made before it returns.
BlockOn ==
    /\ flavor = "current" /\ teardown = "up" /\ worker[Caller] = "out"
    /\ worker' = [worker EXCEPT ![Caller] = "loop"]
    /\ UNCHANGED <<flavor, place, home, job, next, shutdown, drivers, retired, blocking, down,
                   spawnedLate>>

BlockOnReturns ==
    /\ flavor = "current" /\ worker[Caller] = "loop"
    /\ worker' = [worker EXCEPT ![Caller] = "out"]
    /\ UNCHANGED <<flavor, place, home, job, next, shutdown, drivers, retired, blocking, down,
                   spawnedLate>>

\* The head of a worker's loop: leave if the flag is on ...
WorkerLoop(w) ==
    /\ worker[w] = "loop"
    /\ worker' = [worker EXCEPT ![w] =
                    IF shutdown[SharedOf(w)] /\ flavor # "current" THEN "exit" ELSE "take"]
    /\ UNCHANGED <<flavor, place, home, job, next, shutdown, drivers, retired, blocking, down,
                   spawnedLate>>

\* ... else take a task of its Shared, or park; the flag may be on by now.
TakeTask(w) ==
    /\ worker[w] = "take"
    /\ \/ \E t \in Tasks :
            /\ place[t] = "queued" /\ home[t] = SharedOf(w)
            /\ place' = [place EXCEPT ![t] = "running"]
            /\ job' = [job EXCEPT ![w] = t]
            /\ worker' = [worker EXCEPT ![w] = "run"]
       \/ /\ \A t \in Tasks : ~(place[t] = "queued" /\ home[t] = SharedOf(w))
          /\ worker' = [worker EXCEPT ![w] = "loop"]
          /\ UNCHANGED <<place, job>>
    /\ UNCHANGED <<flavor, home, next, shutdown, drivers, retired, blocking, down, spawnedLate>>

\* The poll ends: the task is over, or waits for a wake; a retired thread leaves.
PollEnds(w, outcome) ==
    /\ worker[w] = "run"
    /\ place' = [place EXCEPT ![job[w]] = outcome]
    /\ worker' = [worker EXCEPT ![w] = IF w \in retired THEN "exit" ELSE "loop"]
    /\ job' = [job EXCEPT ![w] = NoTask]
    /\ UNCHANGED <<flavor, home, next, shutdown, drivers, retired, blocking, down, spawnedLate>>

\* block_in_place: the first call of a poll starts a thread in the worker's place,
\* whose JoinHandle nobody keeps, and retires the worker.
BlockInPlace(w, r) ==
    /\ flavor = "multi" /\ worker[w] = "run" /\ w \notin retired
    /\ worker[r] = "none" /\ worker' = [worker EXCEPT ![r] = "loop"]
    /\ retired' = retired \cup {w}
    /\ UNCHANGED <<flavor, place, home, job, next, shutdown, drivers, blocking, down,
                   spawnedLate>>

\* A wake puts the task on the queue of the Shared it was spawned on.
WakeTask(t) ==
    /\ place[t] = "idle" /\ place' = [place EXCEPT ![t] = "queued"]
    /\ UNCHANGED <<flavor, home, next, worker, job, shutdown, drivers, retired, blocking, down,
                   spawnedLate>>

------------------------------------------------------------------------------
(* Shutting down *)

Goto(p, c) == teardown' = p /\ core' = c
NextCore(here, after) ==
    IF core + 1 \in Shareds THEN Goto(here, core + 1) ELSE Goto(after, 0)

\* Drop, shutdown_timeout or shutdown_background begins.
Begin(call) ==
    /\ teardown = "up" /\ (flavor = "current" => worker[Caller] = "out")
    /\ how' = call /\ Goto(IF call = "timeout" THEN "drain" ELSE "stop", 0)
    /\ tornDown' = (call # "timeout")
    /\ UNCHANGED <<flavor, run, next, shutdown, drivers, retired, blocking, late, spawnedLate>>

Deadline ==
    /\ how = "timeout" /\ ~late /\ late' = TRUE
    /\ UNCHANGED <<flavor, run, next, shutdown, drivers, retired, blocking, teardown, how, core,
                   tornDown, spawnedLate>>

\* wait_for_tasks_drain, core after core; then teardown_once.
Drain ==
    /\ teardown = "drain" /\ (late \/ Active(core) = {})
    /\ NextCore("drain", "stop")
    /\ tornDown' = (tornDown \/ core + 1 \notin Shareds)
    /\ UNCHANGED <<flavor, run, next, shutdown, drivers, retired, blocking, how, late,
                   spawnedLate>>

\* stop_scheduling_and_reactor, core after core.
Stop ==
    /\ teardown = "stop"
    /\ shutdown' = [shutdown EXCEPT ![core] = TRUE]
    /\ drivers' = [drivers EXCEPT ![core] = FALSE]
    /\ NextCore("stop", "pool")
    /\ UNCHANGED <<flavor, run, next, retired, blocking, how, late, tornDown, spawnedLate>>

\* Mutant: the pool is told to stop and not waited for.
StopPoolUnwaited ==
    /\ teardown = "pool" /\ NextCore("pool", IF how = "background" THEN "down" ELSE "join")
    /\ UNCHANGED <<flavor, run, next, shutdown, drivers, retired, blocking, how, late, tornDown,
                   spawnedLate>>

\* The blocking pool: signalled, and waited for, until the deadline if there is one.
StopPool ==
    /\ teardown = "pool"
    /\ how = "background" \/ Pool(core) = {} \/ (how = "timeout" /\ late)
    /\ NextCore("pool", IF how = "background" THEN "down" ELSE "join")
    /\ UNCHANGED <<flavor, run, next, shutdown, drivers, retired, blocking, how, late, tornDown,
                   spawnedLate>>

\* take_workers, each joined, the spares not among them; the Drop of a shutdown
\* call's self does nothing more.
JoinWorkers ==
    /\ teardown = "join"
    /\ \A w \in Threads \ Spares : worker[w] \in {"exit", "out"}
    /\ Goto("down", 0)
    /\ UNCHANGED <<flavor, run, next, shutdown, drivers, retired, blocking, how, late, tornDown,
                   spawnedLate>>

RunsOn(w) ==
    /\ w \in Threads
    /\ WorkerLoop(w) \/ TakeTask(w) \/ PollEnds(w, "done") \/ PollEnds(w, "idle")

Teardown == Drain \/ Stop \/ StopPool \/ JoinWorkers

Next ==
    \/ Teardown \/ Deadline \/ BlockOn \/ BlockOnReturns
    \/ \E call \in {"drop", "timeout", "background"} : Begin(call)
    \/ \E t \in Tasks :
         \/ Spawn(t) \/ WakeTask(t) \/ BlockingDone(t)
         \/ \E c \in Shareds : SpawnOn(t, c) \/ SpawnBlocking(t, c)
         \/ \E w \in Threads : SpawnInside(t, w)
    \/ \E w \in Threads :
         \/ WorkerLoop(w) \/ TakeTask(w)
         \/ \E r \in Spares : BlockInPlace(w, r)
         \/ \E outcome \in {"done", "idle"} : PollEnds(w, outcome)

\* Threads run, polls and closures end, deadlines pass.
Fairness ==
    /\ WF_vars(Teardown) /\ WF_vars(Deadline)
    /\ \A w \in Workers \cup Spares \cup Cores \cup {Caller} :
         WF_vars(RunsOn(w))
    /\ \A t \in Tasks : WF_vars(BlockingDone(t))

------------------------------------------------------------------------------
(* Properties *)

\* A task stays with the Shared it was placed on ("once picked, it never migrates"),
\* that Shared exists and its own threads poll it, one at a time.
TasksAtHome ==
    /\ \A t \in Tasks : home[t] \in Shareds
    /\ \A w \in Threads : worker[w] = "run" => place[job[w]] = "running" /\ home[job[w]] = SharedOf(w)
    /\ \A v, w \in Threads : v # w /\ worker[v] = "run" => job[v] # job[w]

Gone == {"none", "exit", "out"}

\* What a shutdown that returned has left behind.  "Dropping it shuts everything
\* down and joins every background thread" is so except for two kinds of threads:
\* the spares of block_in_place, which may even begin a task after Drop returned,
\* and the pool thread of a closure that was spawned after its pool was waited for.
\* A task in its last poll keeps Drop waiting.  A shutdown_timeout that met its
\* deadline leaves no pool thread either.
ShutdownComplete ==
    /\ teardown = "down" /\ how = "drop" =>
         /\ \A t \in Tasks : place[t] = "running" => \E r \in Threads \cap Spares : job[r] = t
         /\ blocking = {} \/ spawnedLate
    /\ teardown \in {"join", "down"} /\ how = "timeout" /\ ~late /\ ~spawnedLate =>
         blocking = {}

\* A shutdown call comes to its end, and every thread that runs tasks, joined or
\* not, "exits on its own".
Stopping == how # "none"
Down == teardown = "down" /\ \A w \in Threads : worker[w] \in Gone

==============================================================================
