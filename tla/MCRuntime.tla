----------------------------- MODULE MCRuntime ------------------------------
(***************************************************************************)
(* The parts of the runtime around the task and the scheduler under TLC:   *)
(* the timer driver (of a multi-threaded runtime, and of a current-thread  *)
(* one, whose clock can be paused), Interval, the blocking pool and a      *)
(* Runtime's life.  Each has a state of its own in the code; a behaviour   *)
(* here is a behaviour of the one that `part` names, whose variables are   *)
(* x1, x2, ... in the order of their declaration, and the others stay 0.   *)
(***************************************************************************)
EXTENDS Naturals

\* The pool and a Runtime use the same names: Workers and Spares make up Slots,
\* and Tasks are some of Jobs.
CONSTANTS Sleeps, Timeouts, First, MaxTime,
          Period, MaxNow,
          Jobs, Job, Slots, max_threads,
          Tasks, Workers, Spares, Nothing,
          Caller

VARIABLES part, x1, x2, x3, x4, x5, x6, x7, x8, x9, x10, x11, x12, x13, x14, x15,
          x16, x17, x18, x19, x20

\* A Timeout waits longer than the bare Sleep, so a registration may come earlier
\* than what the driver is waiting for.
Mt == INSTANCE Timer WITH CurrentThread <- FALSE, Steps <- {}, MaxVirtual <- 0, MaxId <- 2,
    Delays <- [s \in Sleeps |-> {IF s \in Timeouts THEN 2 ELSE 1}],
    real <- x1, paused <- x2, virtual <- x3, heap <- x4, wakers <- x5, nextId <- x6,
    shutdown <- x7, dpc <- x8, seen <- x9, until <- x10, notified <- x11,
    due <- x12, deadline <- x13, id <- x14, phase <- x15, awake <- x16, apc <- x17,
    target <- x18, spc <- x19, disturbed <- x20
Ct == INSTANCE Timer WITH Sleeps <- {First}, Timeouts <- {}, CurrentThread <- TRUE,
    Delays <- [s \in {First} |-> {1}], Steps <- 1..2, MaxTime <- 1, MaxVirtual <- 2, MaxId <- 2,
    real <- x1, paused <- x2, virtual <- x3, heap <- x4, wakers <- x5, nextId <- x6,
    shutdown <- x7, dpc <- x8, seen <- x9, until <- x10, notified <- x11,
    due <- x12, deadline <- x13, id <- x14, phase <- x15, awake <- x16, apc <- x17,
    target <- x18, spc <- x19, disturbed <- x20
Iv == INSTANCE Interval WITH now <- x1, behavior <- x2, next <- x3, sleep <- x4,
    base <- x5, fired <- x6, seenAt <- x7, mixed <- x8
Pool == INSTANCE BlockingPool WITH queue <- x1, shutdown <- x2, live_threads <- x3,
    job <- x4, thread <- x5, running <- x6, notified <- x7, drain <- x8,
    stranded <- x9
Lc == INSTANCE RuntimeLifecycle WITH Cores <- {0, 1}, NoTask <- Nothing,
    flavor <- x1, place <- x2, home <- x3, next <- x4, worker <- x5, job <- x6,
    shutdown <- x7, drivers <- x8, retired <- x9, blocking <- x10, teardown <- x11,
    how <- x12, core <- x13, late <- x14, tornDown <- x15, spawnedLate <- x16

from17 == <<x17, x18, x19, x20>>
from10 == <<x10, x11, x12, x13, x14, x15, x16, from17>>
from9 == <<x9, from10>>
vars == <<part, x1, x2, x3, x4, x5, x6, x7, x8, from9>>
Idle17 == /\ x17 = 0 /\ x18 = 0 /\ x19 = 0 /\ x20 = 0
Idle10 == /\ x10 = 0 /\ x11 = 0 /\ x12 = 0 /\ x13 = 0 /\ x14 = 0 /\ x15 = 0
          /\ x16 = 0 /\ Idle17
Idle9 == /\ x9 = 0 /\ Idle10

OnMt == part = "timer" /\ UNCHANGED part
OnCt == part = "paused" /\ UNCHANGED part
OnIv == part = "interval" /\ UNCHANGED <<part, from9>>
OnPool == part = "pool" /\ UNCHANGED <<part, from10>>
OnLc == part = "lifecycle" /\ UNCHANGED <<part, from17>>

Init ==
    \/ part = "timer" /\ Mt!Init
    \/ part = "paused" /\ Ct!Init
    \/ part = "interval" /\ Iv!Init /\ Idle9
    \/ part = "pool" /\ Pool!Init /\ Idle10
    \/ part = "lifecycle" /\ Lc!Init /\ Idle17

Next ==
    \/ OnMt /\ Mt!Next
    \/ OnCt /\ Ct!Next
    \/ OnIv /\ Iv!Next
    \/ OnPool /\ Pool!Next
    \/ OnLc /\ Lc!Next

\* Each part's own fairness.  A behaviour is of one part, so fairness of a
\* disjunction over the parts is fairness of that part's action.
Driver == (OnMt /\ Mt!DriverStep) \/ (OnCt /\ Ct!DriverStep)
          \/ (OnPool /\ Pool!EndSignal) \/ (OnLc /\ Lc!Teardown)
Stopper == (OnMt /\ Mt!EndShutdown) \/ (OnCt /\ Ct!EndShutdown)
           \/ (OnPool /\ Pool!WaitForDrain) \/ (OnLc /\ Lc!Deadline)
Thread(t) == (OnPool /\ Pool!ThreadStep(t)) \/ (OnLc /\ Lc!RunsOn(t))
Closure(j) == (OnPool /\ Pool!EndSpawn(j)) \/ (OnLc /\ j \in Tasks /\ Lc!BlockingDone(j))
Time == (OnMt /\ Mt!Tick) \/ (OnCt /\ Ct!Tick)
Sleeper(s) == (OnMt /\ Mt!PollWoken(s)) \/ (OnCt /\ s = First /\ Ct!PollWoken(s))

Fairness ==
    /\ WF_vars(Driver) /\ WF_vars(Stopper) /\ SF_vars(Time)
    /\ \A s \in Sleeps : SF_vars(Sleeper(s))
    /\ \A t \in Slots : WF_vars(Thread(t))
    /\ \A j \in Jobs : WF_vars(Closure(j))
    /\ \A t \in {0, 1, Caller} : WF_vars(OnLc /\ Lc!RunsOn(t))

Spec == Init /\ [][Next]_vars /\ Fairness

\* Sleep, Timeout and Interval: no pending Sleep is left without a wake on its
\* way, the driver never waits past the earliest deadline, and ticks keep the
\* schedule their MissedTickBehavior promises.
TimersServed ==
    /\ part = "timer" => Mt!SleepersServed
    /\ part = "paused" => Ct!SleepersServed
    /\ part = "interval" => Iv!ScheduleKept

\* The blocking pool: the thread count is exact and capped, and a queued job has
\* a thread that will look at it unless the one known race took it away.
PoolAccounts == part = "pool" => Pool!PoolAccounts /\ Pool!NoOtherJobStranded

\* A task stays with its Shared, and a shutdown that returned left no thread but
\* those that nobody joins.
ShutdownOrderly == part = "lifecycle" => Lc!TasksAtHome /\ Lc!ShutdownComplete

\* A Sleep that is due, a closure in the pool's queue, and a call that shuts
\* something down ...
Waiting ==
    \/ part = "timer" /\ Mt!Overdue(First)
    \/ part = "paused" /\ Ct!Overdue(First)
    \/ part = "pool" /\ Pool!Queued(Job)
Stopping ==
    \/ part = "timer" /\ Mt!Joining
    \/ part = "paused" /\ Ct!Joining
    \/ part = "pool" /\ Pool!Draining
    \/ part = "lifecycle" /\ Lc!Stopping

\* ... and what they wait for.
Served ==
    \/ part = "timer" /\ Mt!Released(First)
    \/ part = "paused" /\ Ct!Released(First)
    \/ part = "pool" /\ Pool!Run(Job)
Stopped ==
    \/ part = "timer" /\ Mt!Joined
    \/ part = "paused" /\ Ct!Joined
    \/ part = "pool" /\ Pool!Drained
    \/ part = "lifecycle" /\ Lc!Down

\* A Sleep of a running clock resolves and a closure given to the pool runs; the
\* timer driver's shutdown and the pool's drain return although their notify may
\* come between a thread's look at the flag and its wait; and so does every way to
\* shut a Runtime down.  The bare Sleep and one of the closures stand for all.
RuntimeLive == (Waiting ~> Served) /\ (Stopping ~> Stopped)
=============================================================================
