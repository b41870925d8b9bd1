------------------------------ MODULE LocalSet -------------------------------
(***************************************************************************)
(* LocalSet (task/local.rs): !Send tasks polled only by the thread that    *)
(* first used the set, woken and aborted from any thread.  LocalRuntime    *)
(* (runtime/mod.rs) drains the same queue in its block_on.  The state byte *)
(* is the one of module Task, an operation on it one step here.  A task    *)
(* that is neither queued nor running is kept alive by its wakers alone.   *)
(***************************************************************************)
EXTENDS Naturals, Sequences, Functions

CONSTANTS
    Tasks,      \* the tasks that may be spawned
    Threads,    \* threads that use the set, wake and abort
    NoOne       \* no thread, no task

VARIABLES
    owner,      \* owner_thread
    alive,      \* the LocalSet exists
    queue,      \* LocalShared::queue
    state,      \* of each task: "none", "queued", "running", "notified", "idle", "complete"
    aborted,    \* the ABORTED bit
    future,     \* where the boxed future is: "none", "slot", "polled", "dropped"
    hook,       \* abnormal_hook is still there
    join,       \* what the JoinInner holds: "running", "ok", "cancelled", "panicked"
    waker,      \* threads that hold a clone of the task's waker
    drive,      \* the driving thread: place in drive
    driver,     \* the thread inside run_until or block_on
    current,    \* the task it runs
    ambient,    \* CURRENT_LOCAL of each thread: is this set the ambient one
    dropper     \* history: the thread on which the future was dropped

vars == <<owner, alive, queue, state, aborted, future, hook, join, waker, drive, driver,
          current, ambient, dropper>>
taskVars == <<state, aborted, future, hook, join, waker, dropper>>

Init ==
    /\ owner = NoOne /\ alive = TRUE /\ queue = <<>>
    /\ state = [t \in Tasks |-> "none"] /\ aborted = [t \in Tasks |-> FALSE]
    /\ future = [t \in Tasks |-> "none"] /\ hook = [t \in Tasks |-> FALSE]
    /\ join = [t \in Tasks |-> "running"] /\ waker = [t \in Tasks |-> {}]
    /\ drive = "out" /\ driver = NoOne /\ current = NoOne
    /\ ambient = [th \in Threads |-> FALSE] /\ dropper = [t \in Tasks |-> NoOne]

\* bind_or_check_thread; the panic of the other threads changes nothing.
BindOrCheckThread(th) == owner \in {NoOne, th} /\ owner' = th

\* The thread is free to call, or is inside the poll of a future.
Calls(th) == driver # th \/ drive \in {"root", "poll"}

------------------------------------------------------------------------------
(* spawn_local, enter, run_until *)

\* spawn: a task in the queue, with its future and its abnormal-end hook.
NewTask(t) ==
    /\ state' = [state EXCEPT ![t] = "queued"]
    /\ future' = [future EXCEPT ![t] = "slot"]
    /\ hook' = [hook EXCEPT ![t] = TRUE]
    /\ queue' = Append(queue, t)

\* LocalSet::spawn_local from outside, or the free function where the set is ambient.
SpawnLocal(th, t) ==
    /\ alive /\ state[t] = "none" /\ Calls(th)
    /\ BindOrCheckThread(th) \/ (ambient[th] /\ UNCHANGED owner)
    /\ NewTask(t)
    /\ UNCHANGED <<alive, aborted, join, waker, drive, driver, current, ambient, dropper>>

\* enter, and the drop of its guard.
Enter(th) ==
    /\ alive /\ Calls(th) /\ ~ambient[th] /\ BindOrCheckThread(th)
    /\ ambient' = [ambient EXCEPT ![th] = TRUE]
    /\ UNCHANGED <<alive, queue, taskVars, drive, driver, current>>

LeaveGuard(th) ==
    /\ ambient[th] /\ driver # th
    /\ ambient' = [ambient EXCEPT ![th] = FALSE]
    /\ UNCHANGED <<owner, alive, queue, taskVars, drive, driver, current>>

\* run_until, or block_on of a LocalRuntime: bound, entered, the root polled first.
RunUntil(th) ==
    /\ alive /\ driver = NoOne /\ BindOrCheckThread(th)
    /\ driver' = th /\ drive' = "root"
    /\ ambient' = [ambient EXCEPT ![th] = TRUE]
    /\ UNCHANGED <<alive, queue, taskVars, current>>

\* The root is ready: run_until returns and leaves the queue as it is.
RootReady ==
    /\ drive = "root"
    /\ drive' = "out" /\ driver' = NoOne
    /\ ambient' = [ambient EXCEPT ![driver] = FALSE]
    /\ UNCHANGED <<owner, alive, queue, taskVars, current>>

RootPending ==
    /\ drive = "root" /\ drive' = "drain"
    /\ UNCHANGED <<owner, alive, queue, taskVars, driver, current, ambient>>

\* park waits 50 ms at most; then, or after a drain that ran something, the root again.
Park ==
    /\ drive = "drain" /\ queue = <<>> /\ drive' = "root"
    /\ UNCHANGED <<owner, alive, queue, taskVars, driver, current, ambient>>

------------------------------------------------------------------------------
(* LocalTask::run *)

DropFuture(t, th) ==
    /\ future' = [future EXCEPT ![t] = "dropped"]
    /\ dropper' = [dropper EXCEPT ![t] = th]

\* complete or the hook: the result goes into the JoinInner once.
Finish(t, result) ==
    /\ join' = [join EXCEPT ![t] = result]
    /\ hook' = [hook EXCEPT ![t] = FALSE]

\* next_task and begin_poll, which starts the run and says whether to poll ...
RunTask ==
    /\ drive = "drain" /\ queue # <<>>
    /\ queue' = Tail(queue)
    /\ LET t == Head(queue)
       IN  /\ state' = [state EXCEPT ![t] = "running"]
           /\ \/ /\ aborted[t]
                 /\ DropFuture(t, driver) /\ Finish(t, "cancelled")
                 /\ UNCHANGED <<drive, current>>
              \/ /\ ~aborted[t]
                 /\ drive' = "begun" /\ current' = t
                 /\ UNCHANGED <<future, hook, join, dropper>>
    /\ UNCHANGED <<owner, alive, aborted, waker, driver, ambient>>

\* ... then the second look at the abort bit, and the future out of its slot.
CheckAborted ==
    /\ drive = "begun"
    /\ \/ /\ aborted[current]
          /\ DropFuture(current, driver) /\ Finish(current, "cancelled")
          /\ state' = [state EXCEPT ![current] = "complete"]
          /\ drive' = "drain" /\ current' = NoOne
       \/ /\ ~aborted[current]
          /\ future' = [future EXCEPT ![current] = "polled"]
          /\ drive' = "poll"
          /\ UNCHANGED <<state, hook, join, current, dropper>>
    /\ UNCHANGED <<owner, alive, queue, aborted, waker, driver, ambient>>

\* The poll hands its waker to a thread (a driver thread, another task's owner).
HandOutWaker(th) ==
    /\ drive = "poll"
    /\ waker' = [waker EXCEPT ![current] = @ \cup {th}]
    /\ UNCHANGED <<owner, alive, queue, state, aborted, future, hook, join, drive, driver,
                   current, ambient, dropper>>

PollReady(result) ==
    /\ drive = "poll" /\ drive' = "drain" /\ current' = NoOne
    /\ DropFuture(current, driver) /\ Finish(current, result)
    /\ state' = [state EXCEPT ![current] = "complete"]
    /\ UNCHANGED <<owner, alive, queue, aborted, waker, driver, ambient>>

\* Mutant: the task goes idle whatever came while it ran.
PollPendingForgets ==
    /\ drive = "poll" /\ drive' = "drain" /\ current' = NoOne
    /\ future' = [future EXCEPT ![current] = "slot"]
    /\ state' = [state EXCEPT ![current] = "idle"]
    /\ UNCHANGED <<owner, alive, queue, aborted, hook, join, waker, driver, ambient, dropper>>

\* The future goes back, then end_poll(false), then the queue if it was notified;
\* without a waker the end of run drops the last Arc.
PollPending ==
    /\ drive = "poll" /\ drive' = "drain" /\ current' = NoOne
    /\ \/ /\ state[current] = "notified"
          /\ state' = [state EXCEPT ![current] = "queued"]
          /\ queue' = Append(queue, current)
          /\ future' = [future EXCEPT ![current] = "slot"]
          /\ UNCHANGED dropper
       \/ /\ state[current] = "running"
          /\ state' = [state EXCEPT ![current] = "idle"]
          /\ \/ waker[current] = {} /\ DropFuture(current, driver)
             \/ /\ waker[current] # {}
                /\ future' = [future EXCEPT ![current] = "slot"]
                /\ UNCHANGED dropper
          /\ UNCHANGED queue
    /\ UNCHANGED <<owner, alive, aborted, hook, join, waker, driver, ambient>>

------------------------------------------------------------------------------
(* Wakes, aborts and drops, from any thread *)

\* State::wake and, from idle, schedule, which finds no queue after the drop of the set.
StateWake(t) ==
    /\ state' = [state EXCEPT ![t] = CASE @ = "idle" -> "queued"
                                       [] @ = "running" -> "notified"
                                       [] OTHER -> @]
    /\ queue' = IF state[t] = "idle" /\ alive THEN Append(queue, t) ELSE queue

\* The last Arc goes, and with it whatever the slot still holds.
LastDrop(t, th) ==
    LET last == waker'[t] = {} /\ state'[t] \in {"idle", "queued"} /\ t \notin Range(queue')
    IN  /\ future' = [future EXCEPT ![t] = IF last THEN "dropped" ELSE @]
        /\ dropper' = [dropper EXCEPT ![t] = IF last THEN th ELSE @]

\* wake() by value, from the thread that holds the waker: the clone is dropped after.
Wake(th, t) ==
    /\ th \in waker[t] /\ Calls(th)
    /\ waker' = [waker EXCEPT ![t] = @ \ {th}]
    /\ StateWake(t) /\ LastDrop(t, th)
    /\ UNCHANGED <<owner, alive, aborted, hook, join, drive, driver, current, ambient>>

DropWaker(th, t) ==
    /\ th \in waker[t] /\ Calls(th)
    /\ waker' = [waker EXCEPT ![t] = @ \ {th}]
    /\ UNCHANGED <<state, queue>> /\ LastDrop(t, th)
    /\ UNCHANGED <<owner, alive, aborted, hook, join, drive, driver, current, ambient>>

\* JoinHandle::abort: the Weak must still lead to a task.
Abort(th, t) ==
    /\ Calls(th) /\ state[t] \notin {"none", "complete"} /\ ~aborted[t]
    /\ t = current \/ t \in Range(queue) \/ waker[t] # {}
    /\ aborted' = [aborted EXCEPT ![t] = TRUE]
    /\ StateWake(t)
    /\ UNCHANGED <<owner, alive, future, hook, join, waker, drive, driver, current, ambient,
                   dropper>>

\* The set goes out of scope, on any thread: it is Send, and its drop looks at no
\* owner_thread.  Its queue goes with it.
DropLocalSet(th) ==
    /\ alive /\ driver = NoOne
    /\ alive' = FALSE /\ queue' = <<>>
    /\ LET gone == {t \in Range(queue) : waker[t] = {}}
       IN  /\ future' = [t \in Tasks |-> IF t \in gone THEN "dropped" ELSE future[t]]
           /\ dropper' = [t \in Tasks |-> IF t \in gone THEN th ELSE dropper[t]]
    /\ UNCHANGED <<owner, state, aborted, hook, join, waker, drive, driver, current, ambient>>

Drive == RootPending \/ Park \/ RunTask \/ CheckAborted \/ PollPending
         \/ \E r \in {"ok", "panicked"} : PollReady(r)

Next ==
    \/ Drive \/ RootReady
    \/ \E th \in Threads :
         \/ Enter(th) \/ LeaveGuard(th) \/ RunUntil(th) \/ HandOutWaker(th) \/ DropLocalSet(th)
         \/ \E t \in Tasks : SpawnLocal(th, t) \/ Wake(th, t) \/ DropWaker(th, t) \/ Abort(th, t)

------------------------------------------------------------------------------
(* Properties *)

\* An idle task whose last waker is gone: nothing leads to it any more.
Abandoned(t) == state[t] = "idle" /\ waker[t] = {}

\* The safety argument of `unsafe impl Send for LocalTask`, as far as it goes: the
\* future is polled by the owner alone, and as long as the LocalSet lives it is
\* dropped by the owner alone and with its result stored, unless its last waker
\* abandons it, on whatever thread that waker is.  The drop of the set ends this:
\* it takes the futures left to the thread it happens on.
FutureStaysHome ==
    /\ driver \in {NoOne, owner}
    /\ \A t \in Tasks :
         /\ future[t] = "polled" => driver = owner /\ current = t
         /\ alive /\ future[t] = "dropped" =>
              (dropper[t] = owner /\ join[t] # "running") \/ Abandoned(t)

\* No task is woken for nothing: one that is QUEUED is in the queue, once, as long
\* as the set lives, and a wake or an abort that comes during the poll is not lost
\* with it.
LocalTasksQueued ==
    /\ alive => \A t \in Tasks :
         /\ (state[t] = "queued") <=> t \in Range(queue)
         /\ aborted[t] /\ join[t] = "running" => state[t] # "idle"
    /\ \A i, j \in 1..Len(queue) : i # j => queue[i] # queue[j]
==============================================================================
