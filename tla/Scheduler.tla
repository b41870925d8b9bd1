----------------------------- MODULE Scheduler -----------------------------
(***************************************************************************)
(* The multi-threaded scheduler: the worker threads of runtime/worker.rs,  *)
(* their local FIFO queues, the shared injector, work stealing, parking,   *)
(* block_in_place and shutdown (runtime/mod.rs).                           *)
(*                                                                         *)
(* Each queue operation is one step (crossbeam's deques are linearizable;  *)
(* the number of tasks a batch steal moves is left open).  A task is the   *)
(* phase of TaskLifecycle: the race for its state byte is in module Task,  *)
(* so a wake and the push that follows it are one step here.  Shared::park *)
(* waits at most 50 ms, so a parked worker may go on at any time; what     *)
(* park_condvar's notifications do is to make that sooner.                 *)
(***************************************************************************)
EXTENDS Integers, Sequences

CONSTANTS
    Tasks,      \* the tasks of the runtime
    Threads,    \* OS threads: the first workers and the replacements
    N,          \* Builder::worker_threads
    First,      \* the thread that starts out as each worker index
    NoTask      \* cur[th] of a thread that runs no task

Indices == 0 .. (N - 1)

ASSUME SchedulerAssumption ==
    /\ N \in Nat \ {0}
    /\ First \in [Indices -> Threads]
    /\ \A i, j \in Indices : First[i] = First[j] => i = j
    /\ NoTask \notin Tasks

VARIABLES
    phase,      \* the life of each task, as in TaskLifecycle
    injector,   \* Shared::injector
    local,      \* LOCAL_QUEUE of each thread
    index,      \* the worker index each thread runs as, -1 before it starts
    retired,    \* the threads whose RETIRED flag is set
    pc, cur,    \* where each thread is in worker::run, and what it polls
    offset,     \* the loop variable of next_task
    parity,     \* park_unpark_counts modulo 2
    shutdown,   \* Shared::shutdown
    panicked    \* a caller of schedule ran into push_local's expect()

vars == <<phase, injector, local, index, retired, pc, cur, offset, parity,
          shutdown, panicked>>

Labels == {"unborn", "check", "pop", "inject", "steal", "park", "parked",
           "poll", "blocking", "after", "drain", "exited"}

Phases == {"fresh", "queued", "running", "rerun", "idle", "done"}

Goto(th, label) == pc' = [pc EXCEPT ![th] = label]

\* `stealers` is built once and keeps pointing at the queues of the first threads.
stealers == First

\* The tasks next_task may be looking at when it finds q non-empty: the head is
\* popped, and the next k - 1 move to the thief's own queue.
Batch(q) == 1 .. Len(q)

\* next_task returned t and run() calls task.run().
Start(th, t) ==
    /\ phase' = [phase EXCEPT ![t] = "running"]
    /\ cur' = [cur EXCEPT ![th] = t]
    /\ Goto(th, "poll")

------------------------------------------------------------------------------
(* worker::run *)

\* while !shared.is_shutdown()
Check(th) ==
    /\ pc[th] = "check"
    /\ Goto(th, IF shutdown THEN "exited" ELSE "pop")
    /\ UNCHANGED <<phase, injector, local, index, retired, cur, offset, parity,
                   shutdown, panicked>>

\* next_task: the thread's own queue first ...
PopLocal(th) ==
    /\ pc[th] = "pop"
    /\ \/ /\ local[th] = <<>>
          /\ Goto(th, "inject")
          /\ UNCHANGED <<phase, local, cur>>
       \/ /\ local[th] # <<>>
          /\ Start(th, Head(local[th]))
          /\ local' = [local EXCEPT ![th] = Tail(@)]
    /\ UNCHANGED <<injector, index, retired, offset, parity, shutdown, panicked>>

\* Injector::steal_batch_and_pop: the head is popped, and the tasks from place
\* `from` to the end of the batch move to the thread's own queue.
StealBatch(th, from) ==
    /\ Start(th, Head(injector))
    /\ \E k \in Batch(injector) :
          /\ local' = [local EXCEPT ![th] = @ \o SubSeq(injector, from, k)]
          /\ injector' = SubSeq(injector, k + 1, Len(injector))

InjectorEmpty(th) ==
    /\ injector = <<>>
    /\ Goto(th, "steal")
    /\ offset' = [offset EXCEPT ![th] = 1]
    /\ UNCHANGED <<phase, injector, local, cur>>

\* Mutants: the batch keeps the task that was popped; the newest comes first.
StealInjectorTwice(th) ==
    /\ pc[th] = "inject"
    /\ \/ InjectorEmpty(th)
       \/ injector # <<>> /\ StealBatch(th, 1) /\ UNCHANGED offset
    /\ UNCHANGED <<index, retired, parity, shutdown, panicked>>

StealInjectorNewest(th) ==
    /\ pc[th] = "inject"
    /\ \/ InjectorEmpty(th)
       \/ /\ injector # <<>>
          /\ Start(th, injector[Len(injector)])
          /\ injector' = SubSeq(injector, 1, Len(injector) - 1)
          /\ UNCHANGED <<local, offset>>
    /\ UNCHANGED <<index, retired, parity, shutdown, panicked>>

\* ... then a batch from the injector ...
StealInjector(th) ==
    /\ pc[th] = "inject"
    /\ \/ InjectorEmpty(th)
       \/ injector # <<>> /\ StealBatch(th, 2) /\ UNCHANGED offset
    /\ UNCHANGED <<index, retired, parity, shutdown, panicked>>

\* The loop of next_task over the siblings, for the offsets below `end`.
StealBelow(th, end) ==
    LET victim == stealers[(index[th] + offset[th]) % N]
    IN  /\ pc[th] = "steal"
        /\ \/ /\ offset[th] = end
              /\ Goto(th, "park")
              /\ UNCHANGED <<phase, local, cur, offset>>
           \/ /\ offset[th] < end
              /\ local[victim] = <<>>
              /\ offset' = [offset EXCEPT ![th] = @ + 1]
              /\ UNCHANGED <<phase, local, pc, cur>>
           \/ /\ offset[th] < end
              /\ local[victim] # <<>>
              /\ Start(th, Head(local[victim]))
              /\ \E k \in Batch(local[victim]) :
                    local' = [local EXCEPT
                        ![th] = @ \o SubSeq(local[victim], 2, k),
                        ![victim] = SubSeq(@, k + 1, Len(@))]
              /\ UNCHANGED offset
        /\ UNCHANGED <<injector, index, retired, parity, shutdown, panicked>>

\* ... then a batch from each sibling in turn.
StealSibling(th) == StealBelow(th, N)

\* Shared::park counts, waits and counts again.
Park(th) ==
    /\ pc[th] = "park"
    /\ parity' = [parity EXCEPT ![index[th]] = 1 - @]
    /\ Goto(th, "parked")
    /\ UNCHANGED <<phase, injector, local, index, retired, cur, offset,
                   shutdown, panicked>>

\* Mutant: only the beginning of a park is counted.
UnparkUncounted(th) ==
    /\ pc[th] = "parked"
    /\ Goto(th, "after")
    /\ UNCHANGED <<phase, injector, local, index, retired, cur, offset, parity,
                   shutdown, panicked>>

Unpark(th) ==
    /\ pc[th] = "parked"
    /\ parity' = [parity EXCEPT ![index[th]] = 1 - @]
    /\ Goto(th, "after")
    /\ UNCHANGED <<phase, injector, local, index, retired, cur, offset,
                   shutdown, panicked>>

\* Mutant: a retired thread returns without the drain.
AfterNoDrain(th) ==
    /\ pc[th] = "after"
    /\ Goto(th, IF th \in retired THEN "exited" ELSE "check")
    /\ UNCHANGED <<phase, injector, local, index, retired, cur, offset, parity,
                   shutdown, panicked>>

\* if RETIRED
After(th) ==
    /\ pc[th] = "after"
    /\ Goto(th, IF th \in retired THEN "drain" ELSE "check")
    /\ UNCHANGED <<phase, injector, local, index, retired, cur, offset, parity,
                   shutdown, panicked>>

\* while let Some(task) = pop_local() { requeue_to_injector(task) } return
Drain(th) ==
    /\ pc[th] = "drain"
    /\ \/ /\ local[th] = <<>>
          /\ Goto(th, "exited")
          /\ UNCHANGED <<injector, local>>
       \/ /\ local[th] # <<>>
          /\ injector' = Append(injector, Head(local[th]))
          /\ local' = [local EXCEPT ![th] = Tail(@)]
          /\ UNCHANGED pc
    /\ UNCHANGED <<phase, index, retired, cur, offset, parity, shutdown, panicked>>

------------------------------------------------------------------------------
(* What the task that a worker polls may do *)

\* Mutant: Worker::new_lifo()
push_local_lifo(th, t) == local' = [local EXCEPT ![th] = <<t>> \o @]

\* The caller of schedule is a worker: the task goes on its own queue.
push_local(th, t) == local' = [local EXCEPT ![th] = Append(@, t)]

\* The poll, or the closure it runs in place, spawns u or wakes it.
PollSchedule(th, u) ==
    /\ pc[th] \in {"poll", "blocking"}
    /\ \/ /\ phase[u] \in {"fresh", "idle"}
          /\ phase' = [phase EXCEPT ![u] = "queued"]
          /\ push_local(th, u)
       \/ /\ phase[u] = "running"
          /\ phase' = [phase EXCEPT ![u] = "rerun"]
          /\ UNCHANGED local
    /\ UNCHANGED <<injector, index, retired, pc, cur, offset, parity, shutdown,
                   panicked>>

\* Ready, a panic or an abort.
PollReady(th) ==
    /\ pc[th] = "poll"
    /\ phase' = [phase EXCEPT ![cur[th]] = "done"]
    /\ cur' = [cur EXCEPT ![th] = NoTask]
    /\ Goto(th, "after")
    /\ UNCHANGED <<injector, local, index, retired, offset, parity, shutdown,
                   panicked>>

\* Mutant: end_poll's answer is ignored.
PollPendingNoRequeue(th) ==
    /\ pc[th] = "poll"
    /\ phase' = [phase EXCEPT ![cur[th]] = "idle"]
    /\ cur' = [cur EXCEPT ![th] = NoTask]
    /\ Goto(th, "after")
    /\ UNCHANGED <<injector, local, index, retired, offset, parity, shutdown,
                   panicked>>

\* Pending; a task woken meanwhile is scheduled again by this thread.
PollPending(th) ==
    /\ pc[th] = "poll"
    /\ \/ /\ phase[cur[th]] = "running"
          /\ phase' = [phase EXCEPT ![cur[th]] = "idle"]
          /\ UNCHANGED local
       \/ /\ phase[cur[th]] = "rerun"
          /\ phase' = [phase EXCEPT ![cur[th]] = "queued"]
          /\ push_local(th, cur[th])
    /\ cur' = [cur EXCEPT ![th] = NoTask]
    /\ Goto(th, "after")
    /\ UNCHANGED <<injector, index, retired, offset, parity, shutdown, panicked>>

\* Mutant: RETIRED is not set.
BlockInPlaceStays(th) ==
    /\ pc[th] = "poll"
    /\ \E new \in Threads :
          /\ pc[new] = "unborn"
          /\ index' = [index EXCEPT ![new] = index[th]]
          /\ pc' = [pc EXCEPT ![th] = "blocking", ![new] = "check"]
    /\ UNCHANGED <<phase, injector, local, retired, cur, offset, parity, shutdown,
                   panicked>>

\* block_in_place: the first call of a thread starts a replacement, which has
\* the same index and an empty queue, and marks the thread retired.
BlockInPlace(th) ==
    /\ pc[th] = "poll"
    /\ \/ /\ th \in retired
          /\ Goto(th, "blocking")
          /\ UNCHANGED <<index, retired>>
       \/ /\ th \notin retired
          /\ \E new \in Threads :
                /\ pc[new] = "unborn"
                /\ index' = [index EXCEPT ![new] = index[th]]
                /\ pc' = [pc EXCEPT ![th] = "blocking", ![new] = "check"]
          /\ retired' = retired \cup {th}
    /\ UNCHANGED <<phase, injector, local, cur, offset, parity, shutdown, panicked>>

\* The closure returns.
Unblock(th) ==
    /\ pc[th] = "blocking"
    /\ Goto(th, "poll")
    /\ UNCHANGED <<phase, injector, local, index, retired, cur, offset, parity,
                   shutdown, panicked>>

------------------------------------------------------------------------------
(* Threads that are not workers of this runtime *)

\* WORKER_INDEX is None: a thread of the application, the reactor, the timer.
ScheduleOutside(u) ==
    /\ \/ /\ phase[u] \in {"fresh", "idle"}
          /\ phase' = [phase EXCEPT ![u] = "queued"]
          /\ injector' = Append(injector, u)
       \/ /\ phase[u] = "running"
          /\ phase' = [phase EXCEPT ![u] = "rerun"]
          /\ UNCHANGED injector
    /\ UNCHANGED <<local, index, retired, pc, cur, offset, parity, shutdown,
                   panicked>>

\* A thread inside block_on of a current-thread runtime: enter_as_worker has set
\* WORKER_INDEX, so schedule takes the path of a worker, but the thread has no
\* LOCAL_QUEUE and push_local panics after the task was marked QUEUED.
ScheduleGuest(u) ==
    /\ \/ /\ phase[u] \in {"fresh", "idle"}
          /\ phase' = [phase EXCEPT ![u] = "queued"]
          /\ panicked' = TRUE
       \/ /\ phase[u] = "running"
          /\ phase' = [phase EXCEPT ![u] = "rerun"]
          /\ UNCHANGED panicked
    /\ UNCHANGED <<injector, local, index, retired, pc, cur, offset, parity,
                   shutdown>>

\* Runtime::stop_scheduling_and_reactor: the hard flag.
Shutdown ==
    /\ ~shutdown
    /\ shutdown' = TRUE
    /\ UNCHANGED <<phase, injector, local, index, retired, pc, cur, offset,
                   parity, panicked>>

------------------------------------------------------------------------------
Init ==
    /\ phase = [t \in Tasks |-> "fresh"]
    /\ injector = <<>>
    /\ local = [th \in Threads |-> <<>>]
    /\ index = [th \in Threads |->
                   IF \E i \in Indices : First[i] = th
                   THEN CHOOSE i \in Indices : First[i] = th ELSE -1]
    /\ retired = {}
    /\ pc = [th \in Threads |->
                   IF \E i \in Indices : First[i] = th THEN "check" ELSE "unborn"]
    /\ cur = [th \in Threads |-> NoTask]
    /\ offset = [th \in Threads |-> 1]
    /\ parity = [i \in Indices |-> 0]
    /\ shutdown = FALSE
    /\ panicked = FALSE

\* One turn of the loop in worker::run, outside the poll.
Loop(th) ==
    \/ Check(th) \/ PopLocal(th) \/ StealInjector(th) \/ StealSibling(th)
    \/ Park(th) \/ Unpark(th) \/ After(th) \/ Drain(th)

PollReturn(th) == PollReady(th) \/ PollPending(th)

Next ==
    \/ \E th \in Threads : \/ Loop(th) \/ PollReturn(th)
                           \/ BlockInPlace(th) \/ Unblock(th)
                           \/ \E u \in Tasks : PollSchedule(th, u)
    \/ \E u \in Tasks : ScheduleOutside(u)
    \/ Shutdown

Spec == Init /\ [][Next]_vars

\* The same pool in a program that also runs a current-thread runtime.
GuestSpec == Init /\ [][Next \/ \E u \in Tasks : ScheduleGuest(u)]_vars

\* A worker thread keeps executing and every poll returns.  The closure given
\* to block_in_place need not return, and nobody is obliged to wake a task.
Fairness == \A th \in Threads : WF_vars(Loop(th)) /\ WF_vars(PollReturn(th))

FairSpec == Spec /\ Fairness

------------------------------------------------------------------------------
(* Properties *)

TypeOK ==
    /\ phase \in [Tasks -> Phases]
    /\ injector \in Seq(Tasks)
    /\ local \in [Threads -> Seq(Tasks)]
    /\ index \in [Threads -> Indices \cup {-1}]
    /\ retired \subseteq Threads
    /\ pc \in [Threads -> Labels]
    /\ cur \in [Threads -> Tasks \cup {NoTask}]
    /\ offset \in [Threads -> 1 .. N]
    /\ parity \in [Indices -> {0, 1}]
    /\ shutdown \in BOOLEAN /\ panicked \in BOOLEAN

In(t, q) == \E k \in DOMAIN q : q[k] = t
Distinct(q) == \A j, k \in DOMAIN q : q[j] = q[k] => j = k

Polling(th) == pc[th] \in {"poll", "blocking"}

\* No task is lost or duplicated as the queues exchange them: a task is queued
\* exactly when one place of one queue holds it, and running exactly when one
\* worker polls it, through batch steals, block_in_place and the retirement
\* drain of worker::run.
ConservedTasks ==
    /\ Distinct(injector)
    /\ \A th \in Threads : Distinct(local[th])
    /\ \A t \in Tasks :
          /\ \A th \in Threads : ~(In(t, injector) /\ In(t, local[th]))
          /\ \A th1, th2 \in Threads :
                In(t, local[th1]) /\ In(t, local[th2]) => th1 = th2
          /\ phase[t] = "queued" <=>
                In(t, injector) \/ \E th \in Threads : In(t, local[th])
          /\ phase[t] \in {"running", "rerun"} <=>
                \E th \in Threads : Polling(th) /\ cur[th] = t
          /\ \A th1, th2 \in Threads :
                Polling(th1) /\ Polling(th2) /\ cur[th1] = t /\ cur[th2] = t
                    => th1 = th2

\* The thread of index i that block_in_place has not replaced.
Serves(th, i) == index[th] = i /\ th \notin retired /\ pc[th] # "unborn"

\* However often block_in_place is called, every worker index has one thread
\* that serves it, and before shutdown that thread has not exited ("instead of
\* looping back to service the same idx a second, redundant time").
OneServerPerIndex ==
    \A i \in Indices :
        /\ \E th \in Threads : Serves(th, i) /\ (pc[th] = "exited" => shutdown)
        /\ \A th1, th2 \in Threads : Serves(th1, i) /\ Serves(th2, i) => th1 = th2

\* A thread exits with tasks in its queue only if the runtime was shut down: the
\* retirement drain leaves nothing behind ("would otherwise just be silently
\* dropped too").
NoneAbandoned ==
    \A th \in Threads :
        pc[th] \in {"unborn", "exited"} => local[th] = <<>> \/ shutdown

\* "An odd value means the worker is currently parked, even means active": true
\* of every index even while a retiring thread and its replacement share it.
ParkParity ==
    \A i \in Indices :
        parity[i] = 1 <=> \E th \in Threads : index[th] = i /\ pc[th] = "parked"

\* The thread-local queue push_local uses "is guaranteed to already be populated".
LocalQueueInstalled == ~panicked

Lifecycle == INSTANCE TaskLifecycle

\* The queues are an implementation of the life of a task: in particular a task
\* woken while it runs is queued again, by whichever thread polled it.
ImplementsLifecycle == Lifecycle!Spec

Blocked == \E th \in Threads : pc[th] = "blocking"

\* The local queues are FIFO "giving it the turn yield_now's own contract
\* promises": a task in one of them is polled in the end, however often the
\* others yield, unless a closure blocks in place or the runtime is shut down;
\* a retiring thread may pass it on to the injector.
LocalQueueServed ==
    \A t \in Tasks :
        (\E th \in Threads : In(t, local[th]))
            ~> (phase[t] # "queued" \/ In(t, injector) \/ Blocked \/ shutdown)

\* The injector is looked at only by a worker whose own queue is empty; as long
\* as that happens again and again, no task stays in it for ever.
InjectorServed ==
    \A t \in Tasks :
        []<>(\E th \in Threads : pc[th] = "inject")
            => []<>(~In(t, injector) \/ shutdown)
=============================================================================
