---------------------------- MODULE BlockingPool -----------------------------
(***************************************************************************)
(* The thread pool behind spawn_blocking (runtime/blocking.rs).  Pool      *)
(* threads and wait_for_drain sleep on one condvar; a critical section of  *)
(* the queue's lock is one step, and what is done without the lock         *)
(* (notifying, growing, the count, the shutdown flag) is a step of its own.*)
(***************************************************************************)
EXTENDS Naturals, Sequences, FiniteSets, Functions

CONSTANTS
    Jobs,           \* the closures that are spawned, each by a thread of its own
    Slots,          \* names for the pool threads that exist at a time
    max_threads     \* the cap

VARIABLES
    queue, shutdown, live_threads,      \* fields of Inner
    job,            \* of each closure: "no", "pushed", "grow", "queued" (spawn is over), "done"
    thread,         \* of each slot: where worker_loop is
    running,        \* the jobs in the hands of pool threads
    notified,       \* sleepers on the condvar a notify has reached
    drain,          \* the caller of shutdown
    stranded        \* history: a spawn at the cap found every thread on its way out

vars == <<queue, shutdown, live_threads, job, thread, running, notified, drain, stranded>>

Drainer == "drainer"

Init ==
    /\ max_threads > 0
    /\ queue = <<>> /\ shutdown = FALSE /\ live_threads = 0
    /\ job = [j \in Jobs |-> "no"] /\ thread = [t \in Slots |-> "none"]
    /\ running = {} /\ notified = {} /\ drain = "idle" /\ stranded = FALSE

Waiting == {t \in Slots : thread[t] = "wait"}
           \cup (IF drain = "wait" THEN {Drainer} ELSE {})

\* Names no thread has; one is as good as another.
Unused == {t \in Slots : thread[t] = "none"}

NotifyAll == notified' = notified \cup Waiting
NotifyOne ==
    IF Waiting \subseteq notified THEN UNCHANGED notified
    ELSE \E x \in Waiting \ notified : notified' = notified \cup {x}

------------------------------------------------------------------------------
(* spawn *)

Push(j) ==
    /\ job[j] = "no"
    /\ job' = [job EXCEPT ![j] = "pushed"]
    /\ queue' = Append(queue, j)
    /\ UNCHANGED <<shutdown, live_threads, thread, running, notified, drain, stranded>>

SpawnNotify(j) ==
    /\ job[j] = "pushed"
    /\ job' = [job EXCEPT ![j] = "grow"]
    /\ NotifyOne
    /\ UNCHANGED <<queue, shutdown, live_threads, thread, running, drain, stranded>>

\* Mutant: the cap is tested with > instead of >=.
GrowIfNeededPastCap(j) ==
    /\ job[j] = "grow"
    /\ job' = [job EXCEPT ![j] = "queued"]
    /\ \/ /\ live_threads <= max_threads
          /\ live_threads' = live_threads + 1
          /\ Unused # {} /\ thread' = [thread EXCEPT ![CHOOSE t \in Unused : TRUE] = "loop"]
          /\ UNCHANGED stranded
       \/ live_threads > max_threads /\ UNCHANGED <<live_threads, thread, stranded>>
    /\ UNCHANGED <<queue, shutdown, running, notified, drain>>

\* grow_if_needed: the exchange of the count and the start of the thread.
GrowIfNeeded(j) ==
    /\ job[j] = "grow"
    /\ job' = [job EXCEPT ![j] = "queued"]
    /\ \/ /\ live_threads < max_threads
          /\ live_threads' = live_threads + 1
          /\ Unused # {} /\ thread' = [thread EXCEPT ![CHOOSE t \in Unused : TRUE] = "loop"]
          /\ UNCHANGED stranded
       \/ /\ live_threads >= max_threads
          /\ stranded' = (stranded \/ \A t \in Slots : thread[t] \in {"none", "leave", "left"})
          /\ UNCHANGED <<live_threads, thread>>
    /\ UNCHANGED <<queue, shutdown, running, notified, drain>>

------------------------------------------------------------------------------
(* worker_loop *)

\* What the inner loop does with the lock: pop, or leave, or wait.
Look(t, empty) ==
    \/ /\ queue # <<>>
       /\ queue' = Tail(queue)
       /\ running' = running \cup {Head(queue)}
       /\ thread' = [thread EXCEPT ![t] = "run"]
    \/ /\ queue = <<>>
       /\ thread' = [thread EXCEPT ![t] = empty]
       /\ UNCHANGED <<queue, running>>

\* Mutant: shutdown is looked at before the queue.
TakeUnlessShutdown(t) ==
    /\ thread[t] = "loop"
    /\ \/ ~shutdown /\ Look(t, "wait")
       \/ /\ shutdown /\ thread' = [thread EXCEPT ![t] = "leave"]
          /\ UNCHANGED <<queue, running>>
    /\ UNCHANGED <<shutdown, live_threads, job, notified, drain, stranded>>

Take(t) ==
    /\ thread[t] = "loop"
    /\ Look(t, IF shutdown THEN "leave" ELSE "wait")
    /\ UNCHANGED <<shutdown, live_threads, job, notified, drain, stranded>>

\* wait_timeout returns because of a notify: round the inner loop again.
WakeUp(t) ==
    /\ thread[t] = "wait" /\ t \in notified
    /\ thread' = [thread EXCEPT ![t] = "loop"]
    /\ notified' = notified \ {t}
    /\ UNCHANGED <<queue, shutdown, live_threads, job, running, drain, stranded>>

\* It returns because idle_timeout is over: leave if the queue is (still) empty.
IdleOut(t) ==
    /\ thread[t] = "wait" /\ t \notin notified
    /\ Look(t, "leave")
    /\ UNCHANGED <<shutdown, live_threads, job, notified, drain, stranded>>

\* job()
RunJob(t) ==
    /\ thread[t] = "run"
    /\ \E j \in running :
         /\ running' = running \ {j}
         /\ job' = [job EXCEPT ![j] = IF @ = "queued" THEN "done" ELSE @]
    /\ thread' = [thread EXCEPT ![t] = "loop"]
    /\ UNCHANGED <<queue, shutdown, live_threads, notified, drain, stranded>>

\* The count, then notify_all, without the lock.
Leave(t) ==
    /\ \/ /\ thread[t] = "leave"
          /\ live_threads' = live_threads - 1
          /\ thread' = [thread EXCEPT ![t] = "left"]
          /\ UNCHANGED notified
       \/ /\ thread[t] = "left"
          /\ NotifyAll
          /\ thread' = [thread EXCEPT ![t] = "none"]
          /\ UNCHANGED live_threads
    /\ UNCHANGED <<queue, shutdown, job, running, drain, stranded>>

------------------------------------------------------------------------------
(* shutdown *)

\* signal_shutdown: the flag, then notify_all, without the lock.
SignalShutdown ==
    /\ \/ drain = "idle" /\ shutdown' = TRUE /\ drain' = "signal" /\ UNCHANGED notified
       \/ drain = "signal" /\ drain' = "check" /\ NotifyAll /\ UNCHANGED shutdown
    /\ UNCHANGED <<queue, live_threads, job, thread, running, stranded>>

\* wait_for_drain: done at zero, else wait 50 ms at most; with a deadline it may
\* give up ("left" to itself).
WaitForDrain ==
    /\ \/ /\ drain = "check"
          /\ drain' = IF live_threads = 0 THEN "drained" ELSE "wait"
          /\ UNCHANGED notified
       \/ drain = "wait" /\ drain' = "check" /\ notified' = notified \ {Drainer}
       \/ drain = "check" /\ live_threads > 0 /\ drain' = "timedout" /\ UNCHANGED notified
    /\ UNCHANGED <<queue, shutdown, live_threads, job, thread, running, stranded>>

ThreadStep(t) == Take(t) \/ WakeUp(t) \/ IdleOut(t) \/ RunJob(t) \/ Leave(t)
EndSpawn(j) == SpawnNotify(j) \/ GrowIfNeeded(j)
SpawnStep(j) == Push(j) \/ EndSpawn(j)
EndSignal == drain # "idle" /\ SignalShutdown

Next ==
    \/ \E j \in Jobs : SpawnStep(j)
    \/ \E t \in Slots : ThreadStep(t)
    \/ SignalShutdown \/ WaitForDrain

\* Pool threads run, idle ones time out in the end, and a spawn that began ends.
Fairness ==
    /\ \A t \in Slots : WF_vars(ThreadStep(t))
    /\ \A j \in Jobs : WF_vars(EndSpawn(j))
    /\ WF_vars(EndSignal) /\ WF_vars(WaitForDrain)

------------------------------------------------------------------------------
(* Properties *)

Alive == {t \in Slots : thread[t] \notin {"none", "left"}}
Taken(j) == j \in running \/ j \in Range(queue)

\* The count is the number of threads that have not left, never above the cap;
\* a job is in one place, and drained, the pool has no job in hand, and none
\* queued that was there when the last thread looked.
PoolAccounts ==
    /\ live_threads = Cardinality(Alive) /\ live_threads <= max_threads
    /\ Cardinality(running) = Cardinality({t \in Slots : thread[t] = "run"})
    /\ Cardinality(running) + Len(queue) = Cardinality({j \in Jobs : Taken(j)})
    /\ drain = "drained" /\ ~stranded =>
         \A j \in Range(queue) : job[j] # "queued" \/ Alive # {}

\* A queued job whose spawn is over has a thread that will look at the queue.
JobServed(j) ==
    job[j] = "queued" /\ j \in Range(queue) =>
        \E t \in Slots : thread[t] \in {"loop", "run", "wait"}

\* "Threads are grown lazily (one per queued job, up to a cap)": at the cap no job
\* may be left to threads that are all on their way out.
NoJobStranded == \A j \in Jobs : JobServed(j)
NoOtherJobStranded == stranded \/ NoJobStranded

Queued(j) == job[j] = "queued"
Run(j) == ~Taken(j) \/ stranded
Draining == drain = "signal"
Drained == drain \in {"drained", "timedout"}

==============================================================================
