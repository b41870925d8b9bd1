-------------------------------- MODULE Task --------------------------------
(***************************************************************************)
(* A spawned task of the runtime: the atomic state byte of task/state.rs,  *)
(* Task::run of task/mod.rs, and the JoinInner of task/join.rs, at the     *)
(* granularity of one atomic operation or one critical section per step.   *)
(*                                                                         *)
(* The run queues are abstracted to the number of references to each task  *)
(* they hold.  A worker dequeues a task and runs it; other threads call    *)
(* wake() on a waker, or abort() on a handle, at any point of the run.     *)
(* The boxed future is abstracted to what it may do in one poll: hand out  *)
(* its waker, then return Ready, return Pending, or panic.                 *)
(***************************************************************************)
EXTENDS Integers, FiniteSets

CONSTANTS
    Tasks,          \* the tasks that may be spawned
    Workers,        \* worker threads, which call Task::run
    Wakers,         \* threads that call Waker::wake
    Aborters,       \* threads that call JoinHandle::abort / AbortHandle::abort
    ForgetWakers,   \* TRUE: a waker may be dropped without being woken
    NoTask          \* cur[th] of a thread that is in no call on any task

Threads == Workers \cup Wakers \cup Aborters

ASSUME ThreadsAssumption ==
    /\ Workers \cap (Wakers \cup Aborters) = {}
    /\ NoTask \notin Tasks
    /\ ForgetWakers \in BOOLEAN

VARIABLES
    state,      \* Task::state, the set of bits that are on
    future,     \* Task::future: is a future in the slot
    hook,       \* Task::abnormal_hook: is the hook still there
    join,       \* JoinInner::state
    result,     \* the result stored in JoinState::Done
    finished,   \* JoinInner::finished
    joiner,     \* what the task that awaits the JoinHandle is doing
    spawn,      \* progress of spawn_named
    active,     \* Shared::active_tasks
    queue,      \* references to the task held by run queues
    waker,      \* somebody outside the task holds a clone of its waker
    pc, cur,    \* program counter and task of each thread
    seen,       \* the state byte the thread loaded last
    out,        \* how the run in progress ended
    owed,       \* history: a wake() came after the last poll began
    abortReq    \* history: abort() was called on the task

vars == <<state, future, hook, join, result, finished, joiner, spawn,
          active, queue, waker, pc, cur, seen, out, owed, abortReq>>

joinVars == <<join, result, finished, joiner>>
threadVars == <<pc, cur, seen, out>>
histVars == <<owed, abortReq>>

Bits == {"QUEUED", "RUNNING", "NOTIFIED", "COMPLETE", "ABORTED"}
Outcomes == {"none", "ok", "cancelled", "panicked"}
Labels == {"idle", "begin_load", "begin_cas", "dead", "drop_unpolled",
           "check_aborted", "take", "poll", "end_load", "end_cas",
           "set_complete", "clear_running", "fire_hook", "finish_state",
           "finish_flag", "finish_wake", "wake_joiner", "mark_finished",
           "abort_load", "wake_cas", "push"}

(* What the operations of State compute from the byte they loaded *)

\* State::begin_poll
BeginByte(s) == (s \ {"QUEUED", "NOTIFIED"}) \cup {"RUNNING"}

\* Mutant: a wake noted during the poll is forgotten.
EndByteForgets(s) == s \ {"RUNNING", "NOTIFIED"}

\* State::end_poll(false)
EndByte(s) ==
    IF "NOTIFIED" \in s THEN (s \ {"RUNNING", "NOTIFIED"}) \cup {"QUEUED"}
                        ELSE s \ {"RUNNING"}

\* Mutants: QUEUED is not tested; a wake of a running task is not recorded.
WakeIsNoOpUntested(s) == "COMPLETE" \in s \/ {"RUNNING", "NOTIFIED"} \subseteq s
WakeIsNoOpRunning(s) == s \cap {"COMPLETE", "RUNNING", "QUEUED"} # {}

\* State::wake returns NoOp without an exchange on these bytes ...
WakeIsNoOp(s) ==
    \/ "COMPLETE" \in s
    \/ {"RUNNING", "NOTIFIED"} \subseteq s
    \/ "RUNNING" \notin s /\ "QUEUED" \in s

\* Mutant: a running task is marked QUEUED.
WakeByteQueued(s) == s \cup {"QUEUED"}

\* ... and exchanges the others.
WakeByte(s) == s \cup {IF "RUNNING" \in s THEN "NOTIFIED" ELSE "QUEUED"}

------------------------------------------------------------------------------
Goto(th, label) == pc' = [pc EXCEPT ![th] = label]

\* The call is over and its locals are gone.
Return(th) ==
    /\ Goto(th, "idle")
    /\ cur' = [cur EXCEPT ![th] = NoTask]
    /\ seen' = [seen EXCEPT ![th] = {}]
    /\ out' = [out EXCEPT ![th] = "none"]

\* The Arc<Task> has a strong reference left: in a run queue, in a waker, or
\* in the frame of a thread that is in a call on the task.
Alive(t) ==
    \/ waker[t]
    \/ queue[t] > 0
    \/ spawn[t] = "counted"
    \/ \E th \in Threads : cur[th] = t /\ pc[th] # "dead"

------------------------------------------------------------------------------
(* spawn_named *)

\* shared.task_spawned(): the task is counted before anything can run it.
SpawnCount(t) ==
    /\ spawn[t] = "no"
    /\ spawn' = [spawn EXCEPT ![t] = "counted"]
    /\ active' = active + 1
    /\ UNCHANGED <<state, future, hook, joinVars, queue, waker, threadVars,
                   histVars>>

\* shared.schedule(task): the task starts life QUEUED and goes on a queue.
SpawnSchedule(t) ==
    /\ spawn[t] = "counted"
    /\ spawn' = [spawn EXCEPT ![t] = "done"]
    /\ queue' = [queue EXCEPT ![t] = @ + 1]
    /\ UNCHANGED <<state, future, hook, joinVars, active, waker, threadVars,
                   histVars>>

------------------------------------------------------------------------------
(* Task::run, called by a worker that has just popped the task *)

\* Mutant: a task is popped from an empty queue.
DequeueUnguarded(w, t) ==
    /\ pc[w] = "idle"
    /\ queue' = [queue EXCEPT ![t] = @ - 1]
    /\ Goto(w, "begin_load")
    /\ cur' = [cur EXCEPT ![w] = t]
    /\ UNCHANGED <<state, future, hook, joinVars, spawn, active, waker, seen,
                   out, histVars>>

Dequeue(w, t) ==
    /\ pc[w] = "idle"
    /\ queue[t] > 0
    /\ queue' = [queue EXCEPT ![t] = @ - 1]
    /\ Goto(w, "begin_load")
    /\ cur' = [cur EXCEPT ![w] = t]
    /\ UNCHANGED <<state, future, hook, joinVars, spawn, active, waker, seen,
                   out, histVars>>

\* State::begin_poll loads the byte ...
BeginLoad(w) ==
    /\ pc[w] = "begin_load"
    /\ seen' = [seen EXCEPT ![w] = state[cur[w]]]
    /\ Goto(w, "begin_cas")
    /\ UNCHANGED <<state, future, hook, joinVars, spawn, active, queue, waker,
                   cur, out, histVars>>

\* ... and exchanges it once; a failed exchange is an expect() that panics,
\* outside the catch_unwind of run, and takes the worker thread down.
BeginCas(w) ==
    LET t == cur[w]
        exchanged == state[t] = seen[w]
    IN  /\ pc[w] = "begin_cas"
        /\ state' = IF exchanged
                    THEN [state EXCEPT ![t] = BeginByte(@)]
                    ELSE state
        /\ owed' = IF exchanged THEN [owed EXCEPT ![t] = FALSE] ELSE owed
        /\ Goto(w, IF ~exchanged THEN "dead"
                   ELSE IF "ABORTED" \in seen[w] THEN "drop_unpolled"
                   ELSE "check_aborted")
        /\ UNCHANGED <<future, hook, joinVars, spawn, active, queue, waker, cur,
                       seen, out, abortReq>>

\* begin_poll returned false: the future is dropped, end_poll is not called.
DropUnpolled(w) ==
    /\ pc[w] = "drop_unpolled"
    /\ future' = [future EXCEPT ![cur[w]] = FALSE]
    /\ out' = [out EXCEPT ![w] = "cancelled"]
    /\ Goto(w, "fire_hook")
    /\ UNCHANGED <<state, hook, joinVars, spawn, active, queue, waker, cur,
                   seen, histVars>>

\* Mutant: the byte is not looked at again after begin_poll.
CheckAbortedSkipped(w) ==
    /\ pc[w] = "check_aborted"
    /\ Goto(w, "take")
    /\ UNCHANGED <<state, future, hook, joinVars, spawn, active, queue, waker, cur,
                   seen, out, histVars>>

\* if self.state.is_aborted(): the future is dropped, end_poll(true) follows.
CheckAborted(w) ==
    LET aborted == "ABORTED" \in state[cur[w]]
    IN  /\ pc[w] = "check_aborted"
        /\ future' = IF aborted THEN [future EXCEPT ![cur[w]] = FALSE] ELSE future
        /\ out' = IF aborted THEN [out EXCEPT ![w] = "cancelled"] ELSE out
        /\ Goto(w, IF aborted THEN "set_complete" ELSE "take")
        /\ UNCHANGED <<state, hook, joinVars, spawn, active, queue, waker, cur,
                       seen, histVars>>

\* slot.take(), with the defensive path for an empty slot.
TakeFuture(w) ==
    LET present == future[cur[w]]
    IN  /\ pc[w] = "take"
        /\ future' = [future EXCEPT ![cur[w]] = FALSE]
        /\ out' = IF present THEN out ELSE [out EXCEPT ![w] = "cancelled"]
        /\ Goto(w, IF present THEN "poll" ELSE "set_complete")
        /\ UNCHANGED <<state, hook, joinVars, spawn, active, queue, waker, cur,
                       seen, histVars>>

\* In the course of a poll the future stores a clone of its waker somewhere.
PollRegister(w) ==
    /\ pc[w] = "poll"
    /\ ~waker[cur[w]]
    /\ waker' = [waker EXCEPT ![cur[w]] = TRUE]
    /\ UNCHANGED <<state, future, hook, joinVars, spawn, active, queue,
                   threadVars, histVars>>

\* The user's future is ready, so the wrapper goes on to JoinInner::complete.
PollReady(w) ==
    /\ pc[w] = "poll"
    /\ out' = [out EXCEPT ![w] = "ok"]
    /\ Goto(w, "finish_state")
    /\ UNCHANGED <<state, future, hook, joinVars, spawn, active, queue, waker,
                   cur, seen, histVars>>

\* Pending: the future goes back into the slot before end_poll(false).  A
\* future that never forgets its waker has left it somewhere, or has been
\* woken already.
PollPending(w) ==
    /\ pc[w] = "poll"
    /\ ForgetWakers \/ waker[cur[w]] \/ owed[cur[w]]
    /\ future' = [future EXCEPT ![cur[w]] = TRUE]
    /\ Goto(w, "end_load")
    /\ UNCHANGED <<state, hook, joinVars, spawn, active, queue, waker, cur,
                   seen, out, histVars>>

\* catch_unwind caught a panic of the future.
PollPanic(w) ==
    /\ pc[w] = "poll"
    /\ future' = [future EXCEPT ![cur[w]] = FALSE]
    /\ out' = [out EXCEPT ![w] = "panicked"]
    /\ Goto(w, "set_complete")
    /\ UNCHANGED <<state, hook, joinVars, spawn, active, queue, waker, cur,
                   seen, histVars>>

\* State::end_poll(false): load, then exchange until it succeeds.
EndLoad(w) ==
    /\ pc[w] = "end_load"
    /\ seen' = [seen EXCEPT ![w] = state[cur[w]]]
    /\ Goto(w, "end_cas")
    /\ UNCHANGED <<state, future, hook, joinVars, spawn, active, queue, waker,
                   cur, out, histVars>>

EndCas(w) ==
    LET t == cur[w]
    IN  /\ pc[w] = "end_cas"
        /\ UNCHANGED <<future, hook, joinVars, spawn, active, queue, waker, histVars>>
        /\ \/ /\ state[t] # seen[w]
              /\ seen' = [seen EXCEPT ![w] = state[t]]
              /\ UNCHANGED <<state, pc, cur, out>>
           \/ /\ state[t] = seen[w]
              /\ state' = [state EXCEPT ![t] = EndByte(@)]
              /\ IF "NOTIFIED" \in seen[w] THEN Goto(w, "push") /\ UNCHANGED <<cur, seen, out>>
                                           ELSE Return(w)

\* State::end_poll(true) is two separate read-modify-writes.
SetComplete(w) ==
    /\ pc[w] = "set_complete"
    /\ state' = [state EXCEPT ![cur[w]] = @ \cup {"COMPLETE"}]
    /\ Goto(w, "clear_running")
    /\ UNCHANGED <<future, hook, joinVars, spawn, active, queue, waker, cur,
                   seen, out, histVars>>

ClearRunning(w) ==
    /\ pc[w] = "clear_running"
    /\ state' = [state EXCEPT ![cur[w]] = @ \ {"RUNNING"}]
    /\ Goto(w, "fire_hook")
    /\ UNCHANGED <<future, hook, joinVars, spawn, active, queue, waker, cur,
                   seen, out, histVars>>

\* Mutant: an abort that arrived during the last poll overrides the result.
FireHookOnAbort(w) ==
    LET t == cur[w]
        late == "ABORTED" \in state[t]
    IN  /\ pc[w] = "fire_hook"
        /\ hook' = [hook EXCEPT ![t] = FALSE]
        /\ out' = [out EXCEPT ![w] = IF late THEN "cancelled" ELSE @]
        /\ Goto(w, IF hook[t] /\ (late \/ out[w] # "ok") THEN "finish_state" ELSE "mark_finished")
        /\ UNCHANGED <<state, future, joinVars, spawn, active, queue, waker, cur,
                       seen, histVars>>

\* The hook is taken either way: after a normal end it is only dropped, after
\* an abnormal one it runs JoinInner::finish_abnormal.
FireHook(w) ==
    LET t == cur[w]
    IN  /\ pc[w] = "fire_hook"
        /\ hook' = [hook EXCEPT ![t] = FALSE]
        /\ Goto(w, IF hook[t] /\ out[w] # "ok" THEN "finish_state" ELSE "mark_finished")
        /\ UNCHANGED <<state, future, joinVars, spawn, active, queue, waker, cur,
                       seen, out, histVars>>

\* Mutant: the waker found in JoinState::Waiting is dropped.
FinishStateSilent(w) ==
    LET t == cur[w]
    IN  /\ pc[w] = "finish_state"
        /\ join' = [join EXCEPT ![t] = "Done"]
        /\ result' = [result EXCEPT ![t] = out[w]]
        /\ Goto(w, "finish_flag")
        /\ UNCHANGED <<state, future, hook, finished, joiner, spawn, active,
                       queue, waker, cur, seen, out, histVars>>

\* JoinInner::finish: replace the state under its lock ...
FinishState(w) ==
    LET t == cur[w]
    IN  /\ pc[w] = "finish_state"
        /\ join' = [join EXCEPT ![t] = "Done"]
        /\ result' = [result EXCEPT ![t] = out[w]]
        /\ Goto(w, IF join[t] = "Waiting" THEN "finish_wake" ELSE "finish_flag")
        /\ UNCHANGED <<state, future, hook, finished, joiner, spawn, active,
                       queue, waker, cur, seen, out, histVars>>

\* ... store the flag, and wake the waker that was waiting, if one was.
AfterFinish(w) == IF out[w] = "ok" THEN "set_complete" ELSE "mark_finished"

FinishFlag(w) ==
    /\ pc[w] \in {"finish_flag", "finish_wake"}
    /\ finished' = [finished EXCEPT ![cur[w]] = TRUE]
    /\ Goto(w, IF pc[w] = "finish_wake" THEN "wake_joiner" ELSE AfterFinish(w))
    /\ UNCHANGED <<state, future, hook, join, result, joiner, spawn, active,
                   queue, waker, cur, seen, out, histVars>>

WakeJoiner(w) ==
    /\ pc[w] = "wake_joiner"
    /\ joiner' = [joiner EXCEPT ![cur[w]] = "woken"]
    /\ Goto(w, AfterFinish(w))
    /\ UNCHANGED <<state, future, hook, join, result, finished, spawn, active,
                   queue, waker, cur, seen, out, histVars>>

\* Mutant: an aborted task stays counted.
MarkFinishedUnlessAborted(w) ==
    /\ pc[w] = "mark_finished"
    /\ active' = IF out[w] = "cancelled" THEN active ELSE active - 1
    /\ Return(w)
    /\ UNCHANGED <<state, future, hook, joinVars, spawn, queue, waker, histVars>>

\* shared.task_finished()
MarkFinished(w) ==
    /\ pc[w] = "mark_finished"
    /\ active' = active - 1
    /\ Return(w)
    /\ UNCHANGED <<state, future, hook, joinVars, spawn, queue, waker, histVars>>

------------------------------------------------------------------------------
(* wake() and abort(), called by any thread *)

\* Task::wake_by_ref through a waker.  The clone may be the last one (wake by
\* value), or others may remain.  State::wake begins by loading the byte.
WakeLoad(th, t) ==
    /\ pc[th] = "idle"
    /\ waker[t]
    /\ \E others \in BOOLEAN : waker' = [waker EXCEPT ![t] = others]
    /\ seen' = [seen EXCEPT ![th] = state[t]]
    /\ owed' = [owed EXCEPT ![t] = TRUE]
    /\ cur' = [cur EXCEPT ![th] = t]
    /\ Goto(th, "wake_cas")
    /\ UNCHANGED <<state, future, hook, joinVars, spawn, active, queue, out,
                   abortReq>>

\* Mutant: the bit is set but an idle task is not scheduled to see it.
AbortOrSilent(th, t) ==
    /\ pc[th] = "idle"
    /\ spawn[t] = "done"
    /\ abortReq' = [abortReq EXCEPT ![t] = TRUE]
    /\ state' = IF Alive(t) THEN [state EXCEPT ![t] = @ \cup {"ABORTED"}] ELSE state
    /\ UNCHANGED <<future, hook, joinVars, spawn, active, queue, waker, pc, cur,
                   seen, out, owed>>

\* JoinHandle::abort.  The thunk upgrades a Weak, so it does nothing once the
\* task is gone; otherwise State::request_abort sets the bit.
AbortOr(th, t) ==
    /\ pc[th] = "idle"
    /\ spawn[t] = "done"
    /\ abortReq' = [abortReq EXCEPT ![t] = TRUE]
    /\ UNCHANGED <<future, hook, joinVars, spawn, active, queue, waker, seen,
                   out, owed>>
    /\ \/ /\ ~Alive(t)
          /\ UNCHANGED <<state, pc, cur>>
       \/ /\ Alive(t)
          /\ state' = [state EXCEPT ![t] = @ \cup {"ABORTED"}]
          /\ IF state[t] \cap {"COMPLETE", "ABORTED"} # {}
             THEN UNCHANGED <<pc, cur>>
             ELSE Goto(th, "abort_load") /\ cur' = [cur EXCEPT ![th] = t]

\* request_abort then calls State::wake, which loads the byte again.
AbortLoad(th) ==
    /\ pc[th] = "abort_load"
    /\ seen' = [seen EXCEPT ![th] = state[cur[th]]]
    /\ Goto(th, "wake_cas")
    /\ UNCHANGED <<state, future, hook, joinVars, spawn, active, queue, waker,
                   cur, out, histVars>>

\* One turn of the loop in State::wake on the byte loaded last.
WakeCas(th) ==
    LET t == cur[th]
    IN  /\ pc[th] = "wake_cas"
        /\ UNCHANGED <<future, hook, joinVars, spawn, active, queue, waker, histVars>>
        /\ \/ /\ WakeIsNoOp(seen[th])
              /\ Return(th)
              /\ UNCHANGED state
           \/ /\ ~WakeIsNoOp(seen[th])
              /\ state[t] # seen[th]
              /\ seen' = [seen EXCEPT ![th] = state[t]]
              /\ UNCHANGED <<state, pc, cur, out>>
           \/ /\ ~WakeIsNoOp(seen[th])
              /\ state[t] = seen[th]
              /\ state' = [state EXCEPT ![t] = WakeByte(@)]
              /\ IF "RUNNING" \in seen[th]
                 THEN Return(th)
                 ELSE Goto(th, "push") /\ UNCHANGED <<cur, seen, out>>

\* Task::schedule, by whoever won the right to enqueue the task.
Schedule(th) ==
    /\ pc[th] = "push"
    /\ queue' = [queue EXCEPT ![cur[th]] = @ + 1]
    /\ Return(th)
    /\ UNCHANGED <<state, future, hook, joinVars, spawn, active, waker, histVars>>

\* Whoever held the waker drops it without waking it.
DropWaker(t) ==
    /\ ForgetWakers
    /\ waker[t]
    /\ waker' = [waker EXCEPT ![t] = FALSE]
    /\ UNCHANGED <<state, future, hook, joinVars, spawn, active, queue,
                   threadVars, histVars>>

------------------------------------------------------------------------------
(* The JoinHandle, awaited by one task at a time *)

JoinPoll(t) ==
    /\ spawn[t] = "done"
    /\ \/ /\ join[t] \in {"Running", "Waiting"}
          /\ join' = [join EXCEPT ![t] = "Waiting"]
          /\ joiner' = [joiner EXCEPT ![t] = "asleep"]
       \/ /\ join[t] = "Done"
          /\ join' = [join EXCEPT ![t] = "Taken"]
          /\ joiner' = [joiner EXCEPT ![t] = "ready"]
    /\ UNCHANGED <<state, future, hook, result, finished, spawn, active, queue,
                   waker, threadVars, histVars>>

------------------------------------------------------------------------------
Init ==
    /\ state = [t \in Tasks |-> {"QUEUED"}]
    /\ future = [t \in Tasks |-> TRUE]
    /\ hook = [t \in Tasks |-> TRUE]
    /\ join = [t \in Tasks |-> "Running"]
    /\ result = [t \in Tasks |-> "none"]
    /\ finished = [t \in Tasks |-> FALSE]
    /\ joiner = [t \in Tasks |-> "away"]
    /\ spawn = [t \in Tasks |-> "no"]
    /\ active = 0
    /\ queue = [t \in Tasks |-> 0]
    /\ waker = [t \in Tasks |-> FALSE]
    /\ pc = [th \in Threads |-> "idle"]
    /\ cur = [th \in Threads |-> NoTask]
    /\ seen = [th \in Threads |-> {}]
    /\ out = [th \in Threads |-> "none"]
    /\ owed = [t \in Tasks |-> FALSE]
    /\ abortReq = [t \in Tasks |-> FALSE]

\* The steps of a worker once it has popped a task.
Run(w) ==
    \/ BeginLoad(w) \/ BeginCas(w) \/ DropUnpolled(w) \/ CheckAborted(w)
    \/ TakeFuture(w) \/ PollRegister(w) \/ PollReady(w) \/ PollPending(w)
    \/ PollPanic(w) \/ EndLoad(w) \/ EndCas(w) \/ SetComplete(w)
    \/ ClearRunning(w) \/ FireHook(w) \/ FinishState(w) \/ FinishFlag(w)
    \/ WakeJoiner(w) \/ MarkFinished(w)

PollReturn(w) == PollReady(w) \/ PollPending(w) \/ PollPanic(w)

\* The steps of a call of wake() or abort() once it has begun.
Call(th) == AbortLoad(th) \/ WakeCas(th) \/ Schedule(th)

Next ==
    \/ \E t \in Tasks : SpawnCount(t) \/ SpawnSchedule(t) \/ JoinPoll(t) \/ DropWaker(t)
    \/ \E w \in Workers : Run(w) \/ \E t \in Tasks : Dequeue(w, t)
    \/ \E th \in Wakers, t \in Tasks : WakeLoad(th, t)
    \/ \E th \in Aborters, t \in Tasks : AbortOr(th, t)
    \/ \E th \in Threads : Call(th)

Spec == Init /\ [][Next]_vars

\* A thread in the middle of run, wake or abort keeps executing, every poll
\* returns, and a queued task is popped in the end: module Scheduler says when
\* the queues grant that.  Nobody is obliged to call wake or abort.
Fairness ==
    /\ \A t \in Tasks : /\ WF_vars(SpawnSchedule(t))
                        /\ SF_vars(\E w \in Workers : Dequeue(w, t))
    /\ \A w \in Workers : WF_vars(Run(w)) /\ WF_vars(PollReturn(w))
    /\ \A th \in Threads : WF_vars(Call(th))

FairSpec == Spec /\ Fairness

------------------------------------------------------------------------------
(* Properties *)

Ended(t) == join[t] \in {"Done", "Taken"}
WorkerDied == \E w \in Workers : pc[w] = "dead"

TypeOK ==
    /\ state \in [Tasks -> SUBSET Bits]
    /\ future \in [Tasks -> BOOLEAN] /\ hook \in [Tasks -> BOOLEAN]
    /\ join \in [Tasks -> {"Running", "Waiting", "Done", "Taken"}]
    /\ result \in [Tasks -> Outcomes]
    /\ finished \in [Tasks -> BOOLEAN]
    /\ joiner \in [Tasks -> {"away", "asleep", "woken", "ready"}]
    /\ spawn \in [Tasks -> {"no", "counted", "done"}]
    /\ active \in Int
    /\ queue \in [Tasks -> Nat]
    /\ waker \in [Tasks -> BOOLEAN]
    /\ pc \in [Threads -> Labels]
    /\ cur \in [Threads -> Tasks \cup {NoTask}]
    /\ seen \in [Threads -> SUBSET Bits]
    /\ out \in [Threads -> Outcomes]
    /\ owed \in [Tasks -> BOOLEAN] /\ abortReq \in [Tasks -> BOOLEAN]

\* The thread has the task in hand and QUEUED is on: it popped the task and has
\* not begun the poll, or it won the right to push it.
Holds(th, t) == cur[th] = t /\ pc[th] \in {"begin_load", "begin_cas", "dead", "push"}

\* A wake schedules a task once: at any time at most one run-queue entry or one
\* thread stands for the QUEUED bit of a task, and there is one exactly when
\* the bit is on (state.rs, wake and end_poll).
QueuedOnce ==
    \A t \in Tasks :
        /\ queue[t] \in {0, 1}
        /\ queue[t] = 1 => spawn[t] = "done"
        /\ \A th \in Threads : Holds(th, t) => queue[t] = 0 /\ spawn[t] = "done"
        /\ \A th1, th2 \in Threads : Holds(th1, t) /\ Holds(th2, t) => th1 = th2
        /\ "QUEUED" \in state[t] <=> \/ queue[t] = 1
                                     \/ spawn[t] # "done"
                                     \/ \E th \in Threads : Holds(th, t)

\* The worker is between begin_poll and the end of end_poll.
Running(w, t) ==
    /\ cur[w] = t
    /\ \/ pc[w] \in {"drop_unpolled", "check_aborted", "take", "poll", "end_load",
                      "end_cas", "set_complete", "clear_running"}
       \/ pc[w] \in {"finish_state", "finish_flag", "finish_wake", "wake_joiner"}
              /\ out[w] = "ok"

\* No two workers run one task, a running task is not queued, and the poller
\* finds the future in its slot: the defensive branch of Task::run
\* ("shouldn't happen given the state machine's invariants") is never taken.
RunExclusive ==
    /\ \A w1, w2 \in Workers, t \in Tasks : Running(w1, t) /\ Running(w2, t) => w1 = w2
    /\ \A w \in Workers : pc[w] = "take" => future[cur[w]]
    /\ \A w \in Workers, t \in Tasks :
           Running(w, t) => "RUNNING" \in state[t] /\ "QUEUED" \notin state[t]

\* The debug_assert of begin_poll: a worker that popped a task finds it QUEUED
\* and not RUNNING.
BeginPollAssertion ==
    \A w \in Workers :
        pc[w] = "begin_load" => /\ "QUEUED" \in state[cur[w]]
                               /\ "RUNNING" \notin state[cur[w]]

\* active_tasks, on which graceful shutdown waits, is the number of tasks that
\* have been spawned and have not reached the end of their last run.
ActiveExact ==
    active = Cardinality({t \in Tasks :
        /\ spawn[t] # "no"
        /\ \/ ~Ended(t)
           \/ \E w \in Workers : cur[w] = t /\ pc[w] # "idle"})

\* A joiner that went to sleep on the handle is woken once the task has ended:
\* the waker it left is in the hands of the worker that stored the result.
JoinerWoken ==
    \A t \in Tasks :
        joiner[t] = "asleep" /\ Ended(t) =>
            \E w \in Workers : cur[w] = t /\ pc[w] \in {"finish_wake", "wake_joiner"}

\* begin_poll's single compare_exchange never fails ("a single
\* compare_exchange -- not a retry loop -- is correct").
BeginPollCasSucceeds == ~WorkerDied

\* The result a task ends with is stored once and never replaced, whichever of
\* completion, panic and abort came first.
JoinResultStable ==
    [][\A t \in Tasks : Ended(t) => Ended(t)' /\ result'[t] = result[t]]_vars

\* abort() stops the task "immediately, if it wasn't running at all": once the
\* bit is on and no worker has passed the is_aborted check, none will.
AbortStopsPolling ==
    [][\A t \in Tasks :
         LET Polling == \E w \in Workers : cur[w] = t /\ pc[w] \in {"take", "poll"}
         IN  "ABORTED" \in state[t] /\ Polling' => Polling]_vars

\* What the byte and the progress of spawn say about the life of a task.
Phase(t) ==
    IF spawn[t] # "done" THEN "fresh"
    ELSE IF "COMPLETE" \in state[t] THEN "done"
    ELSE IF "RUNNING" \in state[t]
         THEN IF "NOTIFIED" \in state[t] THEN "rerun" ELSE "running"
         ELSE IF "QUEUED" \in state[t] THEN "queued" ELSE "idle"

Lifecycle == INSTANCE TaskLifecycle WITH phase <- [t \in Tasks |-> Phase(t)]

\* The byte implements the life of a task: whatever the races between run, wake
\* and abort, a task woken while it runs is queued again when its poll returns
\* Pending, a completed task stays so, and only a queued task starts to run.
ImplementsLifecycle == Lifecycle!Spec

\* A wake is never lost: after a wake() the task is polled again or ends, unless
\* the thread that popped it panicked in begin_poll.
NoLostWake ==
    \A t \in Tasks : owed[t] ~> (~owed[t] \/ Ended(t) \/ WorkerDied)

\* After abort() the handle resolves, unless a worker panicked in begin_poll.
AbortHonoured ==
    \A t \in Tasks : abortReq[t] ~> (Ended(t) \/ WorkerDied)
==============================================================================
