----------------------------- MODULE TaskProofs -----------------------------
(***************************************************************************)
(* The inductive invariant of Task and what each kind of step does to it,  *)
(* for any number of tasks, workers, wakers and aborts.                    *)
(***************************************************************************)
EXTENDS Task, TLAPS

RunLabels == {"begin_load", "begin_cas", "dead", "drop_unpolled", "check_aborted",
              "take", "poll", "end_load", "end_cas", "set_complete",
              "clear_running", "fire_hook", "finish_state", "finish_flag",
              "finish_wake", "wake_joiner", "mark_finished", "push"}
CallLabels == {"abort_load", "wake_cas", "push"}

\* A thread has a task exactly while it is in a call, and only workers run.
CallShape ==
    \A th \in Threads :
        /\ pc[th] = "idle" <=> cur[th] = NoTask
        /\ th \in Workers => pc[th] \in RunLabels \cup {"idle"}
        /\ th \notin Workers => pc[th] \in CallLabels \cup {"idle"}

\* What the bits say about each other and about the slot.
ByteShape ==
    \A t \in Tasks :
        /\ ~({"QUEUED", "RUNNING"} \subseteq state[t])
        /\ ~({"QUEUED", "COMPLETE"} \subseteq state[t])
        /\ state[t] \cap {"RUNNING", "COMPLETE"} = {} => future[t]

\* What the program counter of a running worker says about the byte and slot.
RunShape ==
    \A w \in Workers, t \in Tasks :
        Running(w, t) =>
            /\ "RUNNING" \in state[t] /\ "QUEUED" \notin state[t]
            /\ "COMPLETE" \in state[t] <=> pc[w] = "clear_running"
            /\ pc[w] \in {"check_aborted", "take", "end_load", "end_cas"} => future[t]

OneRunner == \A w1, w2 \in Workers, t \in Tasks : Running(w1, t) /\ Running(w2, t) => w1 = w2

\* The inductive invariant.
IInv == TypeOK /\ CallShape /\ QueuedOnce /\ ByteShape /\ RunShape /\ OneRunner

------------------------------------------------------------------------------
(* Type correctness *)

\* Every step of every thread keeps the variables in their types.
LEMMA TypeStep == TypeOK /\ CallShape /\ [Next]_vars => TypeOK' /\ CallShape'
<1> SUFFICES ASSUME TypeOK, CallShape, [Next]_vars PROVE TypeOK' /\ CallShape'
  BY Zenon
<1> USE ThreadsAssumption DEF TypeOK, CallShape, Threads, Labels, Bits, Outcomes,
        RunLabels, CallLabels, Goto, Return, joinVars, threadVars, histVars
<1>1. ASSUME NEW t \in Tasks, SpawnCount(t) PROVE TypeOK' /\ CallShape'
  BY <1>1 DEF SpawnCount
<1>2. ASSUME NEW t \in Tasks, SpawnSchedule(t) PROVE TypeOK' /\ CallShape'
  BY <1>2 DEF SpawnSchedule
<1>3. ASSUME NEW t \in Tasks, JoinPoll(t) PROVE TypeOK' /\ CallShape'
  BY <1>3, SMTT(30) DEF JoinPoll
<1>4. ASSUME NEW t \in Tasks, DropWaker(t) PROVE TypeOK' /\ CallShape'
  BY <1>4, Zenon DEF DropWaker
<1>5. ASSUME NEW w \in Workers, NEW t \in Tasks, Dequeue(w, t) PROVE TypeOK' /\ CallShape'
  BY <1>5 DEF Dequeue
<1>6. ASSUME NEW w \in Workers, BeginLoad(w) PROVE TypeOK' /\ CallShape'
  BY <1>6, Zenon DEF BeginLoad
<1>7. ASSUME NEW w \in Workers, BeginCas(w) PROVE TypeOK' /\ CallShape'
  BY <1>7, Zenon DEF BeginCas, BeginByte
<1>8. ASSUME NEW w \in Workers, DropUnpolled(w) PROVE TypeOK' /\ CallShape'
  BY <1>8, Zenon DEF DropUnpolled
<1>9. ASSUME NEW w \in Workers, CheckAborted(w) PROVE TypeOK' /\ CallShape'
  BY <1>9, Zenon DEF CheckAborted
<1>10. ASSUME NEW w \in Workers, TakeFuture(w) PROVE TypeOK' /\ CallShape'
  BY <1>10, Zenon DEF TakeFuture
<1>11. ASSUME NEW w \in Workers, PollRegister(w) PROVE TypeOK' /\ CallShape'
  BY <1>11, Zenon DEF PollRegister
<1>12. ASSUME NEW w \in Workers, PollReady(w) PROVE TypeOK' /\ CallShape'
  BY <1>12, Zenon DEF PollReady
<1>13. ASSUME NEW w \in Workers, PollPending(w) PROVE TypeOK' /\ CallShape'
  BY <1>13, Zenon DEF PollPending
<1>14. ASSUME NEW w \in Workers, PollPanic(w) PROVE TypeOK' /\ CallShape'
  BY <1>14, Zenon DEF PollPanic
<1>15. ASSUME NEW w \in Workers, EndLoad(w) PROVE TypeOK' /\ CallShape'
  BY <1>15, Zenon DEF EndLoad
<1>16. ASSUME NEW w \in Workers, EndCas(w) PROVE TypeOK' /\ CallShape'
  BY <1>16, SMTT(30) DEF EndCas, EndByte
<1>17. ASSUME NEW w \in Workers, SetComplete(w) PROVE TypeOK' /\ CallShape'
  BY <1>17, Zenon DEF SetComplete
<1>18. ASSUME NEW w \in Workers, ClearRunning(w) PROVE TypeOK' /\ CallShape'
  BY <1>18, Zenon DEF ClearRunning
<1>19. ASSUME NEW w \in Workers, FireHook(w) PROVE TypeOK' /\ CallShape'
  BY <1>19, Zenon DEF FireHook
<1>20. ASSUME NEW w \in Workers, FinishState(w) PROVE TypeOK' /\ CallShape'
  BY <1>20, Zenon DEF FinishState
<1>21. ASSUME NEW w \in Workers, FinishFlag(w) PROVE TypeOK' /\ CallShape'
  BY <1>21, Zenon DEF FinishFlag, AfterFinish
<1>22. ASSUME NEW w \in Workers, WakeJoiner(w) PROVE TypeOK' /\ CallShape'
  BY <1>22, Zenon DEF WakeJoiner, AfterFinish
<1>23. ASSUME NEW w \in Workers, MarkFinished(w) PROVE TypeOK' /\ CallShape'
  BY <1>23, SMTT(30) DEF MarkFinished
<1>24. ASSUME NEW th \in Wakers, NEW t \in Tasks, WakeLoad(th, t) PROVE TypeOK' /\ CallShape'
  BY <1>24 DEF WakeLoad
<1>25. ASSUME NEW th \in Aborters, NEW t \in Tasks, AbortOr(th, t) PROVE TypeOK' /\ CallShape'
  BY <1>25, SMTT(30) DEF AbortOr
<1>26. ASSUME NEW th \in Threads, AbortLoad(th) PROVE TypeOK' /\ CallShape'
  BY <1>26 DEF AbortLoad
<1>27. ASSUME NEW th \in Threads, WakeCas(th) PROVE TypeOK' /\ CallShape'
  BY <1>27, SMTT(30) DEF WakeCas, WakeByte
<1>28. ASSUME NEW th \in Threads, Schedule(th) PROVE TypeOK' /\ CallShape'
  BY <1>28 DEF Schedule
<1>29. ASSUME UNCHANGED vars PROVE TypeOK' /\ CallShape'
  BY <1>29, Zenon DEF vars
<1>30. QED
  <2> HIDE DEF TypeOK, CallShape, Threads, Labels, Bits, Outcomes, RunLabels, CallLabels, Goto,
           Return, joinVars, threadVars, histVars
  <2> QED
    BY <1>1, <1>2, <1>3, <1>4, <1>5, <1>6, <1>7, <1>8, <1>9, <1>10, <1>11, <1>12, <1>13, <1>14,
       <1>15, <1>16, <1>17, <1>18, <1>19, <1>20, <1>21, <1>22, <1>23, <1>24, <1>25, <1>26, <1>27, <1>28,
       <1>29, Zenon DEF Next, Run, Call

------------------------------------------------------------------------------
(* The scheduling discipline *)

\* A step that changes no queue and hands no task over keeps QueuedOnce.
LEMMA QueuedFrame ==
    ASSUME QueuedOnce, queue' = queue, spawn' = spawn,
           \A u \in Tasks : "QUEUED" \in state'[u] <=> "QUEUED" \in state[u],
           \A x \in Threads, u \in Tasks : Holds(x, u)' <=> Holds(x, u)
    PROVE  QueuedOnce'
BY Zenon DEF QueuedOnce

\* A step that turns QUEUED on and leaves one thread holding the task keeps it.
LEMMA QueuedHandOver ==
    ASSUME QueuedOnce, NEW t \in Tasks, NEW th \in Threads,
           "QUEUED" \notin state[t], queue' = queue, spawn' = spawn,
           \A u \in Tasks : "QUEUED" \in state'[u] <=> "QUEUED" \in state[u] \/ u = t,
           \A x \in Threads, u \in Tasks :
               Holds(x, u)' <=> Holds(x, u) \/ (x = th /\ u = t)
    PROVE  QueuedOnce'
BY Zenon DEF QueuedOnce

\* A step that ends the holding of a task and turns QUEUED off keeps it.
LEMMA QueuedRelease ==
    ASSUME QueuedOnce, NEW t \in Tasks, NEW th \in Threads, Holds(th, t),
           queue' = queue, spawn' = spawn,
           \A u \in Tasks : "QUEUED" \in state'[u] <=> "QUEUED" \in state[u] /\ u # t,
           \A x \in Threads, u \in Tasks : Holds(x, u)' <=> Holds(x, u) /\ u # t
    PROVE  QueuedOnce'
BY DEF QueuedOnce

\* A step that starts no run and changes neither the slots nor the bits QUEUED,
\* RUNNING and COMPLETE.
LEMMA RunFrame ==
    ASSUME ByteShape, RunShape, OneRunner, future' = future,
           \A u \in Tasks : \A b \in {"QUEUED", "RUNNING", "COMPLETE"} :
               b \in state'[u] <=> b \in state[u],
           \A w \in Workers, u \in Tasks :
               Running(w, u)' => Running(w, u) /\ pc'[w] = pc[w]
    PROVE  ByteShape' /\ RunShape' /\ OneRunner'
<1>1. ByteShape'
  BY DEF ByteShape
<1>2. RunShape'
  BY Zenon DEF RunShape
<1>3. OneRunner'
  BY Zenon DEF OneRunner
<1> QED
  BY <1>1, <1>2, <1>3, Zenon

\* If it moves no task between queues and holders either, all is kept.
LEMMA Frame ==
    ASSUME QueuedOnce, ByteShape, RunShape, OneRunner, UNCHANGED <<future, queue, spawn>>,
           \A u \in Tasks : \A b \in {"QUEUED", "RUNNING", "COMPLETE"} :
               b \in state'[u] <=> b \in state[u],
           \A x \in Threads, u \in Tasks : Holds(x, u)' <=> Holds(x, u),
           \A w \in Workers, u \in Tasks :
               Running(w, u)' => Running(w, u) /\ pc'[w] = pc[w]
    PROVE  QueuedOnce' /\ ByteShape' /\ RunShape' /\ OneRunner'
<1>1. QueuedOnce'
  BY QueuedFrame, Zenon
<1>2. ByteShape' /\ RunShape' /\ OneRunner'
  BY RunFrame, Zenon
<1> QED
  BY <1>1, <1>2, Zenon

\* What a thread does that is no worker.
LEMMA NoWorkerRuns ==
    ASSUME NEW th \in Threads, th \notin Workers,
           \A x \in Threads \ {th} : /\ pc'[x] = pc[x] /\ cur'[x] = cur[x]
                                     /\ out'[x] = out[x]
    PROVE  \A w \in Workers, u \in Tasks :
               (Running(w, u)' <=> Running(w, u)) /\ pc'[w] = pc[w]
BY Zenon DEF Running, Threads

HoldLabels == {"begin_load", "begin_cas", "dead", "push"}
SlotLabels == {"check_aborted", "take", "end_load", "end_cas"}

\* A worker moves on within Task::run: it neither takes a task over nor hands one
\* on, and changes at most the slot of the task it runs.
LEMMA WorkerMove ==
    ASSUME QueuedOnce, ByteShape, RunShape, OneRunner, NEW w \in Workers, NEW t \in Tasks,
           UNCHANGED <<state, spawn, queue>>,
           \A x \in Threads \ {w} : pc'[x] = pc[x] /\ cur'[x] = cur[x] /\ out'[x] = out[x],
           cur[w] = t, cur'[w] = t \/ pc'[w] = "idle",
           {pc[w], pc'[w]} \cap (HoldLabels \cup {"clear_running"}) = {},
           Running(w, t)' => Running(w, t) /\ (pc'[w] \in SlotLabels => future'[t]),
           future' = future \/ (Running(w, t) /\ \A u \in Tasks \ {t} : future'[u] = future[u])
    PROVE  QueuedOnce' /\ ByteShape' /\ RunShape' /\ OneRunner'
<1>1. \A x \in Threads, u \in Tasks : Holds(x, u)' <=> Holds(x, u)
  BY Zenon DEF Holds, HoldLabels
<1>2. QueuedOnce'
  BY <1>1, QueuedFrame, Zenon
<1>3. \A u \in Tasks : Running(w, u)' => u = t /\ Running(w, t)
  BY Zenon DEF Running
<1>4. \A x \in Workers \ {w}, u \in Tasks : Running(x, u)' <=> Running(x, u)
  BY Zenon DEF Running, Threads
<1>5. OneRunner'
  BY <1>3, <1>4 DEF OneRunner
<1>6. ByteShape'
  BY DEF ByteShape, RunShape
<1>7. ASSUME NEW u \in Tasks, Running(w, u)'
      PROVE  /\ "RUNNING" \in state[u] /\ "QUEUED" \notin state[u]
             /\ "COMPLETE" \notin state[u] /\ (pc'[w] \in SlotLabels => future'[u])
  BY <1>3, <1>7 DEF RunShape
<1>8. ASSUME NEW x \in Workers \ {w}, NEW u \in Tasks, Running(x, u)'
      PROVE  Running(x, u) /\ pc'[x] = pc[x] /\ future'[u] = future[u]
  BY <1>4, <1>8, Zenon DEF OneRunner, Threads
<1>9. RunShape'
  <2> SUFFICES ASSUME NEW x \in Workers, NEW u \in Tasks, Running(x, u)'
               PROVE  /\ "RUNNING" \in state[u] /\ "QUEUED" \notin state[u]
                      /\ "COMPLETE" \in state[u] <=> pc'[x] = "clear_running"
                      /\ pc'[x] \in SlotLabels => future'[u]
    BY Zenon DEF RunShape, SlotLabels
  <2>1. CASE x = w
    BY <1>7, <2>1, Zenon
  <2>2. CASE x # w
    <3>1. Running(x, u) /\ pc'[x] = pc[x] /\ future'[u] = future[u]
      BY <1>8, <2>2, Zenon
    <3> QED BY <3>1, Zenon DEF RunShape, SlotLabels
  <2> QED BY <2>1, <2>2, Zenon
<1> QED
  BY <1>2, <1>5, <1>6, <1>9, Zenon

\* The two halves of end_poll(true) change the byte of the task the worker runs.
LEMMA WorkerEnds ==
    ASSUME QueuedOnce, ByteShape, RunShape, OneRunner, NEW w \in Workers, NEW t \in Tasks,
           UNCHANGED <<future, spawn, queue, cur, out>>,
           \A x \in Threads \ {w} : pc'[x] = pc[x],
           Running(w, t), pc[w] \notin HoldLabels, pc'[w] \notin HoldLabels,
           \A u \in Tasks \ {t} : state'[u] = state[u],
           "QUEUED" \notin state'[t], "COMPLETE" \in state'[t],
           Running(w, t)' => "RUNNING" \in state'[t] /\ pc'[w] = "clear_running"
    PROVE  QueuedOnce' /\ ByteShape' /\ RunShape' /\ OneRunner'
<1>0. cur[w] = t /\ cur'[w] = t
  BY Zenon DEF Running
<1>1. \A x \in Threads, u \in Tasks : Holds(x, u)' <=> Holds(x, u)
  BY Zenon DEF Holds, HoldLabels
<1>2. \A u \in Tasks : "QUEUED" \in state'[u] <=> "QUEUED" \in state[u]
  BY Zenon DEF RunShape
<1>3. QueuedOnce'
  BY <1>1, <1>2, QueuedFrame, Zenon
<1>4. \A x \in Workers \ {w}, u \in Tasks : Running(x, u)' <=> Running(x, u)
  BY Zenon DEF Running, Threads
<1>5. \A u \in Tasks : Running(w, u)' => u = t
  BY <1>0, Zenon DEF Running
<1>6. \A x \in Workers \ {w} : ~Running(x, t)'
  BY <1>4, Zenon DEF OneRunner
<1>7. OneRunner'
  BY <1>4, <1>5, <1>6 DEF OneRunner
<1>8. ByteShape'
  BY Zenon DEF ByteShape
<1>9. RunShape'
  <2> SUFFICES ASSUME NEW x \in Workers, NEW u \in Tasks, Running(x, u)'
               PROVE  /\ "RUNNING" \in state'[u] /\ "QUEUED" \notin state'[u]
                      /\ "COMPLETE" \in state'[u] <=> pc'[x] = "clear_running"
                      /\ pc'[x] \in SlotLabels => future'[u]
    BY Zenon DEF RunShape, SlotLabels
  <2>1. CASE x = w
    BY <1>5, <2>1, Zenon DEF SlotLabels
  <2>2. CASE x # w
    <3>1. u # t /\ Running(x, u) /\ pc'[x] = pc[x] /\ state'[u] = state[u]
      BY <1>4, <1>6, <2>2, Zenon DEF Threads
    <3> QED BY <3>1, Zenon DEF RunShape, SlotLabels
  <2> QED BY <2>1, <2>2, Zenon
<1> QED
  BY <1>3, <1>7, <1>8, <1>9, Zenon

\* State::wake keeps them: it turns QUEUED on only in a byte without RUNNING,
\* QUEUED and COMPLETE, and then holds the task.
LEMMA WakeCasStep ==
    ASSUME IInv, NEW th \in Threads, WakeCas(th)
    PROVE  QueuedOnce' /\ ByteShape' /\ RunShape' /\ OneRunner'
<1>a. /\ pc \in [Threads -> Labels] /\ state \in [Tasks -> SUBSET Bits]
      /\ cur \in [Threads -> Tasks \cup {NoTask}] /\ out \in [Threads -> Outcomes]
      /\ QueuedOnce /\ ByteShape /\ RunShape /\ OneRunner
  BY Zenon DEF IInv, TypeOK
<1>b. pc[th] = "wake_cas" /\ UNCHANGED <<future, spawn, queue>>
  BY Zenon DEF WakeCas
<1>c. th \notin Workers
  BY <1>b, Zenon DEF IInv, CallShape, RunLabels
<1>t. PICK t \in Tasks : t = cur[th]
  BY <1>a, <1>b, Zenon DEF IInv, CallShape
<1>d. NoTask \notin Tasks
  BY ThreadsAssumption, Zenon
<1>e. \A x \in Threads \ {th} : /\ pc'[x] = pc[x] /\ cur'[x] = cur[x] /\ out'[x] = out[x]
  BY <1>a, Zenon DEF WakeCas, Return, Goto
<1>f. \A w \in Workers, u \in Tasks : (Running(w, u)' <=> Running(w, u)) /\ pc'[w] = pc[w]
  BY <1>c, <1>e, NoWorkerRuns, Zenon
<1>g. ~Holds(th, t) /\ \A u \in Tasks : ~Holds(th, u)
  BY <1>b, Zenon DEF Holds
<1>1. CASE state' = state /\ ~(pc'[th] = "push")
  <2>1. pc'[th] \in {"idle", "wake_cas"}
    BY <1>a, <1>b, <1>1, Zenon DEF WakeCas, Return, Goto
  <2>2. \A x \in Threads, u \in Tasks : Holds(x, u)' <=> Holds(x, u)
    BY <1>e, <1>g, <2>1, Zenon DEF Holds
  <2> QED BY <1>a, <1>b, <1>f, <1>1, <2>2, Frame, Zenon
<1>2. CASE /\ "RUNNING" \in state[t] /\ state' = [state EXCEPT ![t] = @ \cup {"NOTIFIED"}]
           /\ pc'[th] = "idle"
  <2>1. \A u \in Tasks : \/ state'[u] = state[u]
                         \/ u = t /\ state'[u] = state[u] \cup {"NOTIFIED"}
    BY <1>a, <1>2, Zenon
  <2>2. \A u \in Tasks : \A b \in {"QUEUED", "RUNNING", "COMPLETE"} :
            b \in state'[u] <=> b \in state[u]
    BY <2>1, Zenon
  <2>3. \A x \in Threads, u \in Tasks : Holds(x, u)' <=> Holds(x, u)
    BY <1>e, <1>g, <1>2, Zenon DEF Holds
  <2> QED BY <1>a, <1>b, <1>f, <2>2, <2>3, Frame, Zenon
<1>3. CASE /\ state[t] \cap {"RUNNING", "QUEUED", "COMPLETE"} = {}
           /\ state' = [state EXCEPT ![t] = @ \cup {"QUEUED"}]
           /\ pc'[th] = "push" /\ cur'[th] = t
  <2>1. \A u \in Tasks \ {t} : state'[u] = state[u]
    BY <1>a, <1>3, Zenon
  <2>2. state'[t] = state[t] \cup {"QUEUED"}
    BY <1>a, <1>3, Zenon
  <2>3. \A x \in Threads, u \in Tasks :
            Holds(x, u)' <=> Holds(x, u) \/ (x = th /\ u = t)
    BY <1>e, <1>g, <1>3, Zenon DEF Holds
  <2>4. \A u \in Tasks : "QUEUED" \in state'[u] <=> "QUEUED" \in state[u] \/ u = t
    BY <2>1, <2>2, Zenon
  <2>5. QueuedOnce'
    BY <1>a, <1>b, <1>3, <2>3, <2>4, QueuedHandOver
  <2>6. ByteShape'
    BY <1>a, <1>b, <1>3, <2>1, <2>2 DEF ByteShape
  <2>7. \A w \in Workers : ~Running(w, t)
    BY <1>a, <1>3, Zenon DEF RunShape
  <2>8. RunShape'
    BY <1>a, <1>b, <1>f, <2>1, <2>7 DEF RunShape
  <2>9. OneRunner'
    BY <1>a, <1>f, Zenon DEF OneRunner
  <2> QED BY <2>5, <2>6, <2>8, <2>9, Zenon
<1> QED
  <2>1. CASE WakeIsNoOp(seen[th]) \/ state[t] # seen[th]
    BY <1>a, <1>b, <1>t, <1>1, <2>1, Zenon DEF WakeCas, Return, Goto
  <2>2. CASE ~WakeIsNoOp(seen[th]) /\ state[t] = seen[th]
    <3>1. CASE "RUNNING" \in state[t]
      BY <1>a, <1>t, <1>2, <2>2, <3>1, Zenon DEF WakeCas, WakeByte, Return, Goto
    <3>2. CASE "RUNNING" \notin state[t]
      BY <1>a, <1>t, <1>3, <2>2, <3>2, ZenonT(40) DEF WakeCas, WakeByte, WakeIsNoOp, Goto
    <3> QED BY <3>1, <3>2, Zenon
  <2> QED BY <2>1, <2>2, Zenon

\* Task::schedule turns the thread that holds the task into an entry of a queue.
LEMMA ScheduleStep ==
    ASSUME IInv, NEW th \in Threads, Schedule(th)
    PROVE  QueuedOnce' /\ ByteShape' /\ RunShape' /\ OneRunner'
<1>a. /\ pc \in [Threads -> Labels] /\ queue \in [Tasks -> Nat]
      /\ cur \in [Threads -> Tasks \cup {NoTask}] /\ out \in [Threads -> Outcomes]
      /\ QueuedOnce /\ ByteShape /\ RunShape /\ OneRunner
  BY Zenon DEF IInv, TypeOK
<1>b. pc[th] = "push" /\ UNCHANGED <<state, future, spawn>>
  BY Zenon DEF Schedule
<1>t. PICK t \in Tasks : t = cur[th]
  BY <1>a, <1>b, Zenon DEF IInv, CallShape
<1>c. /\ pc'[th] = "idle" /\ queue' = [queue EXCEPT ![t] = @ + 1]
      /\ \A x \in Threads \ {th} : /\ pc'[x] = pc[x] /\ cur'[x] = cur[x]
                                   /\ out'[x] = out[x]
  BY <1>a, <1>t, Zenon DEF Schedule, Return, Goto
<1>1. Holds(th, t)
  BY <1>b, <1>t, Zenon DEF Holds
<1>2. \A x \in Threads, u \in Tasks : Holds(x, u)' <=> Holds(x, u) /\ x # th
  BY <1>c, Zenon DEF Holds
<1>3. \A x \in Threads : ~Holds(x, t)'
  BY <1>a, <1>1, <1>2, Zenon DEF QueuedOnce
<1>4. queue[t] = 0 /\ spawn[t] = "done" /\ "QUEUED" \in state[t]
  BY <1>a, <1>1, Zenon DEF QueuedOnce
<1>5. queue'[t] = 1 /\ \A u \in Tasks \ {t} : queue'[u] = queue[u]
  BY <1>a, <1>c, <1>4
<1>6. \A x \in Threads, u \in Tasks \ {t} : Holds(x, u)' <=> Holds(x, u)
  BY <1>1, <1>2, Zenon DEF Holds
<1>7. QueuedOnce'
  BY <1>a, <1>b, <1>3, <1>4, <1>5, <1>6 DEF QueuedOnce
<1>8. \A w \in Workers, u \in Tasks : Running(w, u)' => Running(w, u) /\ pc'[w] = pc[w]
  BY <1>c, Zenon DEF Running, Threads
<1> QED
  BY <1>a, <1>b, <1>7, <1>8, RunFrame, Zenon

------------------------------------------------------------------------------
(* Every step *)

\* What the steps below use of the types and of the shape of the calls.
LEMMA Facts ==
    ASSUME IInv
    PROVE  /\ TypeOK /\ CallShape /\ QueuedOnce /\ ByteShape /\ RunShape /\ OneRunner
           /\ state \in [Tasks -> SUBSET Bits] /\ future \in [Tasks -> BOOLEAN]
           /\ queue \in [Tasks -> Nat] /\ DOMAIN spawn = Tasks
           /\ DOMAIN pc = Threads /\ DOMAIN cur = Threads /\ DOMAIN out = Threads
           /\ Workers \subseteq Threads /\ Wakers \subseteq Threads /\ Aborters \subseteq Threads
           /\ \A th \in Threads : pc[th] # "idle" => cur[th] \in Tasks
           /\ \A th \in Threads : pc[th] \in CallLabels \ {"push"} => th \notin Workers
           /\ \A th \in Wakers \cup Aborters : th \notin Workers
BY ThreadsAssumption, Zenon DEF IInv, TypeOK, CallShape, Threads, RunLabels, CallLabels

\* Every step keeps the queue, the state byte and the runner of a task consistent.
LEMMA ByteStep == IInv /\ [Next]_vars => QueuedOnce' /\ ByteShape' /\ RunShape' /\ OneRunner'
<1> SUFFICES ASSUME IInv, [Next]_vars
             PROVE QueuedOnce' /\ ByteShape' /\ RunShape' /\ OneRunner'
  BY Zenon
<1> /\ TypeOK /\ CallShape /\ QueuedOnce /\ ByteShape /\ RunShape /\ OneRunner
    /\ state \in [Tasks -> SUBSET Bits] /\ future \in [Tasks -> BOOLEAN]
    /\ queue \in [Tasks -> Nat] /\ DOMAIN spawn = Tasks
    /\ DOMAIN pc = Threads /\ DOMAIN cur = Threads /\ DOMAIN out = Threads
    /\ Workers \subseteq Threads /\ Wakers \subseteq Threads /\ Aborters \subseteq Threads
    /\ \A th \in Threads : pc[th] # "idle" => cur[th] \in Tasks
    /\ \A th \in Threads : pc[th] \in CallLabels \ {"push"} => th \notin Workers
    /\ \A th \in Wakers \cup Aborters : th \notin Workers
  BY Facts, Zenon
<1>1. ASSUME NEW t \in Tasks, SpawnCount(t)
      PROVE  QueuedOnce' /\ ByteShape' /\ RunShape' /\ OneRunner'
  <2>1. /\ UNCHANGED <<state, future, queue, pc, cur, out>>
        /\ spawn[t] = "no" /\ spawn' = [spawn EXCEPT ![t] = "counted"]
    BY <1>1, Zenon DEF SpawnCount, threadVars
  <2>2. QueuedOnce'
    BY <2>1 DEF QueuedOnce, Holds
  <2>3. ByteShape' /\ RunShape' /\ OneRunner'
    BY <2>1, RunFrame, Zenon DEF Running
  <2> QED
    BY <2>2, <2>3, Zenon
<1>2. ASSUME NEW t \in Tasks, SpawnSchedule(t)
      PROVE  QueuedOnce' /\ ByteShape' /\ RunShape' /\ OneRunner'
  <2>1. /\ UNCHANGED <<state, future, pc, cur, out>>
        /\ spawn[t] = "counted" /\ spawn' = [spawn EXCEPT ![t] = "done"]
        /\ queue' = [queue EXCEPT ![t] = @ + 1]
    BY <1>2, Zenon DEF SpawnSchedule, threadVars
  <2>2. \A x \in Threads, u \in Tasks : Holds(x, u)' <=> Holds(x, u)
    BY <2>1, Zenon DEF Holds
  <2>3. queue[t] = 0 /\ "QUEUED" \in state[t] /\ \A x \in Threads : ~Holds(x, t)
    BY <2>1, Zenon DEF QueuedOnce
  <2>4. queue'[t] = 1 /\ \A u \in Tasks \ {t} : queue'[u] = queue[u] /\ spawn'[u] = spawn[u]
    BY <2>1, <2>3
  <2>5. QueuedOnce'
    BY <2>1, <2>2, <2>3, <2>4, Zenon DEF QueuedOnce
  <2>6. ByteShape' /\ RunShape' /\ OneRunner'
    BY <2>1, RunFrame, Zenon DEF Running
  <2> QED
    BY <2>5, <2>6, Zenon
<1>3. ASSUME NEW t \in Tasks, JoinPoll(t) \/ DropWaker(t) PROVE QueuedOnce' /\ ByteShape' /\ RunShape' /\ OneRunner'
  BY <1>3, Frame, Zenon DEF JoinPoll, DropWaker, Holds, Running, threadVars
<1>4. ASSUME NEW w \in Workers, NEW t \in Tasks, Dequeue(w, t)
      PROVE QueuedOnce' /\ ByteShape' /\ RunShape' /\ OneRunner'
  <2>1. /\ UNCHANGED <<state, future, spawn, out>> /\ pc[w] = "idle" /\ queue[t] > 0
        /\ queue' = [queue EXCEPT ![t] = @ - 1]
        /\ pc' = [pc EXCEPT ![w] = "begin_load"] /\ cur' = [cur EXCEPT ![w] = t]
    BY <1>4, Zenon DEF Dequeue, Goto
  <2>2. \A x \in Threads, u \in Tasks : Holds(x, u)' <=> Holds(x, u) \/ (x = w /\ u = t)
    BY <2>1, Zenon DEF Holds
  <2>3. queue[t] = 1 /\ spawn[t] = "done" /\ \A x \in Threads : ~Holds(x, t)
    BY <2>1 DEF QueuedOnce
  <2>4. queue'[t] = 0 /\ \A u \in Tasks \ {t} : queue'[u] = queue[u]
    BY <2>1, <2>3
  <2>5. QueuedOnce'
    BY <2>1, <2>2, <2>3, <2>4 DEF QueuedOnce
  <2>6. \A x \in Workers, u \in Tasks : Running(x, u)' => Running(x, u) /\ pc'[x] = pc[x]
    BY <2>1, Zenon DEF Running
  <2> QED
    BY <2>1, <2>5, <2>6, RunFrame, Zenon
<1>5. ASSUME NEW th \in Threads,
             \/ BeginLoad(th) \/ AbortLoad(th)
             \/ \E t \in Tasks : th \in Wakers /\ WakeLoad(th, t)
      PROVE  QueuedOnce' /\ ByteShape' /\ RunShape' /\ OneRunner'
  <2>1. /\ UNCHANGED <<state, future, queue, spawn>>
        /\ \A x \in Threads, u \in Tasks : Holds(x, u)' <=> Holds(x, u)
        /\ \A x \in Workers, u \in Tasks : Running(x, u)' => Running(x, u) /\ pc'[x] = pc[x]
    BY <1>5 DEF BeginLoad, AbortLoad, WakeLoad, Holds, Running, Goto
  <2> QED
    BY <2>1, Frame, Zenon
<1>6. ASSUME NEW w \in Workers, BeginCas(w)
      PROVE  QueuedOnce' /\ ByteShape' /\ RunShape' /\ OneRunner'
  <2> PICK t \in Tasks : t = cur[w]
    BY <1>6, Zenon DEF BeginCas
  <2>2. UNCHANGED <<future, spawn, queue, cur, out>> /\ pc[w] = "begin_cas"
    BY <1>6, Zenon DEF BeginCas
  <2>3. CASE state[t] # seen[w]
    <3>1. state' = state /\ pc' = [pc EXCEPT ![w] = "dead"]
      BY <1>6, <2>3, Zenon DEF BeginCas, Goto
    <3>2. \A x \in Threads, u \in Tasks : Holds(x, u)' <=> Holds(x, u)
      BY <2>2, <3>1, Zenon DEF Holds
    <3>3. \A x \in Workers, u \in Tasks : Running(x, u)' => Running(x, u) /\ pc'[x] = pc[x]
      BY <2>2, <3>1, Zenon DEF Running
    <3> QED
      BY <2>2, <3>1, <3>2, <3>3, Frame, Zenon
  <2>4. CASE state[t] = seen[w]
    <3>1. /\ state' = [state EXCEPT ![t] = BeginByte(@)]
          /\ pc'[w] \in {"drop_unpolled", "check_aborted"}
          /\ \A x \in Threads \ {w} : pc'[x] = pc[x]
      BY <1>6, <2>4, Zenon DEF BeginCas, Goto
    <3>2. Holds(w, t)
      BY <2>2, Zenon DEF Holds
    <3>3. "QUEUED" \in state[t] /\ \A x \in Threads : Holds(x, t) => x = w
      BY <3>2, Zenon DEF QueuedOnce
    <3>4. "RUNNING" \notin state[t] /\ "COMPLETE" \notin state[t] /\ future[t]
      BY <3>3 DEF ByteShape
    <3>5. /\ \A u \in Tasks \ {t} : state'[u] = state[u]
          /\ "RUNNING" \in state'[t] /\ "QUEUED" \notin state'[t] /\ "COMPLETE" \notin state'[t]
      BY <3>1, <3>4, Zenon DEF BeginByte
    <3>6. \A x \in Threads, u \in Tasks : Holds(x, u)' <=> Holds(x, u) /\ u # t
      BY <2>2, <3>1, <3>3, Zenon DEF Holds
    <3>7. QueuedOnce'
      BY <2>2, <3>2, <3>5, <3>6, QueuedRelease, Zenon
    <3>8. ByteShape'
      BY <2>2, <3>5 DEF ByteShape
    <3>9. \A x \in Workers : ~Running(x, t)
      BY <3>4, Zenon DEF RunShape
    <3>10. /\ \A u \in Tasks : Running(w, u)' => u = t
           /\ \A x \in Workers \ {w}, u \in Tasks : Running(x, u)' => Running(x, u) /\ u # t
      BY <2>2, <3>1, <3>9, Zenon DEF Running
    <3>11. OneRunner'
      BY <3>10 DEF OneRunner
    <3>12. RunShape'
      BY <2>2, <3>1, <3>4, <3>5, <3>10 DEF RunShape
    <3> QED
      BY <3>7, <3>8, <3>11, <3>12, Zenon
  <2> QED
    BY <2>3, <2>4, Zenon
<1>7. ASSUME NEW w \in Workers,
             DropUnpolled(w) \/ CheckAborted(w) \/ TakeFuture(w) \/ EndLoad(w)
      PROVE  QueuedOnce' /\ ByteShape' /\ RunShape' /\ OneRunner'
  <2> PICK t \in Tasks : t = cur[w]
    BY <1>7, Zenon DEF DropUnpolled, CheckAborted, TakeFuture, EndLoad
  <2>1. Running(w, t) /\ pc[w] \in SlotLabels => future[t]
    BY Zenon DEF RunShape, SlotLabels
  <2>2. /\ UNCHANGED <<state, spawn, queue>>
        /\ \A x \in Threads \ {w} : pc'[x] = pc[x] /\ cur'[x] = cur[x] /\ out'[x] = out[x]
        /\ cur'[w] = t \/ pc'[w] = "idle"
        /\ {pc[w], pc'[w]} \cap (HoldLabels \cup {"clear_running"}) = {}
        /\ Running(w, t)' => Running(w, t) /\ (pc'[w] \in SlotLabels => future'[t])
        /\ future' = future \/ (Running(w, t) /\ \A u \in Tasks \ {t} : future'[u] = future[u])
    BY <1>7, <2>1,
       Zenon DEF DropUnpolled, CheckAborted, TakeFuture, EndLoad, Goto, Return,
       HoldLabels, SlotLabels, Running, threadVars
  <2> QED
    BY <2>2, WorkerMove, Zenon
<1>8. ASSUME NEW w \in Workers,
             PollRegister(w) \/ PollReady(w) \/ PollPending(w) \/ PollPanic(w)
      PROVE  QueuedOnce' /\ ByteShape' /\ RunShape' /\ OneRunner'
  <2> PICK t \in Tasks : t = cur[w]
    BY <1>8, Zenon DEF PollRegister, PollReady, PollPending, PollPanic
  <2>2. /\ UNCHANGED <<state, spawn, queue>>
        /\ \A x \in Threads \ {w} : pc'[x] = pc[x] /\ cur'[x] = cur[x] /\ out'[x] = out[x]
        /\ cur'[w] = t \/ pc'[w] = "idle"
        /\ {pc[w], pc'[w]} \cap (HoldLabels \cup {"clear_running"}) = {}
        /\ Running(w, t)' => Running(w, t) /\ (pc'[w] \in SlotLabels => future'[t])
        /\ future' = future \/ (Running(w, t) /\ \A u \in Tasks \ {t} : future'[u] = future[u])
    BY <1>8, Zenon DEF PollRegister, PollReady, PollPending, PollPanic, Goto, Return,
       HoldLabels, SlotLabels, Running, threadVars
  <2> QED
    BY <2>2, WorkerMove, Zenon
<1>9. ASSUME NEW w \in Workers, EndCas(w)
       PROVE  QueuedOnce' /\ ByteShape' /\ RunShape' /\ OneRunner'
  <2> PICK t \in Tasks : t = cur[w]
    BY <1>9, Zenon DEF EndCas
  <2>2. UNCHANGED <<future, spawn, queue>> /\ pc[w] = "end_cas"
    BY <1>9, Zenon DEF EndCas
  <2>3. Running(w, t)
    BY <2>2, Zenon DEF Running
  <2>4. /\ "RUNNING" \in state[t] /\ "QUEUED" \notin state[t] /\ "COMPLETE" \notin state[t]
        /\ future[t] /\ \A x \in Workers \ {w} : ~Running(x, t)
    BY <2>2, <2>3, Zenon DEF RunShape, OneRunner
  <2>5. CASE state[t] # seen[w]
    <3>1. UNCHANGED <<state, pc, cur, out>>
      BY <1>9, <2>5, Zenon DEF EndCas
    <3> QED
      BY <2>2, <3>1, Frame, Zenon DEF Holds, Running
  <2>6. CASE state[t] = seen[w]
    <3>1. /\ state' = [state EXCEPT ![t] = EndByte(@)]
          /\ \A x \in Threads \ {w} : pc'[x] = pc[x] /\ cur'[x] = cur[x] /\ out'[x] = out[x]
          /\ IF "NOTIFIED" \in state[t] THEN pc'[w] = "push" /\ cur'[w] = t ELSE pc'[w] = "idle"
      BY <1>9, <2>6 DEF EndCas, Goto, Return
    <3>2. /\ \A u \in Tasks \ {t} : state'[u] = state[u]
          /\ "RUNNING" \notin state'[t] /\ "COMPLETE" \notin state'[t]
          /\ "QUEUED" \in state'[t] <=> "NOTIFIED" \in state[t]
      BY <2>4, <3>1, Zenon DEF EndByte
    <3>3. QueuedOnce'
      <4>1. CASE "NOTIFIED" \in state[t]
        <5>1. \A x \in Threads, u \in Tasks : Holds(x, u)' <=> Holds(x, u) \/ (x = w /\ u = t)
          BY <2>2, <3>1, <4>1, Zenon DEF Holds
        <5>2. QueuedOnce /\ w \in Threads
          BY Zenon
        <5>3. \A u \in Tasks : "QUEUED" \in state'[u] <=> "QUEUED" \in state[u] \/ u = t
          BY <3>2, <4>1, Zenon
        <5>4. "QUEUED" \notin state[t] /\ queue' = queue /\ spawn' = spawn
          BY <2>2, <2>4, Zenon
        <5> QED
          BY <5>1, <5>2, <5>3, <5>4, QueuedHandOver, SMTT(30)
      <4>2. CASE "NOTIFIED" \notin state[t]
        <5>1. \A x \in Threads, u \in Tasks : Holds(x, u)' <=> Holds(x, u)
          BY <2>2, <3>1, <4>2, Zenon DEF Holds
        <5> QED
          BY <2>2, <2>4, <3>2, <4>2, <5>1, QueuedFrame, Zenon
      <4> QED
        BY <4>1, <4>2, Zenon
    <3>5. ByteShape'
      BY <2>2, <2>4, <3>2 DEF ByteShape
    <3>6. /\ \A u \in Tasks : ~Running(w, u)'
          /\ \A x \in Workers \ {w}, u \in Tasks : Running(x, u)' => Running(x, u) /\ u # t
      BY <2>4, <3>1 DEF Running
    <3>7. OneRunner'
      BY <3>6 DEF OneRunner
    <3>8. RunShape'
      BY <2>2, <3>1, <3>2, <3>6 DEF RunShape
    <3> QED
      BY <3>3, <3>5, <3>7, <3>8, Zenon
  <2> QED
    BY <2>5, <2>6, Zenon
<1>10. ASSUME NEW w \in Workers, SetComplete(w) \/ ClearRunning(w)
      PROVE  QueuedOnce' /\ ByteShape' /\ RunShape' /\ OneRunner'
  <2> PICK t \in Tasks : t = cur[w]
    BY <1>10, Zenon DEF SetComplete, ClearRunning
  <2>2. /\ UNCHANGED <<future, spawn, queue, cur, out>>
        /\ \A x \in Threads \ {w} : pc'[x] = pc[x]
        /\ pc[w] \notin HoldLabels /\ pc'[w] \notin HoldLabels
        /\ \A u \in Tasks \ {t} : state'[u] = state[u]
    BY <1>10, Zenon DEF SetComplete, ClearRunning, Goto, HoldLabels
  <2>3. Running(w, t)
    BY <1>10, Zenon DEF SetComplete, ClearRunning, Running
  <2>4. /\ "QUEUED" \notin state[t] /\ "RUNNING" \in state[t]
        /\ "COMPLETE" \in state[t] <=> pc[w] = "clear_running"
    BY <2>3, Zenon DEF RunShape
  <2>5. "QUEUED" \notin state'[t] /\ "COMPLETE" \in state'[t]
    BY <1>10, <2>4 DEF SetComplete, ClearRunning
  <2>6. Running(w, t)' => "RUNNING" \in state'[t] /\ pc'[w] = "clear_running"
    BY <1>10, <2>4 DEF SetComplete, ClearRunning, Goto, Running
  <2> QED
    BY <2>2, <2>3, <2>5, <2>6, WorkerEnds, Zenon
<1>11. ASSUME NEW w \in Workers,
             FireHook(w) \/ FinishState(w) \/ FinishFlag(w) \/ WakeJoiner(w) \/ MarkFinished(w)
      PROVE  QueuedOnce' /\ ByteShape' /\ RunShape' /\ OneRunner'
  <2> PICK t \in Tasks : t = cur[w]
    BY <1>11, Zenon DEF FireHook, FinishState, FinishFlag, WakeJoiner, MarkFinished
  <2>2. /\ UNCHANGED <<state, spawn, queue>>
        /\ \A x \in Threads \ {w} : pc'[x] = pc[x] /\ cur'[x] = cur[x] /\ out'[x] = out[x]
        /\ cur'[w] = t \/ pc'[w] = "idle"
        /\ {pc[w], pc'[w]} \cap (HoldLabels \cup {"clear_running"}) = {}
        /\ Running(w, t)' => Running(w, t) /\ (pc'[w] \in SlotLabels => future'[t])
        /\ future' = future \/ (Running(w, t) /\ \A u \in Tasks \ {t} : future'[u] = future[u])
    BY <1>11,
       Zenon DEF FireHook, FinishState, FinishFlag, WakeJoiner, MarkFinished, Goto, Return,
       HoldLabels, SlotLabels, Running, threadVars, AfterFinish
  <2> QED
    BY <2>2, WorkerMove, Zenon
<1>12. ASSUME NEW th \in Aborters, NEW t \in Tasks, AbortOr(th, t)
       PROVE QueuedOnce' /\ ByteShape' /\ RunShape' /\ OneRunner'
  <2>1. /\ UNCHANGED <<future, queue, spawn, out>> /\ pc[th] = "idle"
        /\ state' = state \/ state' = [state EXCEPT ![t] = @ \cup {"ABORTED"}]
        /\ \A x \in Threads \ {th} : pc'[x] = pc[x] /\ cur'[x] = cur[x]
        /\ pc'[th] \in {"idle", "abort_load"}
    BY <1>12 DEF AbortOr, Goto
  <2>2. \A u \in Tasks : \A b \in {"QUEUED", "RUNNING", "COMPLETE"} :
            b \in state'[u] <=> b \in state[u]
    BY <2>1
  <2>3. \A x \in Threads, u \in Tasks : Holds(x, u)' <=> Holds(x, u)
    BY <2>1, Zenon DEF Holds
  <2>4. \A x \in Workers, u \in Tasks : Running(x, u)' => Running(x, u) /\ pc'[x] = pc[x]
    BY <2>1, Zenon DEF Running
  <2> QED
    BY <2>1, <2>2, <2>3, <2>4, Frame, Zenon
<1>13. ASSUME NEW th \in Threads, WakeCas(th)
       PROVE  QueuedOnce' /\ ByteShape' /\ RunShape' /\ OneRunner'
  BY <1>13, WakeCasStep, Zenon
<1>14. ASSUME NEW th \in Threads, Schedule(th)
       PROVE  QueuedOnce' /\ ByteShape' /\ RunShape' /\ OneRunner'
  BY <1>14, ScheduleStep, Zenon
<1>15. ASSUME UNCHANGED vars PROVE QueuedOnce' /\ ByteShape' /\ RunShape' /\ OneRunner'
  BY <1>15, Frame, Zenon DEF vars, Holds, Running
<1> QED
  BY <1>1, <1>2, <1>3, <1>4, <1>5, <1>6, <1>7, <1>8, <1>9, <1>10, <1>11,
     <1>12, <1>13, <1>14, <1>15, Zenon
     DEF Next, Run, Call, Threads

------------------------------------------------------------------------------
(* The theorems *)

\* The initial state satisfies the inductive invariant.
LEMMA InitInv == Init => IInv
<1> SUFFICES ASSUME Init PROVE IInv
  BY Zenon
<1>1. TypeOK
  BY DEF Init, TypeOK, Labels, Bits, Outcomes
<1>2. CallShape
  BY ThreadsAssumption, Zenon DEF Init, CallShape
<1>3. \A th \in Threads : pc[th] = "idle"
  BY Zenon DEF Init
<1>4. QueuedOnce /\ ByteShape
  BY <1>3 DEF Init, QueuedOnce, ByteShape, Holds
<1>5. RunShape /\ OneRunner
  BY <1>3, Zenon DEF RunShape, OneRunner, Running, Threads
<1> QED
  BY <1>1, <1>2, <1>4, <1>5, Zenon DEF IInv

\* The inductive invariant holds in every reachable state.
THEOREM Inductive == Spec => []IInv
<1>1. IInv /\ [Next]_vars => IInv'
  BY TypeStep, ByteStep, Zenon DEF IInv
<1> QED
  BY <1>1, InitInv, PTL DEF Spec

\* Every variable keeps its type; in particular no run queue ever holds a
\* negative number of references to a task.
THEOREM TypeCorrect == Spec => []TypeOK
<1>1. IInv => TypeOK
  BY Zenon DEF IInv
<1> QED
  BY <1>1, Inductive, PTL

\* However wake(), abort() and the end of a poll interleave, a task is in at
\* most one place of the run queues, and somewhere exactly while QUEUED is on.
THEOREM QueuedOnceHolds == Spec => []QueuedOnce
<1>1. IInv => QueuedOnce
  BY Zenon DEF IInv
<1> QED
  BY <1>1, Inductive, PTL

\* No two workers poll one task, and the slot Task::run takes the future from
\* is never empty.
THEOREM RunExclusiveHolds == Spec => []RunExclusive
<1>1. IInv => RunExclusive
  <2> SUFFICES ASSUME IInv PROVE RunExclusive
    BY Zenon
  <2>1. \A w \in Workers : pc[w] = "take" => cur[w] \in Tasks /\ Running(w, cur[w])
    BY Zenon DEF IInv, TypeOK, CallShape, Running, Threads
  <2> QED
    BY <2>1, Zenon DEF IInv, RunShape, OneRunner, RunExclusive
<1> QED
  BY <1>1, Inductive, PTL

\* The debug_assert of begin_poll cannot fire.
THEOREM BeginPollAssertionHolds == Spec => []BeginPollAssertion
<1>1. IInv => BeginPollAssertion
  <2> SUFFICES ASSUME IInv, NEW w \in Workers, pc[w] = "begin_load"
               PROVE "QUEUED" \in state[cur[w]] /\ "RUNNING" \notin state[cur[w]]
    BY Zenon DEF BeginPollAssertion
  <2>1. cur[w] \in Tasks /\ w \in Threads /\ Holds(w, cur[w])
    BY Zenon DEF IInv, TypeOK, CallShape, Holds, Threads
  <2>2. "QUEUED" \in state[cur[w]]
    BY <2>1, Zenon DEF IInv, QueuedOnce
  <2> QED
    BY <2>1, <2>2, Zenon DEF IInv, ByteShape
<1> QED
  BY <1>1, Inductive, PTL

==============================================================================
