------------------------------ MODULE TaskLife -------------------------------
(***************************************************************************)
(* How a task of Task ends, for any number of tasks, workers, wakers and   *)
(* aborts: its result is stored once, its joiner woken and its count given *)
(* back; and the byte implements TaskLifecycle.                            *)
(***************************************************************************)
EXTENDS TaskProofs, FiniteSetTheorems

\* The worker is between begin_poll and the end of its run of the task.
InRun(w, t) == cur[w] = t /\ pc[w] \notin HoldLabels

\* The byte of a task that is being run, or has been for the last time.
Gone(t) == "QUEUED" \notin state[t] /\ state[t] \cap {"RUNNING", "COMPLETE"} # {}

\* What the program counter of a worker in a run says of the result and the hook.
Place(w, t) ==
    /\ pc[w] \in {"drop_unpolled", "check_aborted", "take", "poll", "end_load", "end_cas"} =>
           ~Ended(t) /\ hook[t]
    /\ pc[w] = "finish_state" => ~Ended(t)
    /\ pc[w] \in {"finish_flag", "finish_wake", "wake_joiner", "mark_finished"} => Ended(t)
    /\ pc[w] \in {"set_complete", "clear_running", "fire_hook"} =>
           IF out[w] = "ok" THEN Ended(t) ELSE ~Ended(t) /\ hook[t]

Owners == \A w1, w2 \in Workers, t \in Tasks : InRun(w1, t) /\ InRun(w2, t) => w1 = w2
Placed == \A w \in Workers, t \in Tasks : InRun(w, t) => Gone(t) /\ Place(w, t)

\* A task that has ended, or has lost its hook, is not run again; a joiner asleep
\* before the end has left its waker.
Over == \A t \in Tasks : Ended(t) \/ ~hook[t] => Gone(t)
Waits == \A t \in Tasks : joiner[t] = "asleep" /\ ~Ended(t) => join[t] = "Waiting"

LifeShape == Over /\ Placed /\ Owners /\ Waits

------------------------------------------------------------------------------
\* A step that changes no result, hook or byte and moves no worker within a run.
LEMMA LifeFrame ==
    ASSUME LifeShape, UNCHANGED <<hook, join, joiner>>,
           \A u \in Tasks : \A b \in {"QUEUED", "RUNNING", "COMPLETE"} :
               b \in state'[u] <=> b \in state[u],
           \A w \in Workers, u \in Tasks :
               InRun(w, u)' => InRun(w, u) /\ pc'[w] = pc[w] /\ out'[w] = out[w]
    PROVE  LifeShape'
<1>1. \A u \in Tasks : (Gone(u)' <=> Gone(u)) /\ (Ended(u)' <=> Ended(u))
  BY Zenon DEF Gone, Ended
<1>2. Over' /\ Waits'
  BY <1>1, Zenon DEF LifeShape, Over, Waits
<1>3. Placed'
  BY <1>1, Zenon DEF LifeShape, Placed, Place
<1>4. Owners'
  BY Zenon DEF LifeShape, Owners
<1> QED BY <1>2, <1>3, <1>4, Zenon DEF LifeShape

\* A step of the one worker that runs the task, or is about to.
LEMMA LifeMove ==
    ASSUME LifeShape, NEW w \in Workers, NEW t \in Tasks,
           \A x \in Workers \ {w} : ~InRun(x, t) /\ pc'[x] = pc[x] /\ cur'[x] = cur[x]
                                    /\ out'[x] = out[x],
           \A u \in Tasks \ {t} : /\ state'[u] = state[u] /\ hook'[u] = hook[u]
                                  /\ join'[u] = join[u] /\ joiner'[u] = joiner[u],
           cur'[w] \in {t, NoTask},
           Ended(t)' \/ ~hook'[t] => Gone(t)',
           InRun(w, t)' => Gone(t)' /\ Place(w, t)',
           joiner'[t] = "asleep" /\ ~Ended(t)' => join'[t] = "Waiting"
    PROVE  LifeShape'
<1>1. \A u \in Tasks \ {t} : (Gone(u)' <=> Gone(u)) /\ (Ended(u)' <=> Ended(u))
  BY Zenon DEF Gone, Ended
<1>2. \A x \in Workers, u \in Tasks : InRun(x, u)' =>
          \/ x = w /\ u = t
          \/ x # w /\ u # t /\ InRun(x, u) /\ pc'[x] = pc[x] /\ out'[x] = out[x]
  BY ThreadsAssumption DEF InRun
<1>3. Over' /\ Waits'
  BY <1>1, Zenon DEF LifeShape, Over, Waits
<1>4. Placed'
  <2> SUFFICES ASSUME NEW x \in Workers, NEW u \in Tasks, InRun(x, u)', x # w
               PROVE  Gone(u)' /\ Place(x, u)'
    BY <1>2, Zenon DEF Placed
  <2>1. u \in Tasks \ {t} /\ InRun(x, u) /\ pc'[x] = pc[x] /\ out'[x] = out[x]
    BY <1>2, Zenon
  <2>2. Gone(u) /\ Place(x, u) /\ hook'[u] = hook[u]
    BY <2>1, Zenon DEF LifeShape, Placed
  <2> QED BY <1>1, <2>1, <2>2, Zenon DEF Place
<1>5. Owners'
  BY <1>2, Zenon DEF LifeShape, Owners
<1> QED BY <1>3, <1>4, <1>5, Zenon DEF LifeShape

\* Every step keeps the shape of the ends of tasks.
LEMMA LifeStep == IInv /\ LifeShape /\ [Next]_vars => LifeShape'
<1> SUFFICES ASSUME IInv, LifeShape, [Next]_vars PROVE LifeShape'
  BY Zenon
<1> /\ TypeOK /\ CallShape /\ QueuedOnce /\ ByteShape /\ RunShape
    /\ state \in [Tasks -> SUBSET Bits] /\ DOMAIN hook = Tasks /\ DOMAIN join = Tasks
    /\ DOMAIN joiner = Tasks
    /\ DOMAIN pc = Threads /\ DOMAIN cur = Threads /\ DOMAIN out = Threads
    /\ Workers \subseteq Threads /\ Wakers \subseteq Threads /\ Aborters \subseteq Threads
    /\ \A th \in Threads : pc[th] # "idle" => cur[th] \in Tasks
    /\ \A th \in Threads : pc[th] = "idle" => cur[th] = NoTask
    /\ \A th \in Threads : pc[th] \in CallLabels \ {"push"} => th \notin Workers
    /\ \A th \in Wakers \cup Aborters : th \notin Workers
    /\ NoTask \notin Tasks
  BY Facts, ThreadsAssumption, Zenon DEF TypeOK, CallShape
<1>0. ASSUME NEW w \in Workers, NEW t \in Tasks, InRun(w, t)
      PROVE  /\ \A x \in Workers \ {w} : ~InRun(x, t)
             /\ Gone(t) /\ Place(w, t)
             /\ joiner[t] = "asleep" /\ ~Ended(t) => join[t] = "Waiting"
  BY <1>0, Zenon DEF LifeShape, Owners, Placed, Waits
<1>1. ASSUME NEW t \in Tasks, SpawnCount(t) \/ SpawnSchedule(t) \/ DropWaker(t)
      PROVE  LifeShape'
  <2>1. UNCHANGED <<hook, join, joiner, state, pc, cur, out>>
    BY <1>1, Zenon DEF SpawnCount, SpawnSchedule, DropWaker, joinVars, threadVars
  <2> QED BY <2>1, LifeFrame, Zenon DEF InRun
<1>2. ASSUME NEW w \in Workers,
             BeginLoad(w) \/ PollRegister(w) \/ \E t \in Tasks : Dequeue(w, t)
      PROVE  LifeShape'
  <2>1. /\ UNCHANGED <<hook, join, joiner, state>>
        /\ \A x \in Workers, u \in Tasks :
               InRun(x, u)' => InRun(x, u) /\ pc'[x] = pc[x] /\ out'[x] = out[x]
    BY <1>2,
       Zenon DEF BeginLoad, PollRegister, Dequeue, InRun, HoldLabels, Goto, joinVars, threadVars
  <2> QED BY <2>1, LifeFrame, Zenon
<1>3. ASSUME NEW th \in Threads,
             AbortLoad(th) \/ Schedule(th) \/ \E t \in Tasks : th \in Wakers /\ WakeLoad(th, t)
      PROVE  LifeShape'
  <2>1. /\ UNCHANGED <<hook, join, joiner, state>>
        /\ \A x \in Workers, u \in Tasks :
               InRun(x, u)' => InRun(x, u) /\ pc'[x] = pc[x] /\ out'[x] = out[x]
    BY <1>3 DEF AbortLoad, Schedule, WakeLoad, InRun, HoldLabels, CallLabels, Goto, Return,
       joinVars
  <2> QED BY <2>1, LifeFrame, Zenon
<1>4. ASSUME NEW th \in Aborters, NEW t \in Tasks, AbortOr(th, t) PROVE LifeShape'
  <2>1. /\ UNCHANGED <<hook, join, joiner>>
        /\ \A x \in Workers, u \in Tasks :
               InRun(x, u)' => InRun(x, u) /\ pc'[x] = pc[x] /\ out'[x] = out[x]
    BY <1>4 DEF AbortOr, InRun, HoldLabels, Goto, joinVars
  <2>2. \A u \in Tasks : \A b \in {"QUEUED", "RUNNING", "COMPLETE"} :
            b \in state'[u] <=> b \in state[u]
    BY <1>4 DEF AbortOr
  <2> QED BY <2>1, <2>2, LifeFrame, Zenon
<1>5. ASSUME NEW w \in Workers, DropUnpolled(w) \/ CheckAborted(w) \/ TakeFuture(w)
      PROVE  LifeShape'
  <2> PICK t \in Tasks : t = cur[w]
    BY <1>5, Zenon DEF DropUnpolled, CheckAborted, TakeFuture
  <2>0. pc[w] = "take" => future[t]
    BY Zenon DEF RunShape, Running
  <2>1. InRun(w, t)
    BY <1>5, Zenon DEF DropUnpolled, CheckAborted, TakeFuture, InRun, HoldLabels
  <2>2. /\ \A x \in Workers \ {w} : ~InRun(x, t)
        /\ Gone(t) /\ Place(w, t)
        /\ joiner[t] = "asleep" /\ ~Ended(t) => join[t] = "Waiting"
    BY <1>0, <2>1, Zenon
  <2>3. Gone(t)'
    BY <1>5, <2>2, Zenon DEF DropUnpolled, CheckAborted, TakeFuture, Gone
  <2>4. /\ \A x \in Workers \ {w} : pc'[x] = pc[x] /\ cur'[x] = cur[x] /\ out'[x] = out[x]
        /\ \A u \in Tasks \ {t} : /\ state'[u] = state[u] /\ hook'[u] = hook[u]
                                  /\ join'[u] = join[u] /\ joiner'[u] = joiner[u]
        /\ cur'[w] \in {t, NoTask}
    BY <1>5, Zenon DEF DropUnpolled, CheckAborted, TakeFuture, Goto, Return, joinVars
  <2>5. InRun(w, t)' => Place(w, t)'
    BY <1>5, <2>2, <2>0 DEF DropUnpolled, CheckAborted, TakeFuture, Place, InRun, HoldLabels, Ended, Goto, Return,
       joinVars
  <2>6. joiner'[t] = "asleep" /\ ~Ended(t)' => join'[t] = "Waiting"
    BY <1>5, <2>2, Zenon DEF DropUnpolled, CheckAborted, TakeFuture, Ended, joinVars
  <2> QED BY <2>2, <2>3, <2>4, <2>5, <2>6, LifeMove
<1>6. ASSUME NEW w \in Workers, PollReady(w) \/ PollPending(w) \/ PollPanic(w) \/ EndLoad(w)
      PROVE  LifeShape'
  <2> PICK t \in Tasks : t = cur[w]
    BY <1>6, Zenon DEF PollReady, PollPending, PollPanic, EndLoad
  <2>1. InRun(w, t)
    BY <1>6, Zenon DEF PollReady, PollPending, PollPanic, EndLoad, InRun, HoldLabels
  <2>2. /\ \A x \in Workers \ {w} : ~InRun(x, t)
        /\ Gone(t) /\ Place(w, t)
        /\ joiner[t] = "asleep" /\ ~Ended(t) => join[t] = "Waiting"
    BY <1>0, <2>1, Zenon
  <2>3. Gone(t)'
    BY <1>6, <2>2, Zenon DEF PollReady, PollPending, PollPanic, EndLoad, Gone
  <2>4. /\ \A x \in Workers \ {w} : pc'[x] = pc[x] /\ cur'[x] = cur[x] /\ out'[x] = out[x]
        /\ \A u \in Tasks \ {t} : /\ state'[u] = state[u] /\ hook'[u] = hook[u]
                                  /\ join'[u] = join[u] /\ joiner'[u] = joiner[u]
        /\ cur'[w] \in {t, NoTask}
    BY <1>6,
       Zenon DEF PollReady, PollPending, PollPanic, EndLoad, Goto, Return, joinVars
  <2>5. InRun(w, t)' => Place(w, t)'
    BY <1>6, <2>2 DEF PollReady, PollPending, PollPanic, EndLoad, Place, InRun, HoldLabels, Ended, Goto, Return,
       joinVars
  <2>6. joiner'[t] = "asleep" /\ ~Ended(t)' => join'[t] = "Waiting"
    BY <1>6, <2>2, Zenon DEF PollReady, PollPending, PollPanic, EndLoad, Ended, joinVars
  <2> QED BY <2>2, <2>3, <2>4, <2>5, <2>6, LifeMove
<1>7. ASSUME NEW w \in Workers, FireHook(w) \/ FinishState(w) \/ FinishFlag(w)
      PROVE  LifeShape'
  <2> PICK t \in Tasks : t = cur[w]
    BY <1>7, Zenon DEF FireHook, FinishState, FinishFlag
  <2>1. InRun(w, t)
    BY <1>7, Zenon DEF FireHook, FinishState, FinishFlag, InRun, HoldLabels
  <2>2. /\ \A x \in Workers \ {w} : ~InRun(x, t)
        /\ Gone(t) /\ Place(w, t)
        /\ joiner[t] = "asleep" /\ ~Ended(t) => join[t] = "Waiting"
    BY <1>0, <2>1, Zenon
  <2>3. Gone(t)'
    BY <1>7, <2>2, Zenon DEF FireHook, FinishState, FinishFlag, Gone
  <2>4. /\ \A x \in Workers \ {w} : pc'[x] = pc[x] /\ cur'[x] = cur[x] /\ out'[x] = out[x]
        /\ \A u \in Tasks \ {t} : /\ state'[u] = state[u] /\ hook'[u] = hook[u]
                                  /\ join'[u] = join[u] /\ joiner'[u] = joiner[u]
        /\ cur'[w] \in {t, NoTask}
    BY <1>7, Zenon DEF FireHook, FinishState, FinishFlag, Goto, Return, joinVars
  <2>5. InRun(w, t)' => Place(w, t)'
    BY <1>7, <2>2 DEF FireHook, FinishState, FinishFlag, Place, InRun, HoldLabels, Ended, Goto, Return,
       joinVars, AfterFinish
  <2>6. joiner'[t] = "asleep" /\ ~Ended(t)' => join'[t] = "Waiting"
    BY <1>7, <2>2, Zenon DEF FireHook, FinishState, FinishFlag, Ended, joinVars
  <2> QED BY <2>2, <2>3, <2>4, <2>5, <2>6, LifeMove
<1>8. ASSUME NEW w \in Workers, WakeJoiner(w) \/ MarkFinished(w)
      PROVE  LifeShape'
  <2> PICK t \in Tasks : t = cur[w]
    BY <1>8, Zenon DEF WakeJoiner, MarkFinished
  <2>1. InRun(w, t)
    BY <1>8, Zenon DEF WakeJoiner, MarkFinished, InRun, HoldLabels
  <2>2. /\ \A x \in Workers \ {w} : ~InRun(x, t)
        /\ Gone(t) /\ Place(w, t)
        /\ joiner[t] = "asleep" /\ ~Ended(t) => join[t] = "Waiting"
    BY <1>0, <2>1, Zenon
  <2>3. Gone(t)'
    BY <1>8, <2>2, Zenon DEF WakeJoiner, MarkFinished, Gone
  <2>4. /\ \A x \in Workers \ {w} : pc'[x] = pc[x] /\ cur'[x] = cur[x] /\ out'[x] = out[x]
        /\ \A u \in Tasks \ {t} : /\ state'[u] = state[u] /\ hook'[u] = hook[u]
                                  /\ join'[u] = join[u] /\ joiner'[u] = joiner[u]
        /\ cur'[w] \in {t, NoTask}
    BY <1>8, Zenon DEF WakeJoiner, MarkFinished, Goto, Return, joinVars
  <2>5. InRun(w, t)' => Place(w, t)'
    BY <1>8, <2>2,
       Zenon DEF WakeJoiner, MarkFinished, Place, InRun, HoldLabels, Ended, Goto, Return,
       joinVars, AfterFinish
  <2>6. joiner'[t] = "asleep" /\ ~Ended(t)' => join'[t] = "Waiting"
    BY <1>8, <2>2, Zenon DEF WakeJoiner, MarkFinished, Ended, joinVars
  <2> QED BY <2>2, <2>3, <2>4, <2>5, <2>6, LifeMove
<1>9. ASSUME NEW w \in Workers, SetComplete(w) \/ ClearRunning(w)
      PROVE  LifeShape'
  <2> PICK t \in Tasks : t = cur[w]
    BY <1>9, Zenon DEF SetComplete, ClearRunning
  <2>1. InRun(w, t)
    BY <1>9, Zenon DEF SetComplete, ClearRunning, InRun, HoldLabels
  <2>2. /\ \A x \in Workers \ {w} : ~InRun(x, t)
        /\ Gone(t) /\ Place(w, t)
        /\ joiner[t] = "asleep" /\ ~Ended(t) => join[t] = "Waiting"
    BY <1>0, <2>1, Zenon
  <2>3. Gone(t)'
    BY <1>9, <2>2 DEF SetComplete, ClearRunning, Gone, RunShape, Running
  <2>4. /\ \A x \in Workers \ {w} : pc'[x] = pc[x] /\ cur'[x] = cur[x] /\ out'[x] = out[x]
        /\ \A u \in Tasks \ {t} : /\ state'[u] = state[u] /\ hook'[u] = hook[u]
                                  /\ join'[u] = join[u] /\ joiner'[u] = joiner[u]
        /\ cur'[w] \in {t, NoTask}
    BY <1>9, Zenon DEF SetComplete, ClearRunning, Goto, Return, joinVars
  <2>5. InRun(w, t)' => Place(w, t)'
    BY <1>9, <2>2 DEF SetComplete, ClearRunning, Place, InRun, HoldLabels, Ended, Goto, Return,
       joinVars
  <2>6. joiner'[t] = "asleep" /\ ~Ended(t)' => join'[t] = "Waiting"
    BY <1>9, <2>2, Zenon DEF SetComplete, ClearRunning, Ended, joinVars
  <2> QED BY <2>2, <2>3, <2>4, <2>5, <2>6, LifeMove
<1>10. ASSUME NEW w \in Workers, BeginCas(w) PROVE LifeShape'
  <2> PICK t \in Tasks : t = cur[w]
    BY <1>10, Zenon DEF BeginCas
  <2>1. CASE state[t] # seen[w]
    <3>1. /\ UNCHANGED <<hook, join, joiner, state>>
          /\ \A x \in Workers, u \in Tasks :
                 InRun(x, u)' => InRun(x, u) /\ pc'[x] = pc[x] /\ out'[x] = out[x]
      BY <1>10, <2>1, Zenon DEF BeginCas, InRun, HoldLabels, Goto, joinVars
    <3> QED BY <3>1, LifeFrame, Zenon
  <2>2. CASE state[t] = seen[w]
    <3>1. "QUEUED" \in state[t]
      BY <1>10, Zenon DEF BeginCas, QueuedOnce, Holds
    <3>2. /\ \A x \in Workers : ~InRun(x, t)
          /\ ~Ended(t) /\ hook[t]
      BY <3>1, Zenon DEF LifeShape, Placed, Over, Gone
    <3>3. Gone(t)'
      BY <1>10, <2>2, Zenon DEF BeginCas, BeginByte, Gone
    <3>4. /\ \A x \in Workers \ {w} : pc'[x] = pc[x] /\ cur'[x] = cur[x] /\ out'[x] = out[x]
          /\ \A u \in Tasks \ {t} : /\ state'[u] = state[u] /\ hook'[u] = hook[u]
                                    /\ join'[u] = join[u] /\ joiner'[u] = joiner[u]
          /\ cur'[w] \in {t, NoTask}
      BY <1>10, Zenon DEF BeginCas, Goto, joinVars
    <3>5. Place(w, t)'
      BY <1>10, <2>2, <3>2, Zenon DEF BeginCas, Place, Ended, Goto, joinVars
    <3>6. joiner'[t] = "asleep" /\ ~Ended(t)' => join'[t] = "Waiting"
      BY <1>10, Zenon DEF BeginCas, Ended, joinVars, LifeShape, Waits
    <3> QED BY <3>2, <3>3, <3>4, <3>5, <3>6, LifeMove
  <2> QED BY <2>1, <2>2, Zenon
<1>11. ASSUME NEW w \in Workers, EndCas(w) PROVE LifeShape'
  <2> PICK t \in Tasks : t = cur[w]
    BY <1>11, Zenon DEF EndCas
  <2>1. CASE state[t] # seen[w]
    <3>1. UNCHANGED <<hook, join, joiner, state, pc, cur, out>>
      BY <1>11, <2>1, Zenon DEF EndCas, joinVars
    <3> QED BY <3>1, LifeFrame, Zenon DEF InRun
  <2>2. CASE state[t] = seen[w]
    <3>1. InRun(w, t) /\ pc[w] = "end_cas"
      BY <1>11, Zenon DEF EndCas, InRun, HoldLabels
    <3>2. (\A x \in Workers \ {w} : ~InRun(x, t)) /\ ~Ended(t) /\ hook[t]
      BY <1>0, <3>1, Zenon DEF Place
    <3>3. /\ \A x \in Workers \ {w} : pc'[x] = pc[x] /\ cur'[x] = cur[x] /\ out'[x] = out[x]
          /\ \A u \in Tasks \ {t} : /\ state'[u] = state[u] /\ hook'[u] = hook[u]
                                    /\ join'[u] = join[u] /\ joiner'[u] = joiner[u]
          /\ cur'[w] \in {t, NoTask}
      BY <1>11, <2>2 DEF EndCas, Goto, Return, joinVars
    <3>4. UNCHANGED <<hook, join, joiner>> /\ ~InRun(w, t)'
      BY <1>11, <2>2, Zenon DEF EndCas, InRun, HoldLabels, Goto, Return, joinVars
    <3>5. joiner'[t] = "asleep" /\ ~Ended(t)' => join'[t] = "Waiting"
      BY <3>4, Zenon DEF Ended, LifeShape, Waits
    <3>6. ~Ended(t)' /\ hook'[t]
      BY <3>2, <3>4, Zenon DEF Ended
    <3> QED BY <3>2, <3>3, <3>4, <3>5, <3>6, LifeMove
  <2> QED BY <2>1, <2>2, Zenon
<1>12. ASSUME NEW th \in Threads, WakeCas(th) PROVE LifeShape'
  <2> PICK t \in Tasks : t = cur[th]
    BY <1>12, Zenon DEF WakeCas
  <2>1. /\ UNCHANGED <<hook, join, joiner>>
        /\ \A x \in Workers, u \in Tasks :
               (InRun(x, u)' <=> InRun(x, u)) /\ pc'[x] = pc[x] /\ out'[x] = out[x]
    BY <1>12 DEF WakeCas, InRun, HoldLabels, CallLabels, Goto, Return, joinVars
  <2>2. CASE \A u \in Tasks : \A b \in {"QUEUED", "RUNNING", "COMPLETE"} :
                 b \in state'[u] <=> b \in state[u]
    BY <2>1, <2>2, LifeFrame, Zenon
  <2>3. CASE /\ ~Gone(t) /\ "QUEUED" \notin state[t]
             /\ \A u \in Tasks \ {t} : state'[u] = state[u]
    <3>1. ~Ended(t) /\ hook[t] /\ \A x \in Workers : ~InRun(x, t)
      BY <2>3, Zenon DEF LifeShape, Over, Placed
    <3>2. \A u \in Tasks : (Ended(u)' <=> Ended(u)) /\ (u # t => (Gone(u)' <=> Gone(u)))
      BY <2>1, <2>3, Zenon DEF Ended, Gone
    <3>3. Over' /\ Waits'
      BY <2>1, <3>1, <3>2, Zenon DEF LifeShape, Over, Waits
    <3>4. Placed'
      BY <2>1, <3>1, <3>2 DEF LifeShape, Placed, Place
    <3>5. Owners'
      BY <2>1, Zenon DEF LifeShape, Owners
    <3> QED BY <3>3, <3>4, <3>5, Zenon DEF LifeShape
  <2> QED
    <3>1. CASE state' = state
      BY <2>2, <3>1, Zenon
    <3>2. CASE ~WakeIsNoOp(state[t]) /\ state' = [state EXCEPT ![t] = WakeByte(@)]
      <4>1. CASE "RUNNING" \in state[t]
        BY <2>2, <3>2, <4>1, Zenon DEF WakeByte
      <4>2. CASE "RUNNING" \notin state[t]
        BY <2>3, <3>2, <4>2, Zenon DEF WakeByte, WakeIsNoOp, Gone
      <4> QED BY <4>1, <4>2, Zenon
    <3> QED BY <1>12, <3>1, <3>2, Zenon DEF WakeCas
<1>13. ASSUME NEW t \in Tasks, JoinPoll(t) PROVE LifeShape'
  <2>1. UNCHANGED <<hook, state, pc, cur, out>>
    BY <1>13, Zenon DEF JoinPoll, threadVars
  <2>2. \A u \in Tasks : (Ended(u)' <=> Ended(u)) /\ (Gone(u)' <=> Gone(u))
    BY <1>13, Zenon DEF JoinPoll, Ended, Gone
  <2>3. Over' /\ Placed' /\ Owners'
    BY <2>1, <2>2, Zenon DEF LifeShape, Over, Placed, Place, Owners, InRun
  <2>4. Waits'
    BY <1>13, Zenon DEF JoinPoll, LifeShape, Waits, Ended
  <2> QED BY <2>3, <2>4, Zenon DEF LifeShape
<1>14. CASE UNCHANGED vars
  BY <1>14, LifeFrame, Zenon DEF vars, InRun
<1> QED
  BY <1>1, <1>2, <1>3, <1>4, <1>5, <1>6, <1>7, <1>8, <1>9, <1>10, <1>11, <1>12, <1>13, <1>14,
     Zenon
     DEF Next, Run, Call, Threads

------------------------------------------------------------------------------
(* The joiner *)

\* The worker at finish_state finds a task without a result.
LEMMA FinishesOnce ==
    ASSUME IInv, LifeShape, NEW w \in Workers, pc[w] = "finish_state"
    PROVE  cur[w] \in Tasks /\ ~Ended(cur[w])
<1>1. cur[w] \in Tasks /\ InRun(w, cur[w])
  BY Facts, Zenon DEF InRun, HoldLabels
<1> QED BY <1>1, Zenon DEF LifeShape, Placed, Place

\* Every step keeps the waker of a sleeping joiner in the hands of the worker that
\* stored the result.
LEMMA JoinerStep == IInv /\ LifeShape /\ JoinerWoken /\ [Next]_vars => JoinerWoken'
<1> SUFFICES ASSUME IInv, LifeShape, JoinerWoken, [Next]_vars PROVE JoinerWoken'
  BY Zenon
<1> /\ DOMAIN join = Tasks /\ DOMAIN joiner = Tasks /\ DOMAIN result = Tasks /\ DOMAIN spawn = Tasks
    /\ DOMAIN pc = Threads /\ DOMAIN cur = Threads
    /\ Workers \subseteq Threads /\ Wakers \subseteq Threads /\ Aborters \subseteq Threads
    /\ \A th \in Threads : pc[th] # "idle" => cur[th] \in Tasks
    /\ \A th \in Threads : pc[th] = "idle" => cur[th] = NoTask
    /\ \A th \in Threads : pc[th] \in CallLabels \ {"push"} => th \notin Workers
    /\ \A th \in Wakers \cup Aborters : th \notin Workers
    /\ NoTask \notin Tasks
  BY Facts, ThreadsAssumption, Zenon DEF TypeOK, CallShape
<1> DEFINE Signals(x) == pc[x] \in {"finish_wake", "wake_joiner"}
<1>a. ASSUME UNCHANGED <<join, joiner>>,
             \A x \in Workers : Signals(x) => pc'[x] = pc[x] /\ cur'[x] = cur[x]
      PROVE  JoinerWoken'
  BY <1>a DEF JoinerWoken, Ended
<1>1. ASSUME NEW t \in Tasks, SpawnCount(t) \/ SpawnSchedule(t) \/ DropWaker(t)
      PROVE  JoinerWoken'
  BY <1>1, <1>a, Zenon DEF SpawnCount, SpawnSchedule, DropWaker, joinVars, threadVars
<1>2. ASSUME NEW w \in Workers, NEW t \in Tasks, Dequeue(w, t) PROVE JoinerWoken'
  BY <1>2, <1>a, Zenon DEF Dequeue, Goto, joinVars
<1>3. ASSUME NEW w \in Workers,
              BeginLoad(w) \/ BeginCas(w) \/ DropUnpolled(w) \/ CheckAborted(w) \/ TakeFuture(w)
              \/ PollRegister(w) \/ PollReady(w) \/ PollPending(w) \/ PollPanic(w)
      PROVE  JoinerWoken'
  BY <1>3, <1>a,
     Zenon DEF BeginLoad, BeginCas, DropUnpolled, CheckAborted, TakeFuture, PollRegister,
     PollReady, PollPending, PollPanic, Goto, joinVars, threadVars
<1>4. ASSUME NEW w \in Workers,
              EndLoad(w) \/ EndCas(w) \/ SetComplete(w) \/ ClearRunning(w) \/ FireHook(w)
              \/ MarkFinished(w)
      PROVE  JoinerWoken'
  BY <1>4, <1>a,
     Zenon DEF EndLoad, EndCas, SetComplete, ClearRunning, FireHook, MarkFinished, Goto, Return, joinVars
<1>5. ASSUME NEW th \in Wakers, NEW t \in Tasks, WakeLoad(th, t) PROVE JoinerWoken'
  BY <1>5, <1>a, Zenon DEF WakeLoad, Goto, joinVars
<1>6. ASSUME NEW th \in Aborters, NEW t \in Tasks, AbortOr(th, t) PROVE JoinerWoken'
  BY <1>6, <1>a, Zenon DEF AbortOr, Goto, joinVars
<1>7. ASSUME NEW th \in Threads, Call(th) PROVE JoinerWoken'
  BY <1>7, <1>a, Zenon DEF Call, AbortLoad, WakeCas, Schedule, Goto, Return, joinVars
<1>8. ASSUME NEW w \in Workers, FinishState(w) PROVE JoinerWoken'
  <2> PICK t \in Tasks : t = cur[w]
    BY <1>8, Zenon DEF FinishState
  <2>1. ~Ended(t) /\ (joiner[t] = "asleep" => join[t] = "Waiting")
    BY <1>8, FinishesOnce, Zenon DEF FinishState, LifeShape, Waits
  <2>2. /\ joiner' = joiner /\ cur' = cur /\ pc[w] = "finish_state"
        /\ join' = [join EXCEPT ![t] = "Done"]
        /\ pc' = [pc EXCEPT ![w] = IF join[t] = "Waiting" THEN "finish_wake" ELSE "finish_flag"]
    BY <1>8, Zenon DEF FinishState, Goto
  <2> QED BY <2>1, <2>2, Zenon DEF JoinerWoken, Ended
<1>9. ASSUME NEW w \in Workers, FinishFlag(w) PROVE JoinerWoken'
  BY <1>9, Zenon DEF FinishFlag, Goto, JoinerWoken, Ended
<1>10. ASSUME NEW w \in Workers, WakeJoiner(w) PROVE JoinerWoken'
  BY <1>10 DEF WakeJoiner, Goto, JoinerWoken, Ended
<1>11. ASSUME NEW t \in Tasks, JoinPoll(t) PROVE JoinerWoken'
  BY <1>11 DEF JoinPoll, threadVars, JoinerWoken, Ended
<1>12. CASE UNCHANGED vars
  BY <1>12, <1>a, Zenon DEF vars
<1> QED
  BY <1>1, <1>2, <1>3, <1>4, <1>5, <1>6, <1>7, <1>8, <1>9, <1>10, <1>11, <1>12,
     Zenon DEF Next, Run

------------------------------------------------------------------------------
(* The count of active tasks *)

Busy(t) == \E w \in Workers : cur[w] = t /\ pc[w] # "idle"
Unfinished == {t \in Tasks : spawn[t] # "no" /\ (~Ended(t) \/ Busy(t))}
Counted == IsFiniteSet(Unfinished) /\ active = Cardinality(Unfinished)

\* A task that is queued, being spawned, or held by who pops or pushes it has not
\* ended.
LEMMA QueuedNotEnded ==
    ASSUME IInv, LifeShape, NEW t \in Tasks,
           queue[t] > 0 \/ spawn[t] # "done" \/ \E th \in Threads : Holds(th, t)
    PROVE  ~Ended(t)
<1>1. "QUEUED" \in state[t]
  BY Facts DEF QueuedOnce
<1> QED BY <1>1, Zenon DEF LifeShape, Over, Gone

\* Every step keeps active_tasks the number of unfinished tasks.
LEMMA ActiveStep == IInv /\ LifeShape /\ Counted /\ [Next]_vars => Counted'
<1> SUFFICES ASSUME IInv, LifeShape, Counted, [Next]_vars PROVE Counted'
  BY Zenon
<1> /\ DOMAIN join = Tasks /\ DOMAIN joiner = Tasks /\ DOMAIN result = Tasks /\ DOMAIN spawn = Tasks
    /\ DOMAIN pc = Threads /\ DOMAIN cur = Threads
    /\ Workers \subseteq Threads /\ Wakers \subseteq Threads /\ Aborters \subseteq Threads
    /\ \A th \in Threads : pc[th] # "idle" => cur[th] \in Tasks
    /\ \A th \in Threads : pc[th] = "idle" => cur[th] = NoTask
    /\ \A th \in Threads : pc[th] \in CallLabels \ {"push"} => th \notin Workers
    /\ \A th \in Wakers \cup Aborters : th \notin Workers
    /\ NoTask \notin Tasks
  BY Facts, ThreadsAssumption, Zenon DEF TypeOK, CallShape
<1>a. ASSUME active' = active, \A u \in Tasks : u \in Unfinished' <=> u \in Unfinished
      PROVE  Counted'
  <2>1. Unfinished' = Unfinished
    BY <1>a, Zenon DEF Unfinished
  <2> QED BY <1>a, <2>1, Zenon DEF Counted
<1>b. ASSUME active' = active, \A u \in Tasks : Ended(u)' <=> Ended(u), spawn' = spawn,
             \A x \in Workers : pc'[x] = pc[x] /\ cur'[x] = cur[x]
      PROVE  Counted'
  BY <1>a, <1>b, Zenon DEF Unfinished, Busy
<1>c. ASSUME active' = active, spawn' = spawn, NEW w \in Workers, NEW t \in Tasks, cur[w] = t,
             \A u \in Tasks \ {t} : Ended(u)' <=> Ended(u), pc[w] # "idle",
             \A x \in Workers \ {w} : pc'[x] = pc[x] /\ cur'[x] = cur[x],
             \/ cur'[w] = t /\ pc'[w] # "idle"
             \/ cur'[w] = NoTask /\ ~Ended(t)'
      PROVE  Counted'
  BY <1>a, <1>c DEF Unfinished, Busy
<1>1. ASSUME NEW t \in Tasks, SpawnCount(t) PROVE Counted'
  <2>1. ~Ended(t) /\ t \notin Unfinished /\ spawn[t] = "no"
    BY <1>1, QueuedNotEnded, Zenon DEF SpawnCount, Unfinished
  <2>2. /\ UNCHANGED <<join, pc, cur>> /\ active' = active + 1
        /\ spawn' = [spawn EXCEPT ![t] = "counted"]
    BY <1>1, Zenon DEF SpawnCount, joinVars, threadVars
  <2>3. Unfinished' = Unfinished \cup {t}
    BY <2>1, <2>2, Zenon DEF Unfinished, Busy, Ended
  <2> QED BY <2>1, <2>2, <2>3, FS_AddElement, Zenon DEF Counted
<1>2. ASSUME NEW t \in Tasks, SpawnSchedule(t) PROVE Counted'
  BY <1>2, <1>a, Zenon DEF SpawnSchedule, joinVars, threadVars, Unfinished, Busy, Ended
<1>3. ASSUME NEW t \in Tasks, DropWaker(t) PROVE Counted'
  BY <1>3, <1>b, Zenon DEF DropWaker, joinVars, threadVars, Ended
<1>4. ASSUME NEW t \in Tasks, JoinPoll(t) PROVE Counted'
  BY <1>4, <1>b, Zenon DEF JoinPoll, threadVars, Ended
<1>5. ASSUME NEW w \in Workers, NEW t \in Tasks, Dequeue(w, t) PROVE Counted'
  <2>1. ~Ended(t) /\ spawn[t] = "done"
    BY <1>5, QueuedNotEnded, Facts DEF Dequeue, QueuedOnce
  <2>2. /\ UNCHANGED <<join, spawn, active>> /\ pc[w] = "idle" /\ cur[w] = NoTask
        /\ pc' = [pc EXCEPT ![w] = "begin_load"] /\ cur' = [cur EXCEPT ![w] = t]
    BY <1>5, Zenon DEF Dequeue, Goto, joinVars
  <2> QED BY <1>a, <2>1, <2>2, Zenon DEF Unfinished, Busy, Ended
<1>6. ASSUME NEW w \in Workers,
              BeginLoad(w) \/ BeginCas(w) \/ DropUnpolled(w) \/ CheckAborted(w) \/ TakeFuture(w)
              \/ PollRegister(w) \/ PollReady(w) \/ PollPending(w) \/ PollPanic(w)
      PROVE  Counted'
  <2> PICK t \in Tasks : t = cur[w]
    BY <1>6,
       Zenon DEF BeginLoad, BeginCas, DropUnpolled, CheckAborted, TakeFuture, PollRegister,
     PollReady, PollPending, PollPanic
  <2>1. /\ UNCHANGED <<join, spawn, active, cur>> /\ pc[w] # "idle" /\ pc'[w] # "idle"
        /\ \A x \in Workers \ {w} : pc'[x] = pc[x]
    BY <1>6,
       Zenon DEF BeginLoad, BeginCas, DropUnpolled, CheckAborted, TakeFuture, PollRegister,
     PollReady, PollPending, PollPanic, Goto, joinVars, threadVars
  <2> QED BY <1>c, <2>1, Zenon DEF Ended
<1>7. ASSUME NEW w \in Workers,
             \/ EndLoad(w) \/ SetComplete(w) \/ ClearRunning(w) \/ FireHook(w)
             \/ FinishState(w) \/ FinishFlag(w) \/ WakeJoiner(w)
      PROVE  Counted'
  <2> PICK t \in Tasks : t = cur[w]
    BY <1>7,
       Zenon DEF EndLoad, SetComplete, ClearRunning, FireHook, FinishState, FinishFlag, WakeJoiner
  <2>1. /\ UNCHANGED <<spawn, active, cur>> /\ pc[w] # "idle" /\ pc'[w] # "idle"
        /\ \A x \in Workers \ {w} : pc'[x] = pc[x]
        /\ \A u \in Tasks \ {t} : Ended(u)' <=> Ended(u)
    BY <1>7,
       Zenon DEF EndLoad, SetComplete, ClearRunning, FireHook, FinishState, FinishFlag,
       WakeJoiner, AfterFinish, Goto, joinVars, Ended
  <2> QED BY <1>c, <2>1, Zenon
<1>8. ASSUME NEW w \in Workers, EndCas(w) PROVE Counted'
  <2> PICK t \in Tasks : t = cur[w]
    BY <1>8, Zenon DEF EndCas
  <2>1. /\ UNCHANGED <<join, spawn, active>> /\ pc[w] = "end_cas"
        /\ \A x \in Workers \ {w} : pc'[x] = pc[x] /\ cur'[x] = cur[x]
        /\ (cur'[w] = t /\ pc'[w] # "idle") \/ cur'[w] = NoTask
    BY <1>8, Zenon DEF EndCas, Goto, Return, joinVars
  <2>2. ~Ended(t)
    BY <2>1, Zenon DEF LifeShape, Placed, Place, InRun, HoldLabels
  <2> QED BY <1>c, <2>1, <2>2, Zenon DEF Ended
<1>9. ASSUME NEW w \in Workers, MarkFinished(w) PROVE Counted'
  <2> PICK t \in Tasks : t = cur[w]
    BY <1>9, Zenon DEF MarkFinished
  <2>1. /\ UNCHANGED <<join, spawn>> /\ active' = active - 1 /\ pc[w] = "mark_finished"
        /\ pc' = [pc EXCEPT ![w] = "idle"] /\ cur' = [cur EXCEPT ![w] = NoTask]
    BY <1>9, Zenon DEF MarkFinished, Goto, Return, joinVars
  <2>2. InRun(w, t)
    BY <2>1, Zenon DEF InRun, HoldLabels
  <2>3. Ended(t) /\ Gone(t) /\ \A x \in Workers : InRun(x, t) => x = w
    BY <2>1, <2>2, Zenon DEF LifeShape, Owners, Placed, Place
  <2>4. spawn[t] = "done" /\ \A x \in Threads : ~Holds(x, t)
    BY <2>3, QueuedNotEnded, Zenon
  <2>5. \A x \in Workers : cur[x] = t => x = w
    BY <2>3, <2>4, Zenon DEF InRun, Holds, HoldLabels
  <2>6. t \in Unfinished
    BY <2>1, <2>4, Zenon DEF Unfinished, Busy
  <2>7. Unfinished' = Unfinished \ {t}
    BY <2>1, <2>3, <2>5, Zenon DEF Unfinished, Busy, Ended
  <2> QED BY <2>1, <2>6, <2>7, FS_RemoveElement, Zenon DEF Counted
<1>10. ASSUME NEW th \in Threads, Schedule(th) PROVE Counted'
  <2> PICK t \in Tasks : t = cur[th]
    BY <1>10, Zenon DEF Schedule
  <2>1. /\ UNCHANGED <<join, spawn, active>> /\ pc[th] = "push"
        /\ \A x \in Threads \ {th} : pc'[x] = pc[x] /\ cur'[x] = cur[x]
        /\ cur'[th] = NoTask
    BY <1>10, Zenon DEF Schedule, Goto, Return, joinVars
  <2>2. ~Ended(t)
    BY <2>1, QueuedNotEnded, Zenon DEF Holds
  <2>3. CASE th \in Workers
    BY <1>c, <2>1, <2>2, <2>3, Zenon DEF Ended
  <2>4. CASE th \notin Workers
    BY <1>b, <2>1, <2>4, Zenon DEF Ended
  <2> QED BY <2>3, <2>4, Zenon
<1>11. ASSUME NEW th \in Threads, AbortLoad(th) \/ WakeCas(th) PROVE Counted'
  <2>1. /\ UNCHANGED <<join, spawn, active>> /\ th \notin Workers
        /\ \A x \in Threads \ {th} : pc'[x] = pc[x] /\ cur'[x] = cur[x]
    BY <1>11, Zenon DEF AbortLoad, WakeCas, CallLabels, Goto, Return, joinVars
  <2> QED BY <1>b, <2>1, Zenon DEF Ended
<1>12. ASSUME NEW th \in Wakers, NEW t \in Tasks, WakeLoad(th, t) PROVE Counted'
  BY <1>12, <1>b, Zenon DEF WakeLoad, Goto, joinVars, Ended
<1>13. ASSUME NEW th \in Aborters, NEW t \in Tasks, AbortOr(th, t) PROVE Counted'
  BY <1>13, <1>b, Zenon DEF AbortOr, Goto, joinVars, Ended
<1>14. CASE UNCHANGED vars
  BY <1>14, <1>b, Zenon DEF vars, Ended
<1> QED
  BY <1>1, <1>2, <1>3, <1>4, <1>5, <1>6, <1>7, <1>8, <1>9, <1>10, <1>11, <1>12, <1>13, <1>14,
     Zenon
     DEF Next, Run, Call

------------------------------------------------------------------------------
(* The theorems *)

\* The inductive invariant of the ends of tasks.
LInv == IInv /\ LifeShape /\ JoinerWoken /\ Counted

\* It holds in every reachable state.
THEOREM LifeInductive == Spec => []LInv
<1>1. Init => LInv
  <2> SUFFICES ASSUME Init PROVE LifeShape /\ JoinerWoken /\ Counted
    BY InitInv, Zenon DEF LInv
  <2>1. \A t \in Tasks : ~Ended(t) /\ hook[t] /\ joiner[t] = "away" /\ spawn[t] = "no"
    BY Zenon DEF Init, Ended
  <2>2. \A w \in Workers : cur[w] = NoTask
    BY Zenon DEF Init, Threads
  <2>3. LifeShape /\ JoinerWoken
    BY <2>1, <2>2, ThreadsAssumption,
       Zenon DEF LifeShape, Over, Placed, Owners, Waits, InRun, JoinerWoken
  <2>4. Unfinished = {} /\ active = 0
    BY <2>1, Zenon DEF Unfinished, Init
  <2> QED BY <2>3, <2>4, FS_EmptySet, Zenon DEF Counted
<1>2. LInv /\ [Next]_vars => LInv'
  <2>1. IInv /\ [Next]_vars => IInv'
    BY TypeStep, ByteStep, Zenon DEF IInv
  <2> QED BY <2>1, LifeStep, JoinerStep, ActiveStep, Zenon DEF LInv
<1> QED BY <1>1, <1>2, PTL DEF Spec

\* active_tasks, which graceful shutdown waits on, counts exactly the tasks that
\* were spawned and whose last run is not over, however they end.
THEOREM ActiveExactHolds == Spec => []ActiveExact
<1>1. LInv => ActiveExact
  BY Zenon DEF LInv, Counted, Unfinished, Busy, ActiveExact
<1> QED BY <1>1, LifeInductive, PTL

\* No joiner sleeps through the end of its task: JoinInner::finish finds the waker
\* that poll left under the same lock.
THEOREM JoinerWokenHolds == Spec => []JoinerWoken
<1>1. LInv => JoinerWoken
  BY Zenon DEF LInv
<1> QED BY <1>1, LifeInductive, PTL

\* Completion, panic and abort race for the result of a task, and the first stays.
THEOREM JoinResultStableHolds == Spec => JoinResultStable
<1> DEFINE A == \A t \in Tasks : Ended(t) => Ended(t)' /\ result'[t] = result[t]
<1>1. LInv /\ [Next]_vars => [A]_vars
  <2> SUFFICES ASSUME LInv, Next PROVE A
    BY Zenon
  <2> DOMAIN join = Tasks /\ DOMAIN result = Tasks
    BY Zenon DEF LInv, IInv, TypeOK
  <2>1. ASSUME NEW w \in Workers, FinishState(w) PROVE A
    <3>1. cur[w] \in Tasks /\ ~Ended(cur[w])
      BY <2>1, FinishesOnce, Zenon DEF FinishState, LInv
    <3> QED BY <2>1, <3>1, Zenon DEF FinishState, Ended
  <2>2. ASSUME NEW t \in Tasks, JoinPoll(t) PROVE A
    BY <2>2, Zenon DEF JoinPoll, Ended
  <2>3. ASSUME UNCHANGED <<join, result>> PROVE A
    BY <2>3, Zenon DEF Ended
  <2>4. ASSUME NEW t \in Tasks, SpawnCount(t) \/ SpawnSchedule(t) \/ DropWaker(t) PROVE A
    BY <2>3, <2>4, Zenon DEF SpawnCount, SpawnSchedule, DropWaker, joinVars
  <2>5. ASSUME NEW w \in Workers,
               \/ BeginLoad(w) \/ BeginCas(w) \/ DropUnpolled(w) \/ CheckAborted(w)
               \/ TakeFuture(w) \/ PollRegister(w) \/ PollReady(w) \/ PollPending(w)
               \/ PollPanic(w) \/ EndLoad(w) \/ EndCas(w)
        PROVE  A
    BY <2>3, <2>5,
       Zenon DEF BeginLoad, BeginCas, DropUnpolled, CheckAborted, TakeFuture,
       PollRegister, PollReady, PollPending, PollPanic, EndLoad, EndCas, joinVars
  <2>6. ASSUME NEW w \in Workers,
               \/ SetComplete(w) \/ ClearRunning(w) \/ FireHook(w) \/ FinishFlag(w)
               \/ WakeJoiner(w) \/ MarkFinished(w) \/ \E t \in Tasks : Dequeue(w, t)
        PROVE  A
    BY <2>3, <2>6,
       Zenon DEF SetComplete, ClearRunning, FireHook, FinishFlag, WakeJoiner,
       MarkFinished, Dequeue, joinVars
  <2>7. ASSUME NEW th \in Threads, NEW t \in Tasks,
               WakeLoad(th, t) \/ AbortOr(th, t)
        PROVE  A
    BY <2>3, <2>7, Zenon DEF WakeLoad, AbortOr, joinVars
  <2>8. ASSUME NEW th \in Threads, Call(th) PROVE A
    BY <2>3, <2>8, Zenon DEF Call, AbortLoad, WakeCas, Schedule, joinVars
  <2> QED
    BY <2>1, <2>2, <2>4, <2>5, <2>6, <2>7, <2>8, Zenon DEF Next, Run, Threads
<1> QED BY <1>1, LifeInductive, PTL DEF Spec, JoinResultStable

\* Once abort() has set the bit, no worker that has not passed the is_aborted check
\* gets to poll the task.
THEOREM AbortStopsPollingHolds == Spec => AbortStopsPolling
<1> DEFINE P(t) == \E w \in Workers : cur[w] = t /\ pc[w] \in {"take", "poll"}
           A == \A t \in Tasks : "ABORTED" \in state[t] /\ P(t)' => P(t)
<1>1. IInv /\ [Next]_vars => [A]_vars
  <2> SUFFICES ASSUME IInv, Next PROVE A
    BY Zenon
  <2> /\ DOMAIN pc = Threads /\ DOMAIN cur = Threads /\ Workers \subseteq Threads
      /\ Wakers \subseteq Threads /\ Aborters \subseteq Threads
    BY Facts, Zenon
  <2>1. ASSUME \A x \in Workers : pc'[x] \in {"take", "poll"} =>
                   cur'[x] = cur[x] /\ pc[x] \in {"take", "poll"}
        PROVE  A
    BY <2>1, Zenon
  <2>2. ASSUME NEW w \in Workers, CheckAborted(w) PROVE A
    BY <2>2, Zenon DEF CheckAborted, Goto
  <2>3. ASSUME NEW t \in Tasks,
               SpawnCount(t) \/ SpawnSchedule(t) \/ DropWaker(t) \/ JoinPoll(t)
        PROVE  A
    BY <2>1, <2>3, Zenon DEF SpawnCount, SpawnSchedule, DropWaker, JoinPoll, threadVars
  <2>4. ASSUME NEW w \in Workers,
               \/ BeginLoad(w) \/ BeginCas(w) \/ DropUnpolled(w)
               \/ TakeFuture(w) \/ PollRegister(w) \/ PollReady(w) \/ PollPending(w)
        PROVE  A
    BY <2>1, <2>4, Zenon DEF BeginLoad, BeginCas, DropUnpolled, TakeFuture,
       PollRegister, PollReady, PollPending, Goto, threadVars
  <2>5. ASSUME NEW w \in Workers,
               \/ PollPanic(w) \/ EndLoad(w) \/ EndCas(w) \/ SetComplete(w) \/ ClearRunning(w)
               \/ FireHook(w)
        PROVE  A
    BY <2>1, <2>5,
       Zenon DEF PollPanic, EndLoad, EndCas, SetComplete, ClearRunning, FireHook,
       Goto, Return
  <2>6. ASSUME NEW w \in Workers,
               \/ FinishState(w) \/ FinishFlag(w) \/ WakeJoiner(w) \/ MarkFinished(w)
               \/ \E t \in Tasks : Dequeue(w, t)
        PROVE  A
    BY <2>1, <2>6, Zenon DEF FinishState, FinishFlag, WakeJoiner, MarkFinished, Dequeue,
       AfterFinish, Goto, Return
  <2>7. ASSUME NEW th \in Threads, NEW t \in Tasks, WakeLoad(th, t) \/ AbortOr(th, t)
        PROVE  A
    BY <2>1, <2>7, Zenon DEF WakeLoad, AbortOr, Goto
  <2>8. ASSUME NEW th \in Threads, Call(th) PROVE A
    BY <2>1, <2>8, Zenon DEF Call, AbortLoad, WakeCas, Schedule, Goto, Return
  <2> HIDE DEF A
  <2> QED
    BY <2>2, <2>3, <2>4, <2>5, <2>6, <2>7, <2>8, Zenon DEF Next, Run, Threads
<1> QED BY <1>1, Inductive, PTL DEF Spec, AbortStopsPolling

------------------------------------------------------------------------------
(* The refinement of TaskLifecycle *)

\* One task goes from one phase to another.
LEMMA LifecycleMove ==
    ASSUME NEW t \in Tasks, \A u \in Tasks \ {t} : Phase(u)' = Phase(u),
           <<Phase(t), Phase(t)'>> \in
               {<<"fresh", "queued">>, <<"idle", "queued">>, <<"running", "rerun">>,
                <<"queued", "running">>, <<"running", "idle">>, <<"rerun", "queued">>,
                <<"running", "done">>, <<"rerun", "done">>}
    PROVE  Lifecycle!Next
<1> DEFINE ph == [u \in Tasks |-> Phase(u)]
<1>1. ph[t] = Phase(t) /\ ph' = [ph EXCEPT ![t] = Phase(t)']
  BY Zenon
<1> QED
  BY <1>1, Zenon DEF Lifecycle!Next, Lifecycle!Spawn, Lifecycle!Wake, Lifecycle!Start,
              Lifecycle!Suspend, Lifecycle!Finish, Lifecycle!Move

\* A task whose byte says QUEUED is waiting, and one whose byte says RUNNING and
\* not COMPLETE is running.
LEMMA PhaseOfByte ==
    ASSUME IInv, NEW t \in Tasks
    PROVE  /\ spawn[t] # "done" => "QUEUED" \in state[t]
           /\ "QUEUED" \in state[t] =>
                 "RUNNING" \notin state[t] /\ "COMPLETE" \notin state[t]
  BY Zenon DEF IInv, QueuedOnce, ByteShape

\* Every step of the threads is a step of the life of one task, or of none.
LEMMA LifecycleStep ==
    IInv /\ [Next]_vars => [Lifecycle!Next]_([t \in Tasks |-> Phase(t)])
<1> DEFINE Same == \A t \in Tasks : Phase(t)' = Phase(t)
           G == Lifecycle!Next \/ Same
<1> SUFFICES ASSUME IInv, [Next]_vars PROVE G
  BY Zenon
<1>a. TypeOK /\ CallShape /\ QueuedOnce /\ ByteShape /\ RunShape
  BY Zenon DEF IInv
<1>b. ASSUME state' = state, spawn' = spawn PROVE Same
  BY <1>b, Zenon DEF Phase
<1>1. ASSUME NEW t \in Tasks, SpawnCount(t) PROVE G
  BY <1>1, <1>a, Zenon DEF SpawnCount, Phase, TypeOK
<1>2. ASSUME NEW t \in Tasks, SpawnSchedule(t) PROVE G
  <2>1. Phase(t) = "fresh" /\ Phase(t)' = "queued"
    BY <1>2, <1>a, PhaseOfByte, Zenon DEF SpawnSchedule, Phase, TypeOK
  <2>2. \A u \in Tasks \ {t} : Phase(u)' = Phase(u)
    BY <1>2, <1>a, Zenon DEF SpawnSchedule, Phase, TypeOK
  <2> QED BY <2>1, <2>2, LifecycleMove, Zenon
<1>3. ASSUME NEW w \in Workers, BeginCas(w) PROVE G
  <2>t. PICK t \in Tasks : t = cur[w]
    BY <1>3, <1>a, Zenon DEF BeginCas, TypeOK, CallShape, Threads
  <2>1. CASE state[t] # seen[w]
    BY <2>t, <1>3, <1>b, <2>1, Zenon DEF BeginCas
  <2>2. CASE state[t] = seen[w]
    <3>1. pc[w] = "begin_cas" /\ w \in Threads /\ t \in Tasks
      BY <2>t, <1>3, <1>a, Zenon DEF BeginCas, TypeOK, CallShape, Threads
    <3>2. /\ "QUEUED" \in state[t] /\ spawn[t] = "done"
          /\ "RUNNING" \notin state[t] /\ "COMPLETE" \notin state[t]
      BY <2>t, <1>a, <3>1, PhaseOfByte, Zenon DEF QueuedOnce, Holds
    <3>3. state' = [state EXCEPT ![t] = BeginByte(state[t])] /\ spawn' = spawn
      BY <2>t, <1>3, <2>2, Zenon DEF BeginCas
    <3>4. state'[t] = BeginByte(state[t]) /\ \A u \in Tasks \ {t} : Phase(u)' = Phase(u)
      BY <1>a, <3>1, <3>3, Zenon DEF TypeOK, Phase
    <3>5. Phase(t) = "queued" /\ Phase(t)' = "running"
      BY <3>2, <3>3, <3>4, Zenon DEF Phase, BeginByte
    <3> QED BY <3>1, <3>4, <3>5, LifecycleMove, Zenon
  <2> QED BY <2>t, <2>1, <2>2, Zenon
<1>4. ASSUME NEW w \in Workers, EndCas(w) PROVE G
  <2>t. PICK t \in Tasks : t = cur[w]
    BY <1>4, <1>a, Zenon DEF EndCas, TypeOK, CallShape, Threads
  <2>1. CASE state' = state
    BY <2>t, <1>4, <1>b, <2>1, Zenon DEF EndCas
  <2>2. CASE state' = [state EXCEPT ![t] = EndByte(state[t])]
    <3>1. pc[w] = "end_cas" /\ w \in Threads /\ t \in Tasks
      BY <2>t, <1>4, <1>a, Zenon DEF EndCas, TypeOK, CallShape, Threads
    <3>2. /\ "QUEUED" \notin state[t] /\ "RUNNING" \in state[t] /\ "COMPLETE" \notin state[t]
          /\ spawn[t] = "done"
      BY <2>t, <1>a, <3>1, PhaseOfByte, Zenon DEF RunShape, Running
    <3>3. spawn' = spawn
      BY <2>t, <1>4, Zenon DEF EndCas
    <3>4. state'[t] = EndByte(state[t]) /\ \A u \in Tasks \ {t} : Phase(u)' = Phase(u)
      BY <1>a, <2>2, <3>1, <3>3, Zenon DEF TypeOK, Phase
    <3>5. \/ Phase(t) = "rerun" /\ Phase(t)' = "queued"
          \/ Phase(t) = "running" /\ Phase(t)' = "idle"
      BY <3>2, <3>3, <3>4 DEF Phase, EndByte
    <3> QED BY <3>1, <3>4, <3>5, LifecycleMove, Zenon
  <2> QED BY <2>t, <1>4, <2>1, <2>2, Zenon DEF EndCas
<1>5. ASSUME NEW w \in Workers, SetComplete(w) PROVE G
  <2>t. PICK t \in Tasks : t = cur[w]
    BY <1>5, <1>a, Zenon DEF SetComplete, TypeOK, CallShape, Threads
  <2>1. pc[w] = "set_complete" /\ w \in Threads /\ t \in Tasks
    BY <2>t, <1>5, <1>a, Zenon DEF SetComplete, TypeOK, CallShape, Threads
  <2>2. "QUEUED" \notin state[t] /\ "RUNNING" \in state[t] /\ "COMPLETE" \notin state[t]
    BY <2>t, <1>a, <2>1, Zenon DEF RunShape, Running
  <2>3. spawn[t] = "done"
    BY <2>1, <2>2, PhaseOfByte, Zenon
  <2>4. state' = [state EXCEPT ![t] = state[t] \cup {"COMPLETE"}] /\ spawn' = spawn
    BY <2>t, <1>5, Zenon DEF SetComplete
  <2>5. state'[t] = state[t] \cup {"COMPLETE"} /\ \A u \in Tasks \ {t} : Phase(u)' = Phase(u)
    BY <1>a, <2>1, <2>4, Zenon DEF TypeOK, Phase
  <2>6. Phase(t) \in {"running", "rerun"} /\ Phase(t)' = "done"
    BY <2>2, <2>3, <2>4, <2>5, Zenon DEF Phase
  <2> QED BY <2>1, <2>5, <2>6, LifecycleMove, Zenon
<1>6. ASSUME NEW w \in Workers, ClearRunning(w) PROVE G
  <2>t. PICK t \in Tasks : t = cur[w]
    BY <1>6, <1>a, Zenon DEF ClearRunning, TypeOK, CallShape, Threads
  <2>1. pc[w] = "clear_running" /\ w \in Threads /\ t \in Tasks
    BY <2>t, <1>6, <1>a, Zenon DEF ClearRunning, TypeOK, CallShape, Threads
  <2>2. "COMPLETE" \in state[t]
    BY <2>t, <1>a, <2>1, Zenon DEF RunShape, Running
  <2>3. state' = [state EXCEPT ![t] = state[t] \ {"RUNNING"}] /\ spawn' = spawn
    BY <2>t, <1>6, Zenon DEF ClearRunning
  <2>4. state'[t] = state[t] \ {"RUNNING"} /\ \A u \in Tasks \ {t} : Phase(u)' = Phase(u)
    BY <1>a, <2>1, <2>3, Zenon DEF TypeOK, Phase
  <2>5. Phase(t)' = Phase(t)
    BY <2>2, <2>3, <2>4, Zenon DEF Phase
  <2> QED BY <2>4, <2>5, Zenon
<1>7. ASSUME NEW th \in Threads, NEW t \in Tasks, AbortOr(th, t) PROVE G
  <2>1. CASE state' = state
    BY <1>7, <1>b, <2>1, Zenon DEF AbortOr
  <2>2. CASE state' = [state EXCEPT ![t] = state[t] \cup {"ABORTED"}]
    <3>1. spawn' = spawn
      BY <1>7, Zenon DEF AbortOr
    <3>2. state'[t] = state[t] \cup {"ABORTED"} /\ \A u \in Tasks \ {t} : Phase(u)' = Phase(u)
      BY <1>a, <2>2, <3>1, Zenon DEF TypeOK, Phase
    <3>3. Phase(t)' = Phase(t)
      BY <3>1, <3>2, Zenon DEF Phase
    <3> QED BY <3>2, <3>3, Zenon
  <2> QED BY <1>7, <2>1, <2>2, Zenon DEF AbortOr
<1>8. ASSUME NEW th \in Threads, WakeCas(th) PROVE G
  <2>t. PICK t \in Tasks : t = cur[th]
    BY <1>8, <1>a, Zenon DEF WakeCas, TypeOK, CallShape, Threads
  <2>1. CASE state' = state
    BY <2>t, <1>8, <1>b, <2>1, Zenon DEF WakeCas
  <2>2. CASE /\ ~WakeIsNoOp(state[t])
             /\ state' = [state EXCEPT ![t] = WakeByte(state[t])]
    <3>1. t \in Tasks /\ spawn' = spawn
      BY <2>t, <1>8, <1>a, Zenon DEF WakeCas, TypeOK, CallShape
    <3>2. /\ "COMPLETE" \notin state[t]
          /\ \/ "RUNNING" \in state[t] /\ "NOTIFIED" \notin state[t]
             \/ "RUNNING" \notin state[t] /\ "QUEUED" \notin state[t]
      BY <2>2, Zenon DEF WakeIsNoOp
    <3>3. spawn[t] = "done"
      BY <3>1, <3>2, PhaseOfByte, Zenon
    <3>4. state'[t] = WakeByte(state[t]) /\ \A u \in Tasks \ {t} : Phase(u)' = Phase(u)
      BY <1>a, <2>2, <3>1, Zenon DEF TypeOK, Phase
    <3>5. \/ Phase(t) = "running" /\ Phase(t)' = "rerun"
          \/ Phase(t) = "idle" /\ Phase(t)' = "queued"
      BY <3>1, <3>2, <3>3, <3>4, Zenon DEF Phase, WakeByte
    <3> QED BY <3>1, <3>4, <3>5, LifecycleMove, Zenon
  <2> QED BY <2>t, <1>8, <2>1, <2>2, Zenon DEF WakeCas
<1>9. ASSUME NEW t \in Tasks, JoinPoll(t) \/ DropWaker(t) PROVE G
  BY <1>9, <1>b, Zenon DEF JoinPoll, DropWaker
<1>10. ASSUME NEW w \in Workers, NEW t \in Tasks, Dequeue(w, t) PROVE G
  BY <1>10, <1>b, Zenon DEF Dequeue
<1>11. ASSUME NEW th \in Threads, NEW t \in Tasks, WakeLoad(th, t) PROVE G
  BY <1>11, <1>b, Zenon DEF WakeLoad
<1>12. ASSUME NEW th \in Threads, AbortLoad(th) \/ Schedule(th) PROVE G
  BY <1>12, <1>b, Zenon DEF AbortLoad, Schedule
<1>13. ASSUME NEW w \in Workers,
              \/ BeginLoad(w) \/ DropUnpolled(w) \/ CheckAborted(w) \/ TakeFuture(w)
              \/ PollRegister(w) \/ PollReady(w) \/ PollPending(w) \/ PollPanic(w)
              \/ EndLoad(w)
       PROVE  G
  BY <1>13, <1>b,
     Zenon DEF BeginLoad, DropUnpolled, CheckAborted, TakeFuture, PollRegister,
     PollReady, PollPending, PollPanic, EndLoad
<1>14. ASSUME NEW w \in Workers,
              \/ FireHook(w) \/ FinishState(w) \/ FinishFlag(w) \/ WakeJoiner(w)
              \/ MarkFinished(w)
       PROVE  G
  BY <1>14, <1>b, Zenon DEF FireHook, FinishState, FinishFlag, WakeJoiner, MarkFinished
<1>15. CASE UNCHANGED vars
  BY <1>15, <1>b, Zenon DEF vars
<1> QED
  BY <1>1, <1>2, <1>3, <1>4, <1>5, <1>6, <1>7, <1>8, <1>9, <1>10, <1>11, <1>12, <1>13,
     <1>14, <1>15, Zenon DEF Next, Run, Call, Threads

\* The compare-and-exchange protocol of state.rs, under every interleaving of
\* run, wake and abort, implements the life of a task.
THEOREM ByteImplementsLifecycle == Spec => ImplementsLifecycle
<1>1. Init => Lifecycle!Init
  BY Zenon DEF Init, Lifecycle!Init, Phase
<1> QED BY <1>1, LifecycleStep, Inductive, PTL DEF Spec, ImplementsLifecycle, Lifecycle!Spec
==============================================================================
