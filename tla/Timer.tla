-------------------------------- MODULE Timer --------------------------------
(***************************************************************************)
(* The timer driver, its pausable clock, Sleep and Timeout (time/mod.rs,   *)
(* time/clock.rs).  The driver thread holds the lock of Inner from its     *)
(* look at the clock to its decision; the clock has a lock of its own.     *)
(* Polls, reset and drop are one step each: the condvar is notified after  *)
(* the unlock, and whether the driver sleeps by then is all that matters.  *)
(***************************************************************************)
EXTENDS Naturals, FiniteSets, FiniteSetsExt

CONSTANTS
    Sleeps,         \* the Sleep futures, each owned by a task of its own
    Timeouts,       \* those of them that a Timeout wraps
    CurrentThread,  \* the runtime's flavour: only a current-thread clock can be paused
    Delays,         \* the durations each of them may be asked for
    Steps,          \* the durations advance() may be asked for
    MaxTime, MaxVirtual,    \* the horizons of real and of virtual time
    MaxId           \* bound on next_id

VARIABLES
    real,           \* Instant::now()
    paused, virtual,    \* Clock::paused: is it Some, and of what
    heap,           \* Inner::heap: {[at |-> deadline, id |-> id]}
    wakers,         \* the domain of Inner::wakers
    nextId,         \* next_id
    shutdown,       \* the flag
    dpc, seen, until, notified,  \* the driver thread: place, now, end of its wait
    due,            \* the ids whose wakers fire_due has still to call
    deadline, id,   \* fields of each Sleep; id 0 is None
    phase,          \* the future's phase; "late" is Pending, with the shutdown flag seen
    awake,          \* its waker fired since its last poll
    apc, target,    \* an advance() in progress
    spc,            \* a shutdown() in progress
    disturbed       \* history: the clock went back, or was resumed under the driver's look

clock == <<paused, virtual>>
store == <<heap, wakers, nextId>>
driver == <<dpc, seen, until, due>>
futures == <<deadline, id, phase, awake>>
vars == <<real, clock, store, shutdown, driver, notified, futures, apc, target, spc,
          disturbed>>

Init ==
    /\ real = 0 /\ paused = FALSE /\ virtual = 0
    /\ heap = {} /\ wakers = {} /\ nextId = 1 /\ shutdown = FALSE
    /\ dpc = "check" /\ seen = 0 /\ until = 0 /\ notified = FALSE /\ due = {}
    /\ deadline = [s \in Sleeps |-> 0] /\ id = [s \in Sleeps |-> 0]
    /\ phase = [s \in Sleeps |-> "none"] /\ awake = [s \in Sleeps |-> FALSE]
    /\ apc = "idle" /\ target = 0 /\ spc = "idle" /\ disturbed = FALSE

Waits(s) == phase[s] \in {"pending", "late"}

\* Clock::now
Now == IF paused THEN virtual ELSE real

Earliest == Min({e.at : e \in heap})
DueBy(t) == \E e \in heap : e.at <= t
Locked == dpc = "decide"
Notify == notified' = (notified \/ dpc = "wait")

\* waker.wake() of what the ids of a set are registered for.
Woken(ids) == [s \in Sleeps |-> awake[s] \/ (Waits(s) /\ id[s] \in ids)]

\* The heap and the wakers after fire_due up to `now`.
FireDue(now) ==
    LET ids == {e.id : e \in {f \in heap : f.at <= now}}
    IN  /\ heap' = {e \in heap : e.at > now}
        /\ wakers' = wakers \ ids

\* Real time goes on; a unit of it is longer than the driver's critical section.
Tick ==
    /\ real < MaxTime /\ ~Locked /\ real' = real + 1
    /\ UNCHANGED <<clock, store, shutdown, driver, notified, futures, apc, target, spc, disturbed>>

------------------------------------------------------------------------------
(* Sleep and Timeout *)

\* sleep, sleep_until, timeout or timeout_at; or reset, which cancels the
\* registration and lets the next poll make a new one.
Arm(s, d) ==
    /\ (phase[s] = "none" \/ Waits(s)) /\ ~Locked
    /\ deadline' = [deadline EXCEPT ![s] = Now + d]
    /\ wakers' = wakers \ {id[s]}
    /\ id' = [id EXCEPT ![s] = 0]
    /\ phase' = [phase EXCEPT ![s] = "armed"]
    /\ awake' = [awake EXCEPT ![s] = FALSE]
    /\ UNCHANGED <<real, clock, heap, nextId, shutdown, driver, notified, apc,
                   target, spc, disturbed>>

\* Ready, and the Sleep dropped, which cancels.
Resolve(s) ==
    /\ phase' = [phase EXCEPT ![s] = "done"]
    /\ wakers' = wakers \ {id[s]}
    /\ awake' = [awake EXCEPT ![s] = FALSE]
    /\ id' = [id EXCEPT ![s] = 0]
    /\ UNCHANGED <<heap, nextId, notified>>

\* register: a heap entry and a waker under a new id, and the driver notified.
Register(s) ==
    /\ id[s] = 0 /\ nextId <= MaxId
    /\ heap' = heap \cup {[at |-> deadline[s], id |-> nextId]}
    /\ wakers' = wakers \cup {nextId}
    /\ id' = [id EXCEPT ![s] = nextId]
    /\ nextId' = nextId + 1
    /\ Notify

\* update_waker: the waker of the same id again, whatever became of its entry.
UpdateWaker(s) ==
    /\ id[s] # 0
    /\ wakers' = wakers \cup {id[s]}
    /\ UNCHANGED <<heap, id, nextId, notified>>

\* Mutant: the flag is not looked at.
WakeNever(s) ==
    /\ phase' = [phase EXCEPT ![s] = IF shutdown THEN "late" ELSE "pending"]
    /\ awake' = [awake EXCEPT ![s] = FALSE]

\* The look at the shutdown flag that ends register and update_waker, and Pending.
WakeAfterRegister(s) ==
    /\ phase' = [phase EXCEPT ![s] = IF shutdown THEN "late" ELSE "pending"]
    /\ awake' = [awake EXCEPT ![s] = shutdown]

\* Timeout::poll asks the inner future first, and it may be ready at any poll.
InnerReady(s) == s \in Timeouts

\* Sleep::poll and Timeout::poll, woken or not.
Poll(s) ==
    /\ (phase[s] = "armed" \/ Waits(s)) /\ ~Locked
    /\ \/ (InnerReady(s) \/ Now >= deadline[s]) /\ Resolve(s)
       \/ /\ Now < deadline[s]
          /\ Register(s) \/ UpdateWaker(s)
          /\ WakeAfterRegister(s)
    /\ UNCHANGED <<real, clock, shutdown, driver, deadline, apc, target, spc,
                   disturbed>>

\* Drop for Sleep: cancel takes the waker and leaves the heap entry.
DropSleep(s) ==
    /\ (phase[s] = "armed" \/ Waits(s)) /\ ~Locked
    /\ wakers' = wakers \ {id[s]}
    /\ phase' = [phase EXCEPT ![s] = "done"]
    /\ awake' = [awake EXCEPT ![s] = FALSE]
    /\ id' = [id EXCEPT ![s] = 0]
    /\ UNCHANGED <<real, clock, heap, nextId, shutdown, driver, notified, deadline,
                   apc, target, spc, disturbed>>

------------------------------------------------------------------------------
(* The driver thread *)

\* The head of event_loop: leave, or lock and look at the clock ...
DriverCheck ==
    /\ dpc = "check"
    /\ dpc' = IF shutdown THEN "exit" ELSE "lock"
    /\ UNCHANGED <<real, clock, store, shutdown, seen, until, due, notified, futures, apc,
                   target, spc, disturbed>>

DriverLook ==
    /\ dpc = "lock"
    /\ seen' = Now /\ dpc' = "decide"
    /\ UNCHANGED <<real, clock, store, shutdown, until, due, notified, futures, apc,
                   target, spc, disturbed>>

\* ... then fire what is due, or wait: 200 ms if nothing is scheduled or the clock
\* is paused, else as long as the earliest deadline is away.
DriverDecide ==
    /\ dpc = "decide"
    /\ \/ /\ DueBy(seen)
          /\ FireDue(seen)
          /\ due' = {e.id : e \in {f \in heap : f.at <= seen}} \cap wakers
          /\ dpc' = "fire"
          /\ UNCHANGED <<until, notified>>
       \/ /\ ~DueBy(seen) /\ (heap = {} \/ paused)
          /\ dpc' = "wait" /\ until' = real /\ notified' = FALSE
          /\ UNCHANGED <<heap, wakers, due>>
       \/ /\ ~DueBy(seen) /\ heap # {} /\ ~paused
          /\ dpc' = "wait" /\ until' = real + (Earliest - seen) /\ notified' = FALSE
          /\ UNCHANGED <<heap, wakers, due>>
    /\ seen' = 0
    /\ UNCHANGED <<real, clock, nextId, shutdown, futures, apc, target, spc, disturbed>>

\* The end of fire_due: a waker called after the unlock, or none left.
DriverFire ==
    /\ dpc = "fire"
    /\ \/ \E i \in due : /\ awake' = Woken({i}) /\ due' = due \ {i}
                         /\ UNCHANGED dpc
       \/ due = {} /\ dpc' = "check" /\ UNCHANGED <<due, awake>>
    /\ UNCHANGED <<real, clock, store, shutdown, seen, until, notified, deadline, id, phase,
                   apc, target, spc, disturbed>>

\* The wait ends: notified, or over (time past the horizon is not counted).
DriverWake ==
    /\ dpc = "wait" /\ (notified \/ real >= until \/ real = MaxTime)
    /\ dpc' = "check" /\ notified' = FALSE /\ until' = 0
    /\ UNCHANGED <<real, clock, store, shutdown, seen, due, futures, apc, target,
                   spc, disturbed>>

------------------------------------------------------------------------------
(* pause, resume, advance, shutdown *)

\* time::pause panics on a multi-thread runtime and when the clock is paused already.
Pausable == CurrentThread /\ ~paused

Pause ==
    /\ Pausable /\ paused' = TRUE /\ virtual' = real
    /\ Notify
    /\ UNCHANGED <<real, store, shutdown, driver, futures, apc, target, spc, disturbed>>

Resume ==
    /\ paused /\ paused' = FALSE
    /\ Notify
    /\ virtual' = 0
    /\ disturbed' = (disturbed \/ Locked \/ real < virtual)
    /\ UNCHANGED <<real, store, shutdown, driver, futures, apc, target, spc>>

\* advance asserts that the clock is paused ...
Advance(d) ==
    /\ apc = "idle" /\ paused /\ virtual + d <= MaxVirtual
    /\ target' = virtual + d /\ apc' = "advancing"
    /\ UNCHANGED <<real, clock, store, shutdown, driver, notified, futures, spc, disturbed>>

\* ... and, one due deadline at a time, moves the clock, fires and yields; tasks
\* run only at the yield, since only a current-thread runtime can be paused.
AdvanceStep ==
    /\ apc = "advancing" /\ ~Locked
    /\ \/ /\ paused /\ DueBy(target)
          /\ virtual' = Earliest
          /\ FireDue(Earliest)
          /\ awake' = Woken({e.id : e \in {f \in heap : f.at <= Earliest}} \cap wakers)
          /\ UNCHANGED <<apc, target>>
       \/ /\ paused /\ ~DueBy(target)
          /\ virtual' = target /\ apc' = "idle" /\ target' = 0
          /\ UNCHANGED <<heap, wakers, awake>>
       \/ /\ ~paused /\ apc' = "panicked" /\ target' = 0
          /\ UNCHANGED <<virtual, heap, wakers, awake>>
    /\ disturbed' = (disturbed \/ virtual' < virtual)
    /\ UNCHANGED <<real, paused, nextId, shutdown, driver, notified, deadline, id, phase,
                   spc>>

\* shutdown stores the flag, notifies without the lock, and joins.
Shutdown ==
    /\ \/ spc = "idle" /\ spc' = "notify" /\ shutdown' = TRUE /\ UNCHANGED notified
       \/ spc = "notify" /\ spc' = "join" /\ Notify /\ UNCHANGED shutdown
       \/ spc = "join" /\ dpc = "exit" /\ spc' = "done" /\ UNCHANGED <<shutdown, notified>>
    /\ UNCHANGED <<real, clock, store, driver, futures, apc, target, disturbed>>

EndShutdown == spc # "idle" /\ Shutdown
PollWoken(s) == awake[s] /\ Poll(s)

DriverStep == DriverCheck \/ DriverLook \/ DriverDecide \/ DriverFire \/ DriverWake

Next ==
    \/ Tick \/ DriverStep \/ Pause \/ Resume \/ AdvanceStep \/ Shutdown
    \/ \E s \in Sleeps : \/ Poll(s) \/ DropSleep(s)
                         \/ \E d \in Delays[s] : Arm(s, d)
    \/ \E d \in Steps : Advance(d)

\* The driver is a thread, real time passes, and a woken task is polled and gets
\* the lock in the end: strong, since the driver's critical section stops both.
Fairness ==
    /\ WF_vars(DriverStep) /\ SF_vars(Tick) /\ WF_vars(EndShutdown)
    /\ \A s \in Sleeps : SF_vars(PollWoken(s))

Spec == Init /\ [][Next]_vars /\ Fairness

------------------------------------------------------------------------------
(* Properties *)

\* What keeps a pending Sleep from sleeping for ever: it was woken, fire_due holds
\* its waker, or its entry and its waker are both with the driver.  The last counts
\* only for one that was polled before the shutdown: after it, nobody may be there
\* to look at the heap.
Served(s) ==
    \/ awake[s]
    \/ id[s] \in due
    \/ phase[s] = "pending" /\ id[s] \in wakers /\ [at |-> deadline[s], id |-> id[s]] \in heap

\* Sleep "resolves once at a specific Instant": whatever is reset, polled unwoken,
\* fired or cancelled, no pending Sleep is left without a wake on its way, unless
\* resume took the clock back behind a fired deadline; and the driver never waits
\* past the earliest deadline unless it was notified.
SleepersServed ==
    disturbed \/
    /\ \A s \in Sleeps : Waits(s) => Served(s)
    /\ dpc = "wait" /\ ~notified /\ ~paused /\ until > real =>
         \A e \in heap : until <= e.at

Joining == spc = "join"
Joined == spc = "done"

\* A Sleep that the clock passes resolves, also one polled after the shutdown ("a
\* bounded busy-poll rather than a silent hang"); one that waited already when the
\* driver stopped does not.
Overdue(s) == Waits(s) /\ deadline[s] <= MaxTime
Released(s) == ~Waits(s) \/ paused \/ disturbed \/ (shutdown /\ phase[s] = "pending")

==============================================================================
