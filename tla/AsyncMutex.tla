----------------------------- MODULE AsyncMutex -----------------------------
(***************************************************************************)
(* sync::Mutex (sync/mutex.rs).  Each critical section of the inner std    *)
(* mutex is one step; the wake() that follows the unlock in release is     *)
(* part of it, since a woken task may be polled, and a waiting future      *)
(* polled unwoken or dropped, at any later time anyway.                    *)
(***************************************************************************)
EXTENDS Sequences, FiniteSets, Naturals

CONSTANTS
    Tasks,
    MaxWaiters      \* bound on the waiters queue, which re-polls can grow

VARIABLES
    locked,         \* State::locked
    waiters,        \* State::waiters: the tasks whose wakers are queued
    phase,          \* "idle", "waiting" on lock().await, or "holding" a guard
    awake,          \* the task's waker has fired since it was last polled
    disturbed       \* history: a waiting future was dropped or polled unwoken

vars == <<locked, waiters, phase, awake, disturbed>>

Init ==
    /\ locked = FALSE
    /\ waiters = <<>>
    /\ phase = [t \in Tasks |-> "idle"]
    /\ awake = [t \in Tasks |-> FALSE]
    /\ disturbed = FALSE

\* Mutant: the flag is tested and not set.
AcquireUnlocked(t) ==
    \/ ~locked /\ phase' = [phase EXCEPT ![t] = "holding"] /\ UNCHANGED <<locked, waiters>>
    \/ /\ locked
       /\ waiters' = Append(waiters, t)
       /\ phase' = [phase EXCEPT ![t] = "waiting"]
       /\ UNCHANGED locked

\* One poll of acquire: take the free lock, or queue the waker (again).
Acquire(t) ==
    \/ /\ ~locked
       /\ locked' = TRUE
       /\ phase' = [phase EXCEPT ![t] = "holding"]
       /\ UNCHANGED waiters
    \/ /\ locked
       /\ Len(waiters) < MaxWaiters
       /\ waiters' = Append(waiters, t)
       /\ phase' = [phase EXCEPT ![t] = "waiting"]
       /\ UNCHANGED locked

\* lock().await or lock_owned().await is polled for the first time.
Lock(t) ==
    /\ phase[t] = "idle"
    /\ Acquire(t)
    /\ UNCHANGED <<awake, disturbed>>

\* The task is polled again because its waker fired ...
Repoll(t) ==
    /\ phase[t] = "waiting"
    /\ awake[t]
    /\ Acquire(t)
    /\ awake' = [awake EXCEPT ![t] = FALSE]
    /\ UNCHANGED disturbed

\* ... or for another reason (it also waits for something else).
SpuriousPoll(t) ==
    /\ phase[t] = "waiting"
    /\ ~awake[t]
    /\ Acquire(t)
    /\ disturbed' = TRUE
    /\ UNCHANGED awake

\* The lock() future is dropped while it waits.  Its waker stays queued.
Cancel(t) ==
    /\ phase[t] = "waiting"
    /\ phase' = [phase EXCEPT ![t] = "idle"]
    /\ awake' = [awake EXCEPT ![t] = FALSE]
    /\ disturbed' = TRUE
    /\ UNCHANGED <<locked, waiters>>

\* try_lock and try_lock_owned; failing changes nothing.
TryLock(t) ==
    /\ phase[t] = "idle"
    /\ ~locked
    /\ locked' = TRUE
    /\ phase' = [phase EXCEPT ![t] = "holding"]
    /\ UNCHANGED <<waiters, awake, disturbed>>

\* Mutant: the waker is left in the queue and nobody is woken.
ReleaseSilently(t) ==
    /\ phase[t] = "holding"
    /\ locked' = FALSE
    /\ phase' = [phase EXCEPT ![t] = "idle"]
    /\ UNCHANGED <<waiters, awake, disturbed>>

\* A guard of any flavor is dropped: unlock, pop one waker, and wake it.  A
\* task that is not waiting (any more) ignores the wake.
Release(t) ==
    /\ phase[t] = "holding"
    /\ locked' = FALSE
    /\ phase' = [phase EXCEPT ![t] = "idle"]
    /\ IF waiters = <<>>
       THEN UNCHANGED <<waiters, awake>>
       ELSE /\ waiters' = Tail(waiters)
            /\ awake' = [awake EXCEPT ![Head(waiters)] = phase[Head(waiters)] = "waiting"]
    /\ UNCHANGED disturbed

Next ==
    \E t \in Tasks : \/ Lock(t) \/ Repoll(t) \/ SpuriousPoll(t) \/ Cancel(t)
                     \/ TryLock(t) \/ Release(t)

Spec == Init /\ [][Next]_vars

------------------------------------------------------------------------------
(* Properties *)

Phases == {"idle", "waiting", "holding"}

TypeOK ==
    /\ locked \in BOOLEAN
    /\ waiters \in Seq(Tasks)
    /\ phase \in [Tasks -> Phases]
    /\ awake \in [Tasks -> BOOLEAN]
    /\ disturbed \in BOOLEAN

\* Mutual exclusion, the contract the unsafe impls of mutex.rs rest on: at most
\* one guard exists, and it exists exactly while the flag is on.
Exclusive ==
    /\ locked <=> \E t \in Tasks : phase[t] = "holding"
    /\ \A t, u \in Tasks : phase[t] = "holding" /\ phase[u] = "holding" => t = u

\* release "wakes the next waiter, if any": while no waiting future is dropped
\* or polled unwoken, a mutex that is free and waited for has a waiter that is
\* awake and will take it, and everyone asleep is queued.
HandOff ==
    ~disturbed =>
        /\ ~locked /\ (\E t \in Tasks : phase[t] = "waiting") =>
               \E t \in Tasks : phase[t] = "waiting" /\ awake[t]
        /\ \A t \in Tasks : phase[t] = "waiting" /\ ~awake[t] =>
               \E i \in 1..Len(waiters) : waiters[i] = t
==============================================================================
