------------------------------- MODULE RwLock -------------------------------
(***************************************************************************)
(* sync::RwLock (sync/rwlock.rs), one step per critical section of the     *)
(* inner std mutex; the wakes that follow the unlock are part of the step. *)
(***************************************************************************)
EXTENDS Sequences, FiniteSetsExt

CONSTANTS
    Tasks,
    MaxWaiters      \* bound on the waiters queue, which re-polls can grow

VARIABLES
    writerLocked,   \* State::writer_locked
    readers,        \* State::readers
    waiters,        \* State::waiters: records of a mode and a task
    phase,          \* what the task has: no future, a waiting one, or a guard
    awake,          \* the task's waker has fired since it was last polled
    disturbed       \* history: a waiting future was dropped or polled unwoken

vars == <<writerLocked, readers, waiters, phase, awake, disturbed>>

Mode == {"Read", "Write"}
Waiting(m) == IF m = "Read" THEN "waitRead" ELSE "waitWrite"
Holding(m) == IF m = "Read" THEN "holdRead" ELSE "holdWrite"
Phases == {"idle"} \cup {Waiting(m) : m \in Mode} \cup {Holding(m) : m \in Mode}

\* State::writer_pending
WriterPending == \E i \in 1..Len(waiters) : waiters[i].mode = "Write"

Init ==
    /\ writerLocked = FALSE
    /\ readers = 0
    /\ waiters = <<>>
    /\ phase = [t \in Tasks |-> "idle"]
    /\ awake = [t \in Tasks |-> FALSE]
    /\ disturbed = FALSE

\* The condition of acquire_read, acquire_write and their try_ versions.
CanTake(m) ==
    IF m = "Read" THEN ~writerLocked /\ ~WriterPending
                  ELSE ~writerLocked /\ readers = 0

Take(t, m) ==
    /\ CanTake(m)
    /\ writerLocked' = (writerLocked \/ m = "Write")
    /\ readers' = IF m = "Read" THEN readers + 1 ELSE readers
    /\ phase' = [phase EXCEPT ![t] = Holding(m)]
    /\ UNCHANGED waiters

\* One poll of acquire_read or acquire_write.
Acquire(t, m) ==
    \/ Take(t, m)
    \/ /\ ~CanTake(m)
       /\ Len(waiters) < MaxWaiters
       /\ waiters' = Append(waiters, [mode |-> m, task |-> t])
       /\ phase' = [phase EXCEPT ![t] = Waiting(m)]
       /\ UNCHANGED <<writerLocked, readers>>

\* read().await, write().await and the owned versions are polled first ...
Lock(t, m) ==
    /\ phase[t] = "idle"
    /\ Acquire(t, m)
    /\ UNCHANGED <<awake, disturbed>>

\* ... polled again because the waker fired ...
Repoll(t, m) ==
    /\ phase[t] = Waiting(m)
    /\ awake[t]
    /\ Acquire(t, m)
    /\ awake' = [awake EXCEPT ![t] = FALSE]
    /\ UNCHANGED disturbed

\* ... polled for another reason ...
SpuriousPoll(t, m) ==
    /\ phase[t] = Waiting(m)
    /\ ~awake[t]
    /\ Acquire(t, m)
    /\ disturbed' = TRUE
    /\ UNCHANGED awake

\* ... or dropped while waiting; the queue keeps the waker.
Cancel(t, m) ==
    /\ phase[t] = Waiting(m)
    /\ phase' = [phase EXCEPT ![t] = "idle"]
    /\ awake' = [awake EXCEPT ![t] = FALSE]
    /\ disturbed' = TRUE
    /\ UNCHANGED <<writerLocked, readers, waiters>>

\* try_read, try_write and the owned versions; failing changes nothing.
TryLock(t, m) ==
    /\ phase[t] = "idle"
    /\ Take(t, m)
    /\ UNCHANGED <<awake, disturbed>>

\* State::wake_eligible: how many waiters are popped from the front, given the
\* number of readers after the release.
Eligible(n) ==
    LET reads == Max({k \in 0..Len(waiters) : \A i \in 1..k : waiters[i].mode = "Read"})
    IN  IF reads = 0 /\ n = 0 /\ waiters # <<>> THEN 1 ELSE reads

WakeEligible(n) ==
    LET k == Eligible(n)
        popped == {waiters[i].task : i \in 1..k}
    IN  /\ waiters' = SubSeq(waiters, k + 1, Len(waiters))
        /\ awake' = [t \in Tasks |->
                       \/ awake[t]
                       \/ t \in popped /\ \E m \in Mode : phase[t] = Waiting(m)]

\* release_read, when a read guard is dropped.
ReleaseRead(t) ==
    /\ phase[t] = "holdRead"
    /\ readers' = readers - 1
    /\ IF readers = 1 THEN WakeEligible(0) ELSE UNCHANGED <<waiters, awake>>
    /\ phase' = [phase EXCEPT ![t] = "idle"]
    /\ UNCHANGED <<writerLocked, disturbed>>

\* release_write, when a write guard (mapped or not) is dropped.
ReleaseWrite(t) ==
    /\ phase[t] = "holdWrite"
    /\ writerLocked' = FALSE
    /\ WakeEligible(readers)
    /\ phase' = [phase EXCEPT ![t] = "idle"]
    /\ UNCHANGED <<readers, disturbed>>

\* RwLockWriteGuard::downgrade and the owned version.
Downgrade(t) ==
    /\ phase[t] = "holdWrite"
    /\ writerLocked' = FALSE
    /\ readers' = 1
    /\ WakeEligible(1)
    /\ phase' = [phase EXCEPT ![t] = "holdRead"]
    /\ UNCHANGED disturbed

Next ==
    \E t \in Tasks :
        \/ \E m \in Mode : \/ Lock(t, m) \/ Repoll(t, m) \/ SpuriousPoll(t, m)
                           \/ Cancel(t, m) \/ TryLock(t, m)
        \/ ReleaseRead(t) \/ ReleaseWrite(t) \/ Downgrade(t)

Spec == Init /\ [][Next]_vars

------------------------------------------------------------------------------
(* Properties *)

TypeOK ==
    /\ writerLocked \in BOOLEAN
    /\ readers \in Nat
    /\ waiters \in Seq([mode : Mode, task : Tasks])
    /\ phase \in [Tasks -> Phases]
    /\ awake \in [Tasks -> BOOLEAN]
    /\ disturbed \in BOOLEAN

\* The module doc of rwlock.rs (line 24): "never two writers, or a writer and a
\* reader, active together".  The flag and the count say exactly
\* which guards exist, through downgrade and every order of releases.
Exclusive ==
    LET R == {t \in Tasks : phase[t] = "holdRead"}
        W == {t \in Tasks : phase[t] = "holdWrite"}
    IN  /\ readers = Cardinality(R)
        /\ writerLocked <=> W # {}
        /\ Cardinality(W) <= 1
        /\ W # {} => R = {}

\* "The writer gets its turn one release later instead, once the last of that
\* reader batch's own guards actually drops": while no waiting future is
\* dropped or polled unwoken, a lock that nobody holds and somebody waits for
\* has a waiter that is awake.
HandOff ==
    LET Waits(t) == \E m \in Mode : phase[t] = Waiting(m)
    IN  ~disturbed /\ ~writerLocked /\ readers = 0 /\ (\E t \in Tasks : Waits(t))
            => \E t \in Tasks : Waits(t) /\ awake[t]
==============================================================================
