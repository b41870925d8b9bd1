----------------------------- MODULE Semaphore ------------------------------
(***************************************************************************)
(* sync::Semaphore (sync/semaphore.rs), one step per critical section of   *)
(* the inner std mutex; the outcomes stored and the wakes made after the   *)
(* unlock are part of the step.  Each task has at most one acquire future  *)
(* and one permit object, which merge may enlarge.                         *)
(***************************************************************************)
EXTENDS Sequences, FiniteSetsExt

CONSTANTS
    Tasks,
    MaxSupply,      \* bound on the permits that ever exist
    MaxNeeded,      \* bound on the argument of acquire_many and add_permits
    MaxWaiters      \* bound on the waiters queue

VARIABLES
    permits, closed,    \* State::permits, State::closed
    waiters,            \* State::waiters; live: the future still exists
    want,               \* what the task's acquire future asks for, 0 without one
    outcome,            \* the outcome of that future
    held,               \* the permits in the task's permit object
    supply,             \* history: permits created and not forgotten
    dropped             \* history: a queued or granted future was dropped

vars == <<permits, closed, waiters, want, outcome, held, supply, dropped>>

Init ==
    /\ permits \in 0..MaxSupply
    /\ closed = FALSE
    /\ waiters = <<>>
    /\ want = [t \in Tasks |-> 0]
    /\ outcome = [t \in Tasks |-> "PENDING"]
    /\ held = [t \in Tasks |-> 0]
    /\ supply = permits
    /\ dropped = FALSE

\* The fast path, taken when nobody is queued.
Fits(n) == ~closed /\ waiters = <<>> /\ permits >= n

\* The first poll of acquire_permits, and try_acquire_many, which succeeds in
\* the same case and otherwise changes nothing.
AcquireNow(t, n) ==
    /\ want[t] = 0 /\ held[t] = 0
    /\ Fits(n)
    /\ permits' = permits - n
    /\ held' = [held EXCEPT ![t] = n]
    /\ UNCHANGED <<closed, waiters, want, outcome, supply, dropped>>

Enqueue(t, n) ==
    /\ want[t] = 0 /\ held[t] = 0
    /\ ~closed /\ ~Fits(n)
    /\ Len(waiters) < MaxWaiters
    /\ waiters' = Append(waiters, [task |-> t, needed |-> n, live |-> TRUE])
    /\ want' = [want EXCEPT ![t] = n]
    /\ outcome' = [outcome EXCEPT ![t] = "PENDING"]
    /\ UNCHANGED <<permits, closed, held, supply, dropped>>

\* A later poll looks at the outcome and nothing else.
Poll(t) ==
    /\ want[t] # 0
    /\ outcome[t] # "PENDING"
    /\ held' = [held EXCEPT ![t] = IF outcome[t] = "GRANTED" THEN want[t] ELSE 0]
    /\ want' = [want EXCEPT ![t] = 0]
    /\ UNCHANGED <<permits, closed, waiters, outcome, supply, dropped>>

\* The acquire future is dropped.  Its Waiter stays in the queue.
Cancel(t) ==
    /\ want[t] # 0
    /\ want' = [want EXCEPT ![t] = 0]
    /\ waiters' = [i \in DOMAIN waiters |->
                     [waiters[i] EXCEPT !.live = @ /\ waiters[i].task # t]]
    /\ dropped' = (dropped \/ outcome[t] # "CLOSED")
    /\ UNCHANGED <<permits, closed, outcome, held, supply>>

\* One element for each of the f[x] permits of each x in S: their number is the
\* sum of f over S.
Units(f, S) == UNION {{x} \X (1..f[x]) : x \in S}

\* How many waiters release pops, and what they take, with p permits at hand.
Needed(k) == Cardinality(Units([i \in 1..k |-> waiters[i].needed], 1..k))
Grants(p) == Max({k \in 0..Len(waiters) : Needed(k) <= p})

\* Semaphore::release: FIFO grants, up to the first waiter that does not fit.
Release(n) ==
    LET p == permits + n
        k == Grants(p)
    IN  /\ permits' = p - Needed(k)
        /\ waiters' = SubSeq(waiters, k + 1, Len(waiters))
        /\ outcome' = [t \in Tasks |->
                         IF \E i \in 1..k : waiters[i].task = t /\ waiters[i].live
                         THEN "GRANTED" ELSE outcome[t]]

\* A SemaphorePermit or OwnedSemaphorePermit is dropped.
DropPermit(t) ==
    /\ held[t] > 0
    /\ Release(held[t])
    /\ held' = [held EXCEPT ![t] = 0]
    /\ UNCHANGED <<closed, want, supply, dropped>>

\* Mutant: the absorbed permit runs its own Drop.
MergeTwice(t, u) ==
    /\ t # u /\ held[t] > 0 /\ held[u] > 0
    /\ Release(held[u])
    /\ held' = [held EXCEPT ![t] = @ + held[u], ![u] = 0]
    /\ UNCHANGED <<closed, want, supply, dropped>>

\* OwnedSemaphorePermit::merge
Merge(t, u) ==
    /\ t # u /\ held[t] > 0 /\ held[u] > 0
    /\ held' = [held EXCEPT ![t] = @ + held[u], ![u] = 0]
    /\ UNCHANGED <<permits, closed, waiters, want, outcome, supply, dropped>>

AddPermits(n) ==
    /\ supply + n <= MaxSupply
    /\ Release(n)
    /\ supply' = supply + n
    /\ UNCHANGED <<closed, want, held, dropped>>

ForgetPermits(n) ==
    LET forgotten == Min({n, permits})
    IN  /\ permits' = permits - forgotten
        /\ supply' = supply - forgotten
        /\ UNCHANGED <<closed, waiters, want, outcome, held, dropped>>

Close ==
    /\ ~closed
    /\ closed' = TRUE
    /\ waiters' = <<>>
    /\ outcome' = [t \in Tasks |->
                     IF \E i \in DOMAIN waiters : waiters[i].task = t /\ waiters[i].live
                     THEN "CLOSED" ELSE outcome[t]]
    /\ UNCHANGED <<permits, want, held, supply, dropped>>

Next ==
    \/ \E t \in Tasks : \/ \E n \in 1..MaxNeeded : AcquireNow(t, n) \/ Enqueue(t, n)
                        \/ Poll(t) \/ Cancel(t) \/ DropPermit(t)
                        \/ \E u \in Tasks : Merge(t, u)
    \/ \E n \in 1..MaxNeeded : AddPermits(n) \/ ForgetPermits(n)
    \/ Close

Spec == Init /\ [][Next]_vars

------------------------------------------------------------------------------
(* Properties *)

TypeOK ==
    /\ permits \in Nat /\ closed \in BOOLEAN
    /\ waiters \in Seq([task : Tasks, needed : 1..MaxNeeded, live : BOOLEAN])
    /\ want \in [Tasks -> 0..MaxNeeded]
    /\ outcome \in [Tasks -> {"PENDING", "GRANTED", "CLOSED"}]
    /\ held \in [Tasks -> Nat]
    /\ supply \in Nat /\ dropped \in BOOLEAN

\* Permits are never made up, and never lost unless a queued or granted future
\* is dropped: free, held and granted permits add up to what was supplied,
\* through grants in release, merges, forgets and close.
Conserved ==
    LET granted == {t \in Tasks : want[t] # 0 /\ outcome[t] = "GRANTED"}
        total == permits + Cardinality(Units(held, Tasks)) + Cardinality(Units(want, granted))
    IN  total <= supply /\ (~dropped => total = supply)

\* Nobody sleeps on permits that are there: the first waiter in the queue never
\* fits, a future waits exactly while it is queued, and none waits once the
\* semaphore is closed.
HeadBlocked ==
    /\ waiters # <<>> => ~closed /\ Head(waiters).needed > permits
    /\ \A t \in Tasks : want[t] # 0 /\ outcome[t] = "PENDING" =>
           \E i \in DOMAIN waiters : /\ waiters[i].task = t /\ waiters[i].live
                                     /\ waiters[i].needed = want[t]
==============================================================================
