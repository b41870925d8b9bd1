------------------------------ MODULE OnceCell ------------------------------
(***************************************************************************)
(* sync::OnceCell (sync/once_cell.rs).  The value lives outside the inner  *)
(* lock, so writing it is a step of its own, and wakers are called after   *)
(* the unlock.  Each task calls once; its value is itself.                 *)
(***************************************************************************)
EXTENDS FiniteSets

CONSTANTS
    Tasks,
    Nothing         \* the uninitialised value, no task

VARIABLES
    state,          \* Inner::state
    value,          \* the UnsafeCell
    wakers,         \* Inner::wakers: the tasks whose wakers are in it
    phase,          \* where each task is in get_or_init, or done
    awake,          \* its waker fired since the last poll began
    toWake,         \* wakers a task took under the lock and has still to call
    got             \* what its call returned: a value, or Nothing so far

vars == <<state, value, wakers, phase, awake, toWake, got>>

\* new, or new_with a value that somebody (here the first to ask) supplied.
Init ==
    /\ \/ state = "Uninit" /\ value = Nothing
       \/ state = "Initialized" /\ value \in Tasks
    /\ wakers = {}
    /\ phase = [t \in Tasks |-> "claim"]
    /\ awake = [t \in Tasks |-> FALSE]
    /\ toWake = [t \in Tasks |-> {}]
    /\ got = [t \in Tasks |-> Nothing]

Goto(t, p) == phase' = [phase EXCEPT ![t] = p]
Return(t, v) == Goto(t, "done") /\ got' = [got EXCEPT ![t] = v]

\* The take of Inner::wakers under the lock.
TakeWakers(t) == wakers' = {} /\ toWake' = [toWake EXCEPT ![t] = wakers]

\* get: the value if there is one.
Get(t) ==
    /\ phase[t] = "claim" /\ state = "Initialized"
    /\ Return(t, value)
    /\ UNCHANGED <<state, value, wakers, awake, toWake>>

\* set: writes the value, changes the state and takes the wakers in one
\* critical section, and fails unless the cell is Uninit.
Set(t) ==
    /\ phase[t] = "claim"
    /\ \/ /\ state = "Uninit"
          /\ value' = t /\ state' = "Initialized"
          /\ TakeWakers(t)
          /\ Return(t, t)
       \/ /\ state # "Uninit"
          /\ Goto(t, "done")
          /\ UNCHANGED <<state, value, wakers, toWake, got>>
    /\ UNCHANGED awake

\* Mutant: two tasks may claim the initialisation.
TryClaimTwice(t) ==
    /\ phase[t] = "claim"
    /\ \/ state = "Initialized" /\ Return(t, value) /\ UNCHANGED state
       \/ state # "Initialized" /\ state' = "Initializing" /\ Goto(t, "init") /\ UNCHANGED got
    /\ UNCHANGED <<value, wakers, awake, toWake>>

\* try_claim, at the head of the loop of get_or_init.
TryClaim(t) ==
    /\ phase[t] = "claim"
    /\ \/ state = "Initialized" /\ Return(t, value) /\ UNCHANGED state
       \/ state = "Initializing" /\ Goto(t, "wait") /\ UNCHANGED <<state, got>>
       \/ state = "Uninit" /\ state' = "Initializing" /\ Goto(t, "init") /\ UNCHANGED got
    /\ UNCHANGED <<value, wakers, awake, toWake>>

\* A poll of the waiting poll_fn, woken or not: look again and register in one
\* critical section.
PollWait(t) ==
    /\ phase[t] = "wait" \/ phase[t] = "parked"
    /\ \/ state # "Initializing" /\ Goto(t, "claim") /\ UNCHANGED wakers
       \/ state = "Initializing" /\ wakers' = wakers \cup {t} /\ Goto(t, "parked")
    /\ awake' = [awake EXCEPT ![t] = FALSE]
    /\ UNCHANGED <<state, value, toWake, got>>

\* The initialiser finishes: the value is written without the lock ...
WriteValue(t) ==
    /\ phase[t] = "init"
    /\ value' = t
    /\ Goto(t, "publish")
    /\ UNCHANGED <<state, wakers, awake, toWake, got>>

\* ... then the state changes and the wakers are taken.
Publish(t) ==
    /\ phase[t] = "publish"
    /\ state' = "Initialized"
    /\ TakeWakers(t)
    /\ Return(t, value)
    /\ UNCHANGED <<value, awake>>

\* Mutant: a dropped initialiser leaves its waiters where they are.
ResetSilently(t) ==
    /\ phase[t] = "init"
    /\ state' = "Uninit"
    /\ Goto(t, "done")
    /\ UNCHANGED <<value, wakers, awake, toWake, got>>

\* ResetGuard::drop: the initialiser panicked, or was dropped at its await.
Reset(t) ==
    /\ phase[t] = "init"
    /\ state' = "Uninit"
    /\ TakeWakers(t)
    /\ Goto(t, "done")
    /\ UNCHANGED <<value, awake, got>>

\* A waiting get_or_init is dropped; its waker stays in the list.
Cancel(t) ==
    /\ phase[t] = "parked"
    /\ Goto(t, "done")
    /\ UNCHANGED <<state, value, wakers, awake, toWake, got>>

\* One waker.wake() after the unlock.
Wake(t) ==
    \E u \in toWake[t] :
        /\ toWake' = [toWake EXCEPT ![t] = @ \ {u}]
        /\ awake' = [awake EXCEPT ![u] = phase[u] = "parked"]
        /\ UNCHANGED <<state, value, wakers, phase, got>>

Next ==
    \E t \in Tasks : \/ Get(t) \/ Set(t) \/ TryClaim(t) \/ PollWait(t)
                     \/ WriteValue(t) \/ Publish(t) \/ Reset(t) \/ Cancel(t) \/ Wake(t)

Spec == Init /\ [][Next]_vars

------------------------------------------------------------------------------
(* Properties *)

\* get_or_init "runs at most once across however many concurrent callers": at
\* most one task initialises, exactly while the state says so; and every call
\* that returns a value returns the one in the cell, which is never written
\* again (the SAFETY comments of get, set and get_or_init).
OneWriter ==
    LET writing == {t \in Tasks : phase[t] \in {"init", "publish"}}
    IN  /\ Cardinality(writing) = (IF state = "Initializing" THEN 1 ELSE 0)
        /\ \A t \in Tasks : got[t] # Nothing => state = "Initialized" /\ got[t] = value

\* "every other caller currently parked wakes back up": a parked, unwoken task
\* is registered with a running initialiser or about to be woken.
NobodyForgotten ==
    \A t \in Tasks : phase[t] = "parked" /\ ~awake[t] =>
        \/ t \in wakers /\ \E u \in Tasks : phase[u] \in {"init", "publish"}
        \/ \E u \in Tasks : t \in toWake[u]
==============================================================================
