------------------------------ MODULE SetOnce -------------------------------
(***************************************************************************)
(* sync::SetOnce (sync/set_once.rs): the cell of OnceCell without an       *)
(* initialiser.  Tasks race to set or wait; a task's value is itself.      *)
(***************************************************************************)
CONSTANTS Tasks, Nothing

VARIABLES state, value, wakers, phase, awake, toWake, got

vars == <<state, value, wakers, phase, awake, toWake, got>>

\* new or new_with; state stands for Inner::initialized.
Init ==
    /\ \/ state = "Uninit" /\ value = Nothing
       \/ state = "Initialized" /\ value \in Tasks
    /\ wakers = {}
    /\ phase = [t \in Tasks |-> "claim"]
    /\ awake = [t \in Tasks |-> FALSE]
    /\ toWake = [t \in Tasks |-> {}]
    /\ got = [t \in Tasks |-> Nothing]

\* set: one critical section; the value comes back if the cell was set.
Set(t) ==
    /\ phase[t] = "claim"
    /\ \/ /\ state = "Uninit"
          /\ value' = t /\ state' = "Initialized"
          /\ wakers' = {} /\ toWake' = [toWake EXCEPT ![t] = wakers]
       \/ state = "Initialized" /\ UNCHANGED <<state, value, wakers, toWake>>
    /\ phase' = [phase EXCEPT ![t] = "done"]
    /\ UNCHANGED <<awake, got>>

\* get, of a cell that is set.
Get(t) ==
    /\ phase[t] = "claim" /\ state = "Initialized"
    /\ phase' = [phase EXCEPT ![t] = "done"]
    /\ got' = [got EXCEPT ![t] = value]
    /\ UNCHANGED <<state, value, wakers, awake, toWake>>

\* A poll of wait, the first one or a later one, woken or not.
PollWait(t) ==
    /\ phase[t] \in {"claim", "parked"}
    /\ \/ /\ state = "Initialized"
          /\ phase' = [phase EXCEPT ![t] = "done"]
          /\ got' = [got EXCEPT ![t] = value]
          /\ UNCHANGED wakers
       \/ /\ state = "Uninit"
          /\ phase' = [phase EXCEPT ![t] = "parked"]
          /\ wakers' = wakers \cup {t}
          /\ UNCHANGED got
    /\ awake' = [awake EXCEPT ![t] = FALSE]
    /\ UNCHANGED <<state, value, toWake>>

\* One waker.wake() after the unlock of set.
Wake(t) ==
    \E u \in toWake[t] :
        /\ toWake' = [toWake EXCEPT ![t] = @ \ {u}]
        /\ awake' = [awake EXCEPT ![u] = phase[u] = "parked"]
        /\ UNCHANGED <<state, value, wakers, phase, got>>

Next == \E t \in Tasks : Set(t) \/ Get(t) \/ PollWait(t) \/ Wake(t)

Spec == Init /\ [][Next]_vars

\* set "never overwrites a value that's already there": whoever got a value got
\* the one still in the cell.
NeverOverwritten ==
    \A t \in Tasks : got[t] # Nothing => state = "Initialized" /\ got[t] = value

\* wait leaves nobody behind: a parked, unwoken task is registered with a cell
\* not yet set, or about to be woken by the setter.
NobodyForgotten ==
    \A t \in Tasks : phase[t] = "parked" /\ ~awake[t] =>
        \/ t \in wakers /\ state = "Uninit"
        \/ \E u \in Tasks : t \in toWake[u]
==============================================================================
