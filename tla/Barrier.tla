------------------------------- MODULE Barrier -------------------------------
(***************************************************************************)
(* sync::Barrier (sync/barrier.rs).  A task may wait round after round;    *)
(* the generation is bounded instead of wrapping at 2^64.                  *)
(***************************************************************************)
EXTENDS Naturals, FiniteSets

CONSTANTS
    Tasks,
    N,              \* Barrier::n
    MaxRounds       \* bound on generation

VARIABLES
    arrived, generation, wakers,    \* fields of State
    phase,          \* "idle", "arrived" between the two critical sections, "parked"
    mine,           \* my_generation of each waiting task
    awake, toWake,
    leaders,        \* history: calls that returned is_leader, of each round
    arrivals        \* history: calls of wait counted in each round

vars == <<arrived, generation, wakers, phase, mine, awake, toWake, leaders, arrivals>>

Rounds == 0..MaxRounds

\* new, whose assertion is the first conjunct.
Init ==
    /\ N > 0
    /\ arrived = 0 /\ generation = 0 /\ wakers = {}
    /\ phase = [t \in Tasks |-> "idle"]
    /\ mine = [t \in Tasks |-> 0]
    /\ awake = [t \in Tasks |-> FALSE]
    /\ toWake = [t \in Tasks |-> {}]
    /\ leaders = [r \in Rounds |-> 0]
    /\ arrivals = [r \in Rounds |-> 0]

\* The first critical section of wait: the last to arrive ends the round and
\* returns as its leader, any other notes the generation.
Arrive(t) ==
    /\ phase[t] = "idle" /\ toWake[t] = {} /\ generation < MaxRounds
    /\ arrivals' = [arrivals EXCEPT ![generation] = @ + 1]
    /\ \/ /\ arrived + 1 = N
          /\ arrived' = 0 /\ generation' = generation + 1
          /\ wakers' = {} /\ toWake' = [toWake EXCEPT ![t] = wakers]
          /\ leaders' = [leaders EXCEPT ![generation] = @ + 1]
          /\ UNCHANGED <<phase, mine>>
       \/ /\ arrived + 1 # N
          /\ arrived' = arrived + 1
          /\ mine' = [mine EXCEPT ![t] = generation]
          /\ phase' = [phase EXCEPT ![t] = "arrived"]
          /\ UNCHANGED <<generation, wakers, toWake, leaders>>
    /\ UNCHANGED awake

\* A poll of the poll_fn: the round is over, or register.
PollWait(t) ==
    /\ phase[t] \in {"arrived", "parked"}
    /\ \/ /\ generation # mine[t]
          /\ phase' = [phase EXCEPT ![t] = "idle"]
          /\ UNCHANGED wakers
       \/ /\ generation = mine[t]
          /\ wakers' = wakers \cup {t}
          /\ phase' = [phase EXCEPT ![t] = "parked"]
    /\ awake' = [awake EXCEPT ![t] = FALSE]
    /\ UNCHANGED <<arrived, generation, mine, toWake, leaders, arrivals>>

\* A waiting call is dropped: "its arrival is not retracted".
Cancel(t) ==
    /\ phase[t] = "parked"
    /\ phase' = [phase EXCEPT ![t] = "idle"]
    /\ awake' = [awake EXCEPT ![t] = FALSE]
    /\ UNCHANGED <<arrived, generation, wakers, mine, toWake, leaders, arrivals>>

\* One waker.wake() after the unlock; a waker of a dropped call wakes the task
\* in whatever it waits for now.
Wake(t) ==
    \E u \in toWake[t] :
        /\ toWake' = [toWake EXCEPT ![t] = @ \ {u}]
        /\ awake' = [awake EXCEPT ![u] = phase[u] = "parked"]
        /\ UNCHANGED <<arrived, generation, wakers, phase, mine, leaders, arrivals>>

Next == \E t \in Tasks : Arrive(t) \/ PollWait(t) \/ Cancel(t) \/ Wake(t)

Spec == Init /\ [][Next]_vars

\* "until n calls ... have all been made, then every one of them resolves
\* together", with "exactly one" leader: every round that is over counted N
\* calls, dropped ones included, and had one leader; the current one has
\* counted `arrived`, and none of its callers got through.
RoundsExact ==
    /\ \A r \in Rounds :
         /\ arrivals[r] = (IF r < generation THEN N ELSE IF r = generation THEN arrived ELSE 0)
         /\ leaders[r] = (IF r < generation THEN 1 ELSE 0)
    /\ arrived < N

\* The waiter list under the one lock (the struct docs of Barrier): a parked,
\* unwoken task is registered for the current round, or about to be woken.
NobodyForgotten ==
    \A t \in Tasks : phase[t] = "parked" /\ ~awake[t] =>
        \/ mine[t] = generation /\ t \in wakers
        \/ \E u \in Tasks : t \in toWake[u]
==============================================================================
