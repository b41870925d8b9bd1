------------------------------- MODULE Watch --------------------------------
(***************************************************************************)
(* sync::watch (sync/watch.rs).  One step per critical section of the      *)
(* mutex around Inner, with the wakes that follow it.  The value changes   *)
(* exactly when the version does and is abstracted to it.  A changed()     *)
(* future is polled by one task.                                           *)
(***************************************************************************)
EXTENDS Naturals, FiniteSets

CONSTANTS
    Receivers,      \* the receivers that may ever exist
    First,          \* the receiver that channel() returns
    MaxVersion      \* bound on Inner::version

VARIABLES
    version, senderAlive, receiversAlive,   \* fields of Inner
    wakers,         \* Inner::wakers, all taken at once: the set of their tasks
    phase,          \* each receiver: "none", "idle", "waiting", "closed"
    seen,           \* Receiver::seen_version
    registered,     \* the local of the changed() future
    awake           \* the waker fired since the future was last polled

vars == <<version, senderAlive, receiversAlive, wakers, phase, seen, registered, awake>>

Init ==
    /\ version = 0 /\ senderAlive = TRUE /\ receiversAlive = 1
    /\ wakers = {}
    /\ phase = [r \in Receivers |-> IF r = First THEN "idle" ELSE "none"]
    /\ seen = [r \in Receivers |-> 0]
    /\ registered = [r \in Receivers |-> FALSE]
    /\ awake = [r \in Receivers |-> FALSE]

\* Every waker is taken and woken; a receiver that does not wait ignores it.
WakeAll ==
    /\ wakers' = {}
    /\ awake' = [r \in Receivers |-> awake[r] \/ (r \in wakers /\ phase[r] = "waiting")]

\* Sender::send, refused without receivers, and send_modify, which never is.
Send(modify) ==
    /\ senderAlive
    /\ modify \/ receiversAlive > 0
    /\ version < MaxVersion
    /\ version' = version + 1
    /\ WakeAll
    /\ UNCHANGED <<senderAlive, receiversAlive, phase, seen, registered>>

DropSender ==
    /\ senderAlive
    /\ senderAlive' = FALSE
    /\ WakeAll
    /\ UNCHANGED <<version, receiversAlive, phase, seen, registered>>

BorrowAndUpdate(r) ==
    /\ phase[r] \in {"idle", "closed"}
    /\ seen' = [seen EXCEPT ![r] = version]
    /\ UNCHANGED <<version, senderAlive, receiversAlive, wakers, phase, registered, awake>>

\* Mutant: a closed channel is reported before an unseen change.
ChangedClosedFirst(r) ==
    /\ phase[r] \in {"idle", "waiting"}
    /\ awake' = [awake EXCEPT ![r] = FALSE]
    /\ \/ /\ ~senderAlive
          /\ phase' = [phase EXCEPT ![r] = "closed"]
          /\ registered' = [registered EXCEPT ![r] = FALSE]
          /\ UNCHANGED <<wakers, seen>>
       \/ /\ senderAlive /\ version # seen[r]
          /\ seen' = [seen EXCEPT ![r] = version]
          /\ phase' = [phase EXCEPT ![r] = "idle"]
          /\ registered' = [registered EXCEPT ![r] = FALSE]
          /\ UNCHANGED wakers
       \/ /\ senderAlive /\ version = seen[r]
          /\ wakers' = IF registered[r] THEN wakers ELSE wakers \cup {r}
          /\ registered' = [registered EXCEPT ![r] = TRUE]
          /\ phase' = [phase EXCEPT ![r] = "waiting"]
          /\ UNCHANGED seen
    /\ UNCHANGED <<version, senderAlive, receiversAlive>>

\* One poll of changed().
Changed(r) ==
    /\ phase[r] \in {"idle", "waiting"}
    /\ awake' = [awake EXCEPT ![r] = FALSE]
    /\ \/ /\ version # seen[r]
          /\ seen' = [seen EXCEPT ![r] = version]
          /\ phase' = [phase EXCEPT ![r] = "idle"]
          /\ registered' = [registered EXCEPT ![r] = FALSE]
          /\ UNCHANGED wakers
       \/ /\ version = seen[r] /\ ~senderAlive
          /\ phase' = [phase EXCEPT ![r] = "closed"]
          /\ registered' = [registered EXCEPT ![r] = FALSE]
          /\ UNCHANGED <<wakers, seen>>
       \/ /\ version = seen[r] /\ senderAlive
          /\ wakers' = IF registered[r] THEN wakers ELSE wakers \cup {r}
          /\ registered' = [registered EXCEPT ![r] = TRUE]
          /\ phase' = [phase EXCEPT ![r] = "waiting"]
          /\ UNCHANGED seen
    /\ UNCHANGED <<version, senderAlive, receiversAlive>>

\* The changed() future is dropped; its waker stays.
Cancel(r) ==
    /\ phase[r] = "waiting"
    /\ phase' = [phase EXCEPT ![r] = "idle"]
    /\ registered' = [registered EXCEPT ![r] = FALSE]
    /\ awake' = [awake EXCEPT ![r] = FALSE]
    /\ UNCHANGED <<version, senderAlive, receiversAlive, wakers, seen>>

Clone(r, q) ==
    /\ phase[r] \in {"idle", "closed"} /\ phase[q] = "none"
    /\ receiversAlive' = receiversAlive + 1
    /\ phase' = [phase EXCEPT ![q] = "idle"]
    /\ seen' = [seen EXCEPT ![q] = seen[r]]
    /\ UNCHANGED <<version, senderAlive, wakers, registered, awake>>

DropReceiver(r) ==
    /\ phase[r] \in {"idle", "closed"}
    /\ receiversAlive' = receiversAlive - 1
    /\ phase' = [phase EXCEPT ![r] = "none"]
    /\ UNCHANGED <<version, senderAlive, wakers, seen, registered, awake>>

Next ==
    \/ DropSender \/ \E modify \in BOOLEAN : Send(modify)
    \/ \E r \in Receivers : \/ BorrowAndUpdate(r) \/ Changed(r) \/ Cancel(r) \/ DropReceiver(r)
                            \/ \E q \in Receivers : Clone(r, q)

Spec == Init /\ [][Next]_vars

------------------------------------------------------------------------------
(* Properties *)

TypeOK ==
    /\ version \in Nat /\ senderAlive \in BOOLEAN /\ receiversAlive \in Nat
    /\ wakers \in SUBSET Receivers
    /\ phase \in [Receivers -> {"none", "idle", "waiting", "closed"}]
    /\ seen \in [Receivers -> Nat]
    /\ registered \in [Receivers -> BOOLEAN]
    /\ awake \in [Receivers -> BOOLEAN]

\* The module doc's "real lost wakeup, not a hypothetical one" cannot happen: a
\* receiver asleep in changed() has seen the latest version, the sender lives,
\* and its waker is there to be taken by the next send or drop.  And changed()
\* fails only for a receiver that has seen the last change.
NoMissedChange ==
    /\ receiversAlive = Cardinality({r \in Receivers : phase[r] # "none"})
    /\ \A r \in Receivers :
           /\ phase[r] = "waiting" /\ ~awake[r] =>
                  seen[r] = version /\ senderAlive /\ r \in wakers
           /\ phase[r] = "closed" => ~senderAlive /\ seen[r] = version
==============================================================================
