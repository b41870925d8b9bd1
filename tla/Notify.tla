------------------------------- MODULE Notify -------------------------------
(***************************************************************************)
(* sync::Notify (sync/notify.rs).  A WaiterState is shared without the     *)
(* lock of the queue, so poll_notified, enable and fire take a step per    *)
(* atomic operation or critical section.  Each future is used once.  A     *)
(* poll that the task's budget cuts short (coop) is no step.               *)
(***************************************************************************)
EXTENDS Naturals, Sequences, FiniteSets

CONSTANTS
    Futures,        \* the Notified and OwnedNotified futures
    Notifiers,      \* threads that notify
    MaxNotify       \* bound on the calls of notify_one and notify_last

VARIABLES
    permits, waiters,   \* fields of Inner
    woken,              \* WaiterState::woken
    waker,              \* WaiterState::waker is Some
    registered,         \* the future's own flag
    pc,                 \* where the future is: not polled, in a poll, parked ...
    awake,              \* its waker fired since the last poll began
    firing,             \* each notifier: the WaiterStates it has still to fire
    stored,             \* ... and whether it has set woken of the first
    calls, given        \* history: notifications made, and by what each future was notified

vars == <<permits, waiters, woken, waker, registered, pc, awake, firing, stored,
          calls, given>>
futVars == <<woken, waker, registered, pc, awake>>

Labels == {"new", "check", "lock", "store", "recheck", "parked", "done", "dropped"}

Init ==
    /\ permits = 0 /\ waiters = <<>>
    /\ woken = [f \in Futures |-> FALSE]
    /\ waker = [f \in Futures |-> FALSE]
    /\ registered = [f \in Futures |-> FALSE]
    /\ pc = [f \in Futures |-> "new"]
    /\ awake = [f \in Futures |-> FALSE]
    /\ firing = [n \in Notifiers |-> <<>>]
    /\ stored = [n \in Notifiers |-> FALSE]
    /\ calls = 0 /\ given = [f \in Futures |-> "none"]

Goto(f, label) == pc' = [pc EXCEPT ![f] = label]

\* The future's WaiterState is in the queue.
Queued(f) == \E i \in 1..Len(waiters) : waiters[i] = f

------------------------------------------------------------------------------
(* The waiting side *)

\* A poll begins, woken or not.
Poll(f) ==
    /\ pc[f] \in {"new", "parked"}
    /\ Goto(f, "check")
    /\ awake' = [awake EXCEPT ![f] = FALSE]
    /\ UNCHANGED <<permits, waiters, woken, waker, registered, firing, stored,
                   calls, given>>

\* The first look at woken in poll_notified ...
CheckWoken(f) ==
    /\ pc[f] = "check"
    /\ Goto(f, IF woken[f] THEN "done" ELSE "lock")
    /\ UNCHANGED <<permits, waiters, woken, waker, registered, awake, firing, stored,
                   calls, given>>

\* ... the critical section: take a permit or register ...
Register(f) ==
    /\ pc[f] = "lock"
    /\ \/ /\ ~registered[f] /\ permits > 0
          /\ permits' = permits - 1
          /\ given' = [given EXCEPT ![f] = "one"]
          /\ Goto(f, "done")
          /\ UNCHANGED <<waiters, registered>>
       \/ /\ ~registered[f] /\ permits = 0
          /\ waiters' = Append(waiters, f)
          /\ registered' = [registered EXCEPT ![f] = TRUE]
          /\ Goto(f, "store")
          /\ UNCHANGED <<permits, given>>
       \/ /\ registered[f]
          /\ Goto(f, "store")
          /\ UNCHANGED <<permits, waiters, registered, given>>
    /\ UNCHANGED <<woken, waker, awake, firing, stored, calls>>

\* ... store the waker ...
StoreWaker(f) ==
    /\ pc[f] = "store"
    /\ waker' = [waker EXCEPT ![f] = TRUE]
    /\ Goto(f, "recheck")
    /\ UNCHANGED <<permits, waiters, woken, registered, awake, firing, stored,
                   calls, given>>

\* Mutant: woken is not looked at again.
RecheckSkipped(f) ==
    /\ pc[f] = "recheck"
    /\ Goto(f, "parked")
    /\ UNCHANGED <<permits, waiters, woken, waker, registered, awake, firing, stored,
                   calls, given>>

\* ... and look at woken again before Pending.
Recheck(f) ==
    /\ pc[f] = "recheck"
    /\ Goto(f, IF woken[f] THEN "done" ELSE "parked")
    /\ UNCHANGED <<permits, waiters, woken, waker, registered, awake, firing, stored,
                   calls, given>>

\* enable, between polls: register without a waker, or take a permit.
Enable(f) ==
    /\ pc[f] \in {"new", "parked"}
    /\ ~woken[f] /\ ~registered[f]
    /\ \/ /\ permits > 0
          /\ permits' = permits - 1
          /\ given' = [given EXCEPT ![f] = "one"]
          /\ woken' = [woken EXCEPT ![f] = TRUE]
          /\ UNCHANGED <<waiters, registered>>
       \/ /\ permits = 0
          /\ waiters' = Append(waiters, f)
          /\ registered' = [registered EXCEPT ![f] = TRUE]
          /\ UNCHANGED <<permits, woken, given>>
    /\ UNCHANGED <<waker, pc, awake, firing, stored, calls>>

\* The future is dropped; it has no Drop, so the queue keeps its WaiterState.
DropFuture(f) ==
    /\ pc[f] \in {"new", "parked"}
    /\ Goto(f, "dropped")
    /\ awake' = [awake EXCEPT ![f] = FALSE]
    /\ UNCHANGED <<permits, waiters, woken, waker, registered, firing, stored,
                   calls, given>>

------------------------------------------------------------------------------
(* The notifying side *)

\* Mutant: a permit is banked although somebody is queued.
NotifyAlwaysBanks(n, last) ==
    /\ firing[n] = <<>> /\ calls < MaxNotify
    /\ calls' = calls + 1
    /\ permits' = permits + 1
    /\ UNCHANGED <<waiters, firing, given, stored, futVars>>

\* notify_one pops the oldest waiter, notify_last the newest; with none queued
\* they bank a permit.
Notify(n, last) ==
    /\ firing[n] = <<>> /\ calls < MaxNotify
    /\ calls' = calls + 1
    /\ \/ /\ waiters = <<>>
          /\ permits' = permits + 1
          /\ UNCHANGED <<waiters, firing, given>>
       \/ /\ waiters # <<>>
          /\ LET f == IF last THEN waiters[Len(waiters)] ELSE Head(waiters)
             IN  /\ firing' = [firing EXCEPT ![n] = <<f>>]
                 /\ given' = [given EXCEPT ![f] = "one"]
          /\ waiters' = IF last THEN SubSeq(waiters, 1, Len(waiters) - 1) ELSE Tail(waiters)
          /\ UNCHANGED permits
    /\ UNCHANGED <<stored, futVars>>

\* notify_waiters takes the whole queue.
NotifyWaiters(n) ==
    /\ firing[n] = <<>>
    /\ firing' = [firing EXCEPT ![n] = waiters]
    /\ waiters' = <<>>
    /\ given' = [f \in Futures |-> IF Queued(f) THEN "all" ELSE given[f]]
    /\ UNCHANGED <<permits, stored, futVars, calls>>

\* fire: set woken ...
FireStore(n) ==
    /\ firing[n] # <<>> /\ ~stored[n]
    /\ woken' = [woken EXCEPT ![Head(firing[n])] = TRUE]
    /\ stored' = [stored EXCEPT ![n] = TRUE]
    /\ UNCHANGED <<permits, waiters, waker, registered, pc, awake, firing,
                   calls, given>>

\* ... then take the waker and wake it, if there is one.
FireWake(n) ==
    LET f == Head(firing[n])
    IN  /\ firing[n] # <<>> /\ stored[n]
        /\ waker' = [waker EXCEPT ![f] = FALSE]
        /\ awake' = [awake EXCEPT ![f] = @ \/ (waker[f] /\ pc[f] \notin {"done", "dropped"})]
        /\ firing' = [firing EXCEPT ![n] = Tail(@)]
        /\ stored' = [stored EXCEPT ![n] = FALSE]
        /\ UNCHANGED <<permits, waiters, woken, registered, pc, calls, given>>

Next ==
    \/ \E f \in Futures : \/ Poll(f) \/ CheckWoken(f) \/ Register(f)
                          \/ StoreWaker(f) \/ Recheck(f) \/ Enable(f) \/ DropFuture(f)
    \/ \E n \in Notifiers : \/ NotifyWaiters(n) \/ FireStore(n) \/ FireWake(n)
                            \/ \E last \in BOOLEAN : Notify(n, last)

Spec == Init /\ [][Next]_vars

------------------------------------------------------------------------------
(* Properties *)

TypeOK ==
    /\ permits \in Nat /\ waiters \in Seq(Futures)
    /\ woken \in [Futures -> BOOLEAN] /\ waker \in [Futures -> BOOLEAN]
    /\ registered \in [Futures -> BOOLEAN]
    /\ pc \in [Futures -> Labels] /\ awake \in [Futures -> BOOLEAN]
    /\ firing \in [Notifiers -> Seq(Futures)] /\ stored \in [Notifiers -> BOOLEAN]
    /\ calls \in Nat /\ given \in [Futures -> {"none", "one", "all"}]

\* A notifier has popped the future and has not fired it yet.
InHands(f) == \E n \in Notifiers : \E i \in 1..Len(firing[n]) : firing[n][i] = f

\* notify_one "wakes one waiter, or -- if nobody is currently waiting -- banks a
\* permit".  Permits and queued waiters never exist together; no notification is
\* spent on two waits and none comes from nowhere; no wait ends without one; and
\* one that was spent reaches its future, unless that future is dropped: then it
\* is lost, since Notified has no Drop that would pass it on.
Banked ==
    /\ permits > 0 => waiters = <<>>
    /\ calls = permits + Cardinality({f \in Futures : given[f] = "one"})
    /\ \A f \in Futures :
         /\ pc[f] = "done" \/ woken[f] => given[f] # "none"
         /\ given[f] # "none" => pc[f] \in {"done", "dropped"} \/ woken[f] \/ InHands(f)

\* A notified future is not left asleep: one that returned Pending and was
\* notified is awake, or a notifier has yet to wake it, and one that was not
\* is queued or in a notifier's hands (the re-check in poll_notified).  And "a
\* poll that runs because it was woken always finds its own flag already true".
NotifiedWakes ==
    \A f \in Futures :
        /\ pc[f] = "parked" /\ ~awake[f] =>
             \/ InHands(f)
             \/ ~woken[f] /\ Queued(f)
        /\ awake[f] => woken[f]
==============================================================================
