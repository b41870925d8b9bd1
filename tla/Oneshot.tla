------------------------------ MODULE Oneshot -------------------------------
(***************************************************************************)
(* sync::oneshot (sync/oneshot.rs).  One step per critical section of the  *)
(* state's mutex, with the wake that follows it.  Sender::send consumes    *)
(* the sender, whose Drop runs as a second critical section.               *)
(***************************************************************************)
VARIABLES
    slot,       \* Shared::state
    sender,     \* the Sender: "live", "sent" or "refused" (in send), "dropped"
    sendOk,     \* history: send returned Ok
    phase,      \* the Receiver: "idle", "waiting", "value", "error", "dropped"
    awake       \* its waker has fired since it was last polled

vars == <<slot, sender, sendOk, phase, awake>>

Init ==
    /\ slot = "Empty"
    /\ sender = "live"
    /\ sendOk = FALSE
    /\ phase = "idle"
    /\ awake = FALSE

\* waker.wake() on the waker found in State::Waiting, if that is what it was.
WakeOld == awake' = (awake \/ (slot = "Waiting" /\ phase = "waiting"))

Send ==
    /\ sender = "live"
    /\ \/ /\ slot = "Closed"
          /\ sender' = "refused"
          /\ UNCHANGED <<slot, sendOk, awake>>
       \/ /\ slot # "Closed"
          /\ slot' = "Value"
          /\ sender' = "sent"
          /\ sendOk' = TRUE
          /\ WakeOld
    /\ UNCHANGED phase

\* Mutant: a waiting receiver is not woken.
DropSenderSilently ==
    /\ sender \in {"live", "sent", "refused"}
    /\ sender' = "dropped"
    /\ slot' = IF slot \in {"Empty", "Waiting"} THEN "Closed" ELSE slot
    /\ UNCHANGED <<sendOk, phase, awake>>

\* Drop for Sender, unused or at the end of send.
DropSender ==
    /\ sender \in {"live", "sent", "refused"}
    /\ sender' = "dropped"
    /\ \/ /\ slot \in {"Empty", "Waiting"}
          /\ slot' = "Closed"
          /\ WakeOld
       \/ /\ slot \notin {"Empty", "Waiting"}
          /\ UNCHANGED <<slot, awake>>
    /\ UNCHANGED <<sendOk, phase>>

\* Future for Receiver, polled until it is ready.
Poll ==
    /\ phase \in {"idle", "waiting"}
    /\ awake' = FALSE
    /\ \/ slot = "Value" /\ slot' = "Closed" /\ phase' = "value"
       \/ slot = "Closed" /\ phase' = "error" /\ UNCHANGED slot
       \/ slot \in {"Empty", "Waiting"} /\ slot' = "Waiting" /\ phase' = "waiting"
    /\ UNCHANGED <<sender, sendOk>>

DropReceiver ==
    /\ phase # "dropped"
    /\ phase' = "dropped"
    /\ slot' = "Closed"
    /\ awake' = FALSE
    /\ UNCHANGED <<sender, sendOk>>

Next == Send \/ DropSender \/ Poll \/ DropReceiver

Spec == Init /\ [][Next]_vars

------------------------------------------------------------------------------
(* Properties *)

TypeOK ==
    /\ slot \in {"Empty", "Waiting", "Value", "Closed"}
    /\ sender \in {"live", "sent", "refused", "dropped"}
    /\ sendOk \in BOOLEAN
    /\ phase \in {"idle", "waiting", "value", "error", "dropped"}
    /\ awake \in BOOLEAN

\* RecvError means "the sender was dropped without ever calling Sender::send",
\* a value accepted by send is kept for a receiver that still exists, and a
\* receiver sleeps only while the sender is there to wake it.
Delivers ==
    /\ phase = "error" => ~sendOk /\ sender = "dropped"
    /\ phase = "value" => sendOk
    /\ sendOk /\ phase \in {"idle", "waiting"} => slot = "Value"
    /\ phase = "waiting" /\ ~awake => slot = "Waiting" /\ sender = "live"
==============================================================================
