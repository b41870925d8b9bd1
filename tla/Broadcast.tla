----------------------------- MODULE Broadcast ------------------------------
(***************************************************************************)
(* sync::broadcast (sync/broadcast.rs).  One step per critical section of  *)
(* the mutex around Inner, with the wakes that follow it.  Messages are    *)
(* members of a small set; `log` is the history of all that were sent,     *)
(* against which what each receiver gets is measured.                      *)
(***************************************************************************)
EXTENDS Naturals, Sequences, FiniteSets

CONSTANTS
    Receivers, First,   \* receivers that may exist; the one channel() returns
    Values,             \* messages
    Capacity,           \* Inner::capacity
    MaxSent,            \* bound on the messages sent
    MaxSenders          \* bound on Sender handles

VARIABLES
    buffer, nextSeq, sendersAlive, receiversAlive,  \* fields of Inner
    waiters,        \* Inner::waiters, all taken at once: the set of their tasks
    phase,          \* each receiver: "none", "idle", "waiting", "closed"
    nextToRead,     \* Receiver::next_to_read
    awake,          \* the waker fired since recv() was last polled
    log,            \* history: every message sent, in order
    start,          \* history: the position at which the receiver subscribed
    got,            \* history: the messages the receiver was given
    missed          \* history: the sum of the Lagged counts it was given

inner == <<buffer, nextSeq, sendersAlive, receiversAlive>>
hist == <<log, start, got, missed>>
vars == <<inner, waiters, phase, nextToRead, awake, hist>>

Init ==
    /\ buffer = <<>> /\ nextSeq = 0 /\ sendersAlive = 1 /\ receiversAlive = 1
    /\ waiters = {}
    /\ phase = [r \in Receivers |-> IF r = First THEN "idle" ELSE "none"]
    /\ nextToRead = [r \in Receivers |-> 0]
    /\ awake = [r \in Receivers |-> FALSE]
    /\ log = <<>>
    /\ start = [r \in Receivers |-> 0]
    /\ got = [r \in Receivers |-> <<>>]
    /\ missed = [r \in Receivers |-> 0]

WakeAll ==
    /\ waiters' = {}
    /\ awake' = [r \in Receivers |-> awake[r] \/ (r \in waiters /\ phase[r] = "waiting")]

\* Sender::send; without receivers it fails and changes nothing.
Send(v) ==
    /\ sendersAlive > 0
    /\ receiversAlive > 0
    /\ nextSeq < MaxSent
    /\ buffer' = Append(IF Len(buffer) = Capacity THEN Tail(buffer) ELSE buffer, v)
    /\ nextSeq' = nextSeq + 1
    /\ WakeAll
    /\ log' = Append(log, v)
    /\ UNCHANGED <<sendersAlive, receiversAlive, phase, nextToRead, start, got, missed>>

Subscribe(r) ==
    /\ sendersAlive > 0
    /\ phase[r] = "none"
    /\ receiversAlive' = receiversAlive + 1
    /\ phase' = [phase EXCEPT ![r] = "idle"]
    /\ nextToRead' = [nextToRead EXCEPT ![r] = nextSeq]
    /\ start' = [start EXCEPT ![r] = nextSeq]
    /\ got' = [got EXCEPT ![r] = <<>>]
    /\ missed' = [missed EXCEPT ![r] = 0]
    /\ UNCHANGED <<buffer, nextSeq, sendersAlive, waiters, awake, log>>

\* Clone for Sender, and WeakSender::upgrade, which asks for a live sender.
CloneSender ==
    /\ sendersAlive \in 1..(MaxSenders - 1)
    /\ sendersAlive' = sendersAlive + 1
    /\ UNCHANGED <<buffer, nextSeq, receiversAlive, waiters, phase, nextToRead, awake, hist>>

DropSender ==
    /\ sendersAlive > 0
    /\ sendersAlive' = sendersAlive - 1
    /\ IF sendersAlive = 1 THEN WakeAll ELSE UNCHANGED <<waiters, awake>>
    /\ UNCHANGED <<buffer, nextSeq, receiversAlive, phase, nextToRead, hist>>

\* The sequence number of the oldest message in the buffer.
BaseSeq == nextSeq - Len(buffer)

\* Mutant: the lagged receiver skips the oldest message too.
LaggedTooFar(r) ==
    /\ nextToRead[r] < BaseSeq
    /\ missed' = [missed EXCEPT ![r] = @ + (BaseSeq - nextToRead[r])]
    /\ nextToRead' = [nextToRead EXCEPT ![r] = BaseSeq + 1]
    /\ UNCHANGED got

\* Err(Lagged): the receiver fell behind the buffer and jumps to its start.
Lagged(r) ==
    /\ nextToRead[r] < BaseSeq
    /\ missed' = [missed EXCEPT ![r] = @ + (BaseSeq - nextToRead[r])]
    /\ nextToRead' = [nextToRead EXCEPT ![r] = BaseSeq]
    /\ UNCHANGED got

\* Ok: the message at the receiver's position.
Received(r) ==
    /\ nextToRead[r] >= BaseSeq /\ nextToRead[r] < nextSeq
    /\ got' = [got EXCEPT ![r] = Append(@, buffer[nextToRead[r] - BaseSeq + 1])]
    /\ nextToRead' = [nextToRead EXCEPT ![r] = @ + 1]
    /\ UNCHANGED missed

\* poll_recv; try_recv does the same where it does not return Empty.
Recv(r) ==
    /\ phase[r] \in {"idle", "waiting"}
    /\ awake' = [awake EXCEPT ![r] = FALSE]
    /\ \/ /\ Lagged(r) \/ Received(r)
          /\ phase' = [phase EXCEPT ![r] = "idle"]
          /\ UNCHANGED waiters
       \/ /\ nextToRead[r] = nextSeq
          /\ IF sendersAlive = 0
             THEN phase' = [phase EXCEPT ![r] = "closed"] /\ UNCHANGED waiters
             ELSE phase' = [phase EXCEPT ![r] = "waiting"] /\ waiters' = waiters \cup {r}
          /\ UNCHANGED <<nextToRead, got, missed>>
    /\ UNCHANGED <<inner, log, start>>

\* The recv() future is dropped; its waker stays.
Cancel(r) ==
    /\ phase[r] = "waiting"
    /\ phase' = [phase EXCEPT ![r] = "idle"]
    /\ awake' = [awake EXCEPT ![r] = FALSE]
    /\ UNCHANGED <<inner, waiters, nextToRead, hist>>

DropReceiver(r) ==
    /\ phase[r] \in {"idle", "closed"}
    /\ receiversAlive' = receiversAlive - 1
    /\ phase' = [phase EXCEPT ![r] = "none"]
    /\ UNCHANGED <<buffer, nextSeq, sendersAlive, waiters, nextToRead, awake, hist>>

Next ==
    \/ \E v \in Values : Send(v)
    \/ CloneSender \/ DropSender
    \/ \E r \in Receivers : Subscribe(r) \/ Recv(r) \/ Cancel(r) \/ DropReceiver(r)

Spec == Init /\ [][Next]_vars

------------------------------------------------------------------------------
(* Properties *)

TypeOK ==
    /\ buffer \in Seq(Values) /\ nextSeq \in Nat
    /\ sendersAlive \in Nat /\ receiversAlive \in Nat
    /\ waiters \in SUBSET Receivers
    /\ phase \in [Receivers -> {"none", "idle", "waiting", "closed"}]
    /\ nextToRead \in [Receivers -> Nat]
    /\ awake \in [Receivers -> BOOLEAN]
    /\ log \in Seq(Values)
    /\ start \in [Receivers -> Nat]
    /\ got \in [Receivers -> Seq(Values)]
    /\ missed \in [Receivers -> Nat]

\* "its next recv() reports exactly how many messages it missed": from its
\* subscription on, a receiver is given every message or has it counted in a
\* Lagged, once, and one that never lagged was given exactly what was sent.  The
\* ring holds the newest messages, as many as fit.
Accounts ==
    /\ buffer = SubSeq(log, BaseSeq + 1, nextSeq) /\ Len(log) = nextSeq
    /\ Len(buffer) <= Capacity /\ (nextSeq >= Capacity => Len(buffer) = Capacity)
    /\ \A r \in Receivers : phase[r] # "none" =>
           /\ Len(got[r]) + missed[r] = nextToRead[r] - start[r]
           /\ missed[r] = 0 => got[r] = SubSeq(log, start[r] + 1, nextToRead[r])
           /\ phase[r] = "closed" => nextToRead[r] = Len(log)

\* A receiver asleep in recv() has read everything, a sender lives, and its
\* waker is there to be taken: neither a send nor the drop of the last sender
\* is slept through.
NoSleep ==
    /\ receiversAlive = Cardinality({r \in Receivers : phase[r] # "none"})
    /\ \A r \in Receivers : phase[r] = "waiting" /\ ~awake[r] =>
           nextToRead[r] = nextSeq /\ sendersAlive > 0 /\ r \in waiters
==============================================================================
