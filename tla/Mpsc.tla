-------------------------------- MODULE Mpsc --------------------------------
(***************************************************************************)
(* sync::mpsc (sync/mpsc.rs), the bounded and the unbounded channel.  One  *)
(* step per critical section of the mutex around Inner, with the wakes     *)
(* that follow it.  The unbounded channel is the bounded one without the   *)
(* capacity test, reservations and waiting senders.  Each sender task has  *)
(* at most one pending send or reserve future, and the permits it holds    *)
(* are counted; owned permits keep their Sender alive.  A poll that the    *)
(* task's budget cuts short (coop) leaves the task awake and is no step.   *)
(***************************************************************************)
EXTENDS Sequences, FiniteSetsExt

CONSTANTS
    Senders, First,     \* sender tasks; the one that gets channel()'s Sender
    Unbounded,          \* TRUE: unbounded_channel
    Capacity,           \* Inner::capacity
    MaxMany,            \* bound on the argument of reserve_many
    MaxSent,            \* bound on the messages sent
    MaxWaiters          \* bound on send_waiters

VARIABLES
    queue, reserved, receiverAlive,     \* fields of Inner
    sendersAlive,
    waiters,            \* Inner::send_waiters: the tasks of the queued wakers
    recvWaker,          \* Inner::recv_waker is Some
    phase,              \* each sender: "none", "idle", "send", "reserve"
    want,               \* the slots a waiting future asks for
    held,               \* the permits the sender holds
    awake,              \* the sender's waker fired since its future was polled
    recv,               \* the receiver: "idle", "waiting", "closed", "dropped"
    recvAwake,          \* its waker fired since recv() was polled
    sent, got,          \* history: messages accepted, messages received
    disturbed           \* history: a waiting sender was dropped or polled
                        \* unwoken, or reserve_many asked for several slots

txVars == <<phase, want, held, awake>>
rxVars == <<recv, recvAwake>>
hist == <<sent, got>>
vars == <<queue, reserved, receiverAlive, sendersAlive, waiters, recvWaker,
          txVars, rxVars, hist, disturbed>>

Init ==
    /\ queue = <<>> /\ reserved = 0 /\ receiverAlive = TRUE /\ sendersAlive = 1
    /\ waiters = <<>> /\ recvWaker = FALSE
    /\ phase = [s \in Senders |-> IF s = First THEN "idle" ELSE "none"]
    /\ want = [s \in Senders |-> 0]
    /\ held = [s \in Senders |-> 0]
    /\ awake = [s \in Senders |-> FALSE]
    /\ recv = "idle" /\ recvAwake = FALSE
    /\ sent = <<>> /\ got = <<>>
    /\ disturbed = FALSE

Waits(s) == phase[s] \in {"send", "reserve"}

\* The first n wakers of send_waiters are popped and woken.
WakeSenders(n) ==
    LET k == Min({n, Len(waiters)})
    IN  /\ waiters' = SubSeq(waiters, k + 1, Len(waiters))
        /\ awake' = [s \in Senders |->
                       awake[s] \/ (Waits(s) /\ \E i \in 1..k : waiters[i] = s)]

\* A message is queued, and recv_waker taken and woken.
Push(s) ==
    /\ Len(sent) < MaxSent
    /\ queue' = Append(queue, s)
    /\ sent' = Append(sent, s)
    /\ recvWaker' = FALSE
    /\ recvAwake' = (recvAwake \/ (recvWaker /\ recv = "waiting"))

\* Mutant: reserved slots are forgotten in the test.
HasRoomUnreserved(n) == Unbounded \/ Len(queue) + n <= Capacity

HasRoom(n) == Unbounded \/ Len(queue) + reserved + n <= Capacity

\* The future is done, by success or because the receiver is gone.
Finish(s) ==
    /\ phase' = [phase EXCEPT ![s] = "idle"]
    /\ want' = [want EXCEPT ![s] = 0]
    /\ awake' = [awake EXCEPT ![s] = FALSE]

\* send_waiters.push_back
Wait(s, op, n) ==
    /\ Len(waiters) < MaxWaiters
    /\ waiters' = Append(waiters, s)
    /\ phase' = [phase EXCEPT ![s] = op]
    /\ want' = [want EXCEPT ![s] = n]
    /\ awake' = [awake EXCEPT ![s] = FALSE]

\* One poll of send; try_send succeeds in the same case, and
\* UnboundedSender::send always finds room.
PollSend(s) ==
    /\ \/ /\ ~receiverAlive
          /\ Finish(s)
          /\ UNCHANGED <<queue, waiters, recvWaker, recvAwake, sent>>
       \/ /\ receiverAlive /\ HasRoom(1)
          /\ Push(s)
          /\ Finish(s)
          /\ UNCHANGED waiters
       \/ /\ receiverAlive /\ ~HasRoom(1)
          /\ Wait(s, "send", 1)
          /\ UNCHANGED <<queue, recvWaker, recvAwake, sent>>
    /\ UNCHANGED <<reserved, held>>

\* poll_reserve; try_reserve succeeds in the same case.
PollReserve(s, n) ==
    /\ ~Unbounded
    /\ \/ /\ ~receiverAlive
          /\ Finish(s)
          /\ UNCHANGED <<reserved, waiters, held>>
       \/ /\ receiverAlive /\ HasRoom(n)
          /\ reserved' = reserved + n
          /\ held' = [held EXCEPT ![s] = @ + n]
          /\ Finish(s)
          /\ UNCHANGED waiters
       \/ /\ receiverAlive /\ ~HasRoom(n)
          /\ Wait(s, "reserve", n)
          /\ UNCHANGED <<reserved, held>>
    /\ UNCHANGED <<queue, recvWaker, recvAwake, sent>>

\* send, or reserve, reserve_many and reserve_owned, are polled first ...
Begin(s) ==
    /\ phase[s] = "idle"
    /\ \/ PollSend(s) /\ UNCHANGED disturbed
       \/ \E n \in 1..MaxMany : PollReserve(s, n) /\ disturbed' = (disturbed \/ n > 1)
    /\ UNCHANGED <<receiverAlive, sendersAlive, recv, got>>

\* ... and again, woken or not.
Repoll(s) ==
    /\ Waits(s)
    /\ IF phase[s] = "send" THEN PollSend(s) ELSE PollReserve(s, want[s])
    /\ disturbed' = (disturbed \/ ~awake[s])
    /\ UNCHANGED <<receiverAlive, sendersAlive, recv, got>>

\* The future is dropped while it waits, as by the timeout of send_timeout.
Cancel(s) ==
    /\ Waits(s)
    /\ Finish(s)
    /\ disturbed' = TRUE
    /\ UNCHANGED <<queue, reserved, receiverAlive, sendersAlive, waiters, recvWaker,
                   held, rxVars, hist>>

\* Permit::send, OwnedPermit::send: Shared::fill_reserved
FillReserved(s) ==
    /\ held[s] > 0
    /\ reserved' = reserved - 1
    /\ held' = [held EXCEPT ![s] = @ - 1]
    /\ Push(s)
    /\ UNCHANGED <<receiverAlive, sendersAlive, waiters, phase, want, awake, recv,
                   got, disturbed>>

\* Mutant: the slots come back and no sender is told.
ReleaseReservedSilently(s, n) ==
    /\ held[s] >= n
    /\ reserved' = reserved - n
    /\ held' = [held EXCEPT ![s] = @ - n]
    /\ UNCHANGED <<queue, receiverAlive, sendersAlive, waiters, recvWaker, phase,
                   want, awake, rxVars, hist, disturbed>>

\* A permit, or a PermitIterator with n left, is dropped: release_reserved(n)
ReleaseReserved(s, n) ==
    /\ held[s] >= n
    /\ reserved' = reserved - n
    /\ held' = [held EXCEPT ![s] = @ - n]
    /\ WakeSenders(n)
    /\ UNCHANGED <<queue, receiverAlive, sendersAlive, recvWaker, phase, want,
                   rxVars, hist, disturbed>>

\* Clone for Sender, and WeakSender::upgrade, which asks for a live sender.
CloneSender(s) ==
    /\ sendersAlive > 0
    /\ phase[s] = "none"
    /\ sendersAlive' = sendersAlive + 1
    /\ phase' = [phase EXCEPT ![s] = "idle"]
    /\ UNCHANGED <<queue, reserved, receiverAlive, waiters, recvWaker, want, held,
                   awake, rxVars, hist, disturbed>>

DropSender(s) ==
    /\ phase[s] = "idle" /\ held[s] = 0
    /\ sendersAlive' = sendersAlive - 1
    /\ phase' = [phase EXCEPT ![s] = "none"]
    /\ IF sendersAlive = 1
       THEN recvWaker' = FALSE /\ recvAwake' = (recvAwake \/ (recvWaker /\ recv = "waiting"))
       ELSE UNCHANGED <<recvWaker, recvAwake>>
    /\ UNCHANGED <<queue, reserved, receiverAlive, waiters, want, held, awake, recv,
                   hist, disturbed>>

\* One poll of recv.
Recv ==
    /\ recv \in {"idle", "waiting"}
    /\ recvAwake' = FALSE
    /\ \/ /\ queue # <<>>
          /\ queue' = Tail(queue)
          /\ got' = Append(got, Head(queue))
          /\ recv' = "idle"
          /\ WakeSenders(1)
          /\ UNCHANGED recvWaker
       \/ /\ queue = <<>> /\ sendersAlive = 0
          /\ recv' = "closed"
          /\ UNCHANGED <<queue, got, waiters, awake, recvWaker>>
       \/ /\ queue = <<>> /\ sendersAlive > 0
          /\ recv' = "waiting"
          /\ recvWaker' = TRUE
          /\ UNCHANGED <<queue, got, waiters, awake>>
    /\ UNCHANGED <<reserved, receiverAlive, sendersAlive, phase, want, held, sent, disturbed>>

\* The recv() future is dropped; its waker stays.
CancelRecv ==
    /\ recv = "waiting"
    /\ recv' = "idle" /\ recvAwake' = FALSE
    /\ UNCHANGED <<queue, reserved, receiverAlive, sendersAlive, waiters, recvWaker,
                   txVars, hist, disturbed>>

DropReceiver ==
    /\ recv \in {"idle", "closed"}
    /\ recv' = "dropped"
    /\ receiverAlive' = FALSE
    /\ WakeSenders(Len(waiters))
    /\ UNCHANGED <<queue, reserved, sendersAlive, recvWaker, phase, want, held,
                   recvAwake, hist, disturbed>>

Next ==
    \/ \E s \in Senders :
           \/ Begin(s) \/ Repoll(s) \/ Cancel(s) \/ FillReserved(s)
           \/ \E n \in 1..MaxMany : ReleaseReserved(s, n)
           \/ CloneSender(s) \/ DropSender(s)
    \/ Recv \/ CancelRecv \/ DropReceiver

Spec == Init /\ [][Next]_vars

------------------------------------------------------------------------------
(* Properties *)

TypeOK ==
    /\ queue \in Seq(Senders) /\ reserved \in Nat /\ receiverAlive \in BOOLEAN
    /\ sendersAlive \in Nat /\ waiters \in Seq(Senders) /\ recvWaker \in BOOLEAN
    /\ phase \in [Senders -> {"none", "idle", "send", "reserve"}]
    /\ want \in [Senders -> Nat] /\ held \in [Senders -> Nat]
    /\ awake \in [Senders -> BOOLEAN]
    /\ recv \in {"idle", "waiting", "closed", "dropped"} /\ recvAwake \in BOOLEAN
    /\ sent \in Seq(Senders) /\ got \in Seq(Senders) /\ disturbed \in BOOLEAN

\* The permits out there: a sender's are numbered 1..held[s].
Permits == UNION {{s} \X (1..held[s]) : s \in Senders}

\* A bounded channel never holds more than its capacity, reserved slots
\* included, the slots reserved are the permits out there, and what has been
\* received and what is queued are exactly what was sent, in order.
Bounded ==
    /\ Unbounded \/ Len(queue) + reserved <= Capacity
    /\ reserved = Cardinality(Permits)
    /\ sendersAlive = Cardinality({s \in Senders : phase[s] # "none"})
    /\ sent = got \o queue

\* A receiver asleep in recv() finds nothing to receive, a sender lives, and its
\* waker is there to be taken; recv() ends in None only when all was received.
ReceiverAwake ==
    /\ recv = "waiting" /\ ~recvAwake => queue = <<>> /\ sendersAlive > 0 /\ recvWaker
    /\ recv = "closed" => queue = <<>> /\ sendersAlive = 0

\* send().await "suspends the sending task while the buffer is full" and not
\* longer: a sender asleep on an open channel with room has another sender,
\* awake, that is about to take the room; none sleeps on a closed channel.
SenderAwake ==
    \A s \in Senders : Waits(s) /\ ~awake[s] =>
        /\ receiverAlive
        /\ HasRoom(want[s]) => \E u \in Senders : Waits(u) /\ awake[u]

\* SenderAwake as long as no waiting sender is dropped or polled unwoken and
\* reserve_many is not used for several slots.
SenderAwakeUndisturbed == ~disturbed => SenderAwake
==============================================================================
