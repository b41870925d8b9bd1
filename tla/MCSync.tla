------------------------------- MODULE MCSync -------------------------------
(***************************************************************************)
(* What tasks coordinate with, under TLC: Mutex, RwLock, Semaphore,        *)
(* Notify, OnceCell, SetOnce, Barrier, the channels, LocalSet, JoinSet     *)
(* and the ambient thread-locals.  They share nothing in the code; a       *)
(* behaviour here is a behaviour of the one that `part` names, over as     *)
(* many of x1, x2, ... as it has variables; the others stay 0.  The        *)
(* components are taken from the modules of their proofs, which name their *)
(* invariants, so that SyncProofs proves what TLC checks.                  *)
(***************************************************************************)
EXTENDS TLC, Sequences, Naturals

CONSTANTS Tasks, MaxWaiters, MaxSupply, MaxNeeded, Notifiers, MaxNotify, Nothing,
          N, MaxRounds,
          Rx, Tx,           \* receivers of watch and broadcast, senders of mpsc
          First,            \* the one of either that exists from the start
          MaxVersion, Values, Capacity, MaxSent, MaxQueued, MaxSenders, MaxMany,
          MaxSendWaiters,
          LocalTasks, Threads, Members,
          Runtimes, Budget, MaxDepth

\* The semaphore's, the barrier's and the channels' constructors take unsigned
\* sizes, and a channel's capacity is positive; channel() makes the first handle.
ASSUME SizesAssumption ==
    /\ MaxSupply \in Nat /\ MaxNeeded \in Nat /\ MaxMany \in Nat
    /\ N \in Nat /\ MaxRounds \in Nat
    /\ Capacity \in Nat \ {0}
    /\ First \in Rx /\ First \in Tx

VARIABLES part, x1, x2, x3, x4, x5, x6, x7, x8, x9, x10, x11, x12, x13, x14, x15

Lock == INSTANCE LockProofs WITH Futures <- Tasks, waiters <- x1, awake <- x2,
    closed <- x2, phase <- x3, permits <- x3, disturbed <- x4, woken <- x4,
    want <- x4, locked <- x5, writerLocked <- x5, waker <- x5, outcome <- x5,
    readers <- x6, registered <- x6, held <- x6, pc <- x7, supply <- x7, firing <- x8,
    dropped <- x8, stored <- x9, calls <- x10, given <- x11
Rend == INSTANCE RendezvousProofs WITH Receivers <- Rx, phase <- x1, handles <- x1,
    awake <- x2, wakers <- x3, slot <- x3, waiters <- x3, dropped <- x3, toWake <- x4,
    sender <- x4, version <- x4, sendersAlive <- x4, task <- x4, state <- x5,
    arrived <- x5, sendOk <- x5, senderAlive <- x5, buffer <- x5, aborted <- x5,
    value <- x6, generation <- x6, receiversAlive <- x6, waiting <- x6, got <- x7,
    mine <- x7, seen <- x7, owner <- x7, leaders <- x8, registered <- x8,
    nextSeq <- x8, at <- x8, arrivals <- x9, nextToRead <- x9, joined <- x9,
    log <- x10, start <- x11, missed <- x12
Bnd == INSTANCE MpscProofs WITH Senders <- Tx, Unbounded <- FALSE, MaxSent <- MaxQueued,
    MaxWaiters <- MaxSendWaiters, queue <- x1, reserved <- x2, receiverAlive <- x3,
    sendersAlive <- x4, waiters <- x5, recvWaker <- x6, phase <- x7, want <- x8,
    held <- x9, awake <- x10, recv <- x11, recvAwake <- x12, sent <- x13,
    got <- x14, disturbed <- x15
Unb == INSTANCE MpscProofs WITH Senders <- Tx, Unbounded <- TRUE, MaxSent <- MaxQueued,
    MaxWaiters <- MaxSendWaiters, queue <- x1, reserved <- x2, receiverAlive <- x3,
    sendersAlive <- x4, waiters <- x5, recvWaker <- x6, phase <- x7, want <- x8,
    held <- x9, awake <- x10, recv <- x11, recvAwake <- x12, sent <- x13,
    got <- x14, disturbed <- x15
Ls == INSTANCE LocalSet WITH Tasks <- LocalTasks, NoOne <- Nothing, owner <- x1,
    alive <- x2, queue <- x3, state <- x4, aborted <- x5, future <- x6, hook <- x7,
    join <- x8, waker <- x9, drive <- x10, driver <- x11, current <- x12,
    ambient <- x13, dropper <- x14
Am == INSTANCE Ambient WITH TaskIds <- {First}, Values <- {First}, current <- x1,
    taskId <- x2, key <- x3, budget <- x4, stack <- x5, yielded <- x6

from15 == <<x15>>
from13 == <<x13, x14, from15>>
from12 == <<x12, from13>>
from10 == <<x10, x11, from12>>
from9 == <<x9, from10>>
from8 == <<x8, from9>>
from7 == <<x7, from8>>
from6 == <<x6, from7>>
vars == <<part, x1, x2, x3, x4, x5, from6>>
Idle15 == /\ x15 = 0
Idle13 == /\ x13 = 0 /\ x14 = 0 /\ Idle15
Idle12 == /\ x12 = 0 /\ Idle13
Idle10 == /\ x10 = 0 /\ x11 = 0 /\ Idle12
Idle9 == /\ x9 = 0 /\ Idle10
Idle8 == /\ x8 = 0 /\ Idle9
Idle7 == /\ x7 = 0 /\ Idle8
Idle6 == /\ x6 = 0 /\ Idle7

OnMutex == part = "mutex" /\ UNCHANGED <<part, from6>>
OnRw == part = "rwlock" /\ UNCHANGED <<part, from7>>
OnSem == part = "semaphore" /\ UNCHANGED <<part, from9>>
OnNt == part = "notify" /\ UNCHANGED <<part, from12>>
OnOnce == part = "once" /\ UNCHANGED <<part, from8>>
OnSetO == part = "setonce" /\ UNCHANGED <<part, from8>>
OnBar == part = "barrier" /\ UNCHANGED <<part, from10>>
OnOne == part = "oneshot" /\ UNCHANGED <<part, from6>>
OnWat == part = "watch" /\ UNCHANGED <<part, from9>>
OnCast == part = "broadcast" /\ UNCHANGED <<part, from13>>
OnBnd == part = "mpsc" /\ UNCHANGED part
OnUnb == part = "unbounded" /\ UNCHANGED part
OnLs == part = "local" /\ UNCHANGED <<part, from15>>
OnJs == part = "joinset" /\ UNCHANGED <<part, from10>>
OnAm == part = "ambient" /\ UNCHANGED <<part, from7>>

Init ==
    \/ part = "mutex" /\ Lock!Mutex!Init /\ Idle6
    \/ part = "rwlock" /\ Lock!Rw!Init /\ Idle7
    \/ part = "semaphore" /\ Lock!Init /\ Idle9
    \/ part = "notify" /\ Lock!Nt!Init /\ Idle12
    \/ part = "once" /\ Rend!Once!Init /\ Idle8
    \/ part = "setonce" /\ Rend!SetO!Init /\ Idle8
    \/ part = "barrier" /\ Rend!Bar!Init /\ Idle10
    \/ part = "oneshot" /\ Rend!One!Init /\ Idle6
    \/ part = "watch" /\ Rend!Wat!Init /\ Idle9
    \/ part = "broadcast" /\ Rend!Init /\ Idle13
    \/ part = "mpsc" /\ Bnd!Init
    \/ part = "unbounded" /\ Unb!Init
    \/ part = "local" /\ Ls!Init /\ Idle15
    \/ part = "joinset" /\ Rend!Js!Init /\ Idle10
    \/ part = "ambient" /\ Am!Init /\ Idle7

Next ==
    \/ OnMutex /\ Lock!Mutex!Next
    \/ OnRw /\ Lock!Rw!Next
    \/ OnSem /\ Lock!Next
    \/ OnNt /\ Lock!Nt!Next
    \/ OnOnce /\ Rend!Once!Next
    \/ OnSetO /\ Rend!SetO!Next
    \/ OnBar /\ Rend!Bar!Next
    \/ OnOne /\ Rend!One!Next
    \/ OnWat /\ Rend!Wat!Next
    \/ OnCast /\ Rend!Next
    \/ OnBnd /\ Bnd!Next
    \/ OnUnb /\ Unb!Next
    \/ OnLs /\ Ls!Next
    \/ OnJs /\ Rend!Js!Next
    \/ OnAm /\ Am!Next

Spec == Init /\ [][Next]_vars

\* The cfg gives Notifiers, Values and the later senders the same two values.
Symmetry == Permutations(Tasks) \cup Permutations(Values)

\* AsyncMutex: at most one guard exists, exactly while the flag is on.  RwLock:
\* readers and writers exclude each other, and the count is exact.
LocksExclusive ==
    /\ part = "mutex" => Lock!Mutex!TypeOK /\ Lock!Mutex!Exclusive
    /\ part = "rwlock" => Lock!Rw!TypeOK /\ Lock!Rw!Exclusive

\* AsyncMutex: a free mutex that is waited for has an awake waiter, as long as
\* no waiting lock() future is dropped or polled unwoken.
MutexHandOff == part = "mutex" => Lock!Mutex!HandOff

\* Semaphore: no permit is made up, and none lost unless a future is dropped;
\* the first waiter never fits, and who waits is queued.
SemaphoreConserved == part = "semaphore" => Lock!TypeOK /\ Lock!Conserved /\ Lock!HeadBlocked

\* Notify: a permit is never banked while a future is queued, and each notify_one
\* or notify_last is banked or was spent on one future, which learns of it unless
\* it is dropped.
NotifyBanked == part = "notify" => Lock!Nt!TypeOK /\ Lock!Nt!Banked

\* Notify: no interleaving of poll_notified, enable and fire leaves a notified
\* future asleep, and an unnotified sleeper can still be found.
NotifyWakes == part = "notify" => Lock!Nt!NotifiedWakes

\* OnceCell and SetOnce: one writer at a time, and one value for ever, whoever
\* initialises, gives up or sets.  Barrier: every round counts N arrivals and
\* has one leader.
RendezvousExact ==
    /\ part = "once" => Rend!Once!OneWriter
    /\ part = "setonce" => Rend!SetO!NeverOverwritten
    /\ part = "barrier" => Rend!Bar!RoundsExact

\* OnceCell, SetOnce and Barrier: nobody sleeps through an initialiser that
\* ended or gave up, a value that was set, or the end of a round.
RendezvousAwake ==
    /\ part = "once" => Rend!Once!NobodyForgotten
    /\ part = "setonce" => Rend!SetO!NobodyForgotten
    /\ part = "barrier" => Rend!Bar!NobodyForgotten

\* Oneshot: RecvError means that send was never called, and nobody sleeps on.
OneshotDelivers == part = "oneshot" => Rend!One!TypeOK /\ Rend!One!Delivers

\* Watch: no change and no closing is slept through, and none is missed.
WatchNoMissedChange == part = "watch" => Rend!Wat!TypeOK /\ Rend!Wat!NoMissedChange

\* Broadcast: each message is given or counted in a Lagged, exactly once.
BroadcastAccounts == part = "broadcast" => Rend!TypeOK /\ Rend!Accounts

\* Mpsc: capacity and reservations are respected and no message is lost.
MpscBounded ==
    /\ part = "mpsc" => Bnd!TypeOK /\ Bnd!Bounded
    /\ part = "unbounded" => Unb!TypeOK /\ Unb!Bounded

\* Broadcast receivers sleep through no message and no closing; the receiver of
\* an mpsc sleeps only on an empty, open channel, and its senders of single
\* slots only while there is no room, as long as no waiting sender is dropped or
\* polled unwoken.
ChannelsAwake ==
    /\ part = "broadcast" => Rend!NoSleep
    /\ part = "mpsc" => Bnd!ReceiverAwake /\ Bnd!SenderAwakeUndisturbed
    /\ part = "unbounded" => Unb!ReceiverAwake

\* LocalSet: a future is polled at home, and while the set lives dropped there
\* with its result unless the last waker abandons it; a task that is due is queued
\* once.  JoinSet: every task is returned once, and nobody sleeps on a
\* finished one.
LocalTasksServed ==
    /\ part = "local" => Ls!FutureStaysHome /\ Ls!LocalTasksQueued
    /\ part = "joinset" => Rend!Js!JoinSetComplete

\* The ambient runtime, task and task-local are those of the innermost call in
\* progress, through returns and panics.
AmbientRestored == part = "ambient" => Am!AmbientRestored
==============================================================================
