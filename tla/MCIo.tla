-------------------------------- MODULE MCIo --------------------------------
(***************************************************************************)
(* The I/O parts under TLC: the reactors (epoll and kqueue, io_uring,      *)
(* Windows AFD), the in-memory pipes, the copying and buffering adaptors,  *)
(* the sockets, the io_uring file driver and its simulated disk, the       *)
(* blocking-pool files, child processes and signals.  A behaviour here is  *)
(* a behaviour of the one that `part` names, whose variables are x1, x2,   *)
(* ... in the order of their declaration, and the others stay 0.           *)
(***************************************************************************)
EXTENDS TLC, Naturals

CONSTANTS None,             \* nothing, nobody, no file, ...
          Two, Three,       \* readers, sockets, paths, streams, listeners;
                            \* descriptors, AFD sockets, file operations
          A, B, Task        \* handles of a pipe, kinds of signal; a task

VARIABLES part, x1, x2, x3, x4, x5, x6, x7, x8, x9, x10, x11, x12, x13, x14, x15,
          x16, x17, x18

Rea == INSTANCE Reactor WITH Readers <- Two, MaxData <- 1, MaxGen <- 2,
    NoOne <- None, backend <- x1, gen <- x2, data <- x3, edge <- x4, kernel <- x5,
    registry <- x6, flag <- x7, slot <- x8, rpc <- x9, awake <- x10, lpc <- x11,
    held <- x12, displaced <- x13, marked <- x14, overrun <- x15
Uri == INSTANCE UringReactor WITH MaxGen <- 3, SqSize <- 1, MaxPolls <- 3,
    file <- x1, registry <- x2, pending <- x3, sq <- x4, armed <- x5,
    wakeArmed <- x6, cq <- x7, batch <- x8, lpc <- x9, ready <- x10, nudge <- x11,
    shutdown <- x12, opened <- x13, fresh <- x14, lost <- x15
Afd == INSTANCE AfdReactor WITH Sockets <- Three, NoSock <- None, stage <- x1,
    registry <- x2, pending <- x3, deleting <- x4, kernel <- x5, port <- x6,
    refs <- x7, lpc <- x8, held <- x9, quiet <- x10, cancel <- x11, shutdown <- x12
Pip == INSTANCE Pipes WITH capacity <- 1, MaxBytes <- 2, NoWaker <- None,
    flavor <- x1, pipe <- x2, alive <- x3, waiting <- x4, awake <- x5, sent <- x6,
    displaced <- x7
Rel == INSTANCE Relay WITH capacity <- 2, MaxBytes <- 3, BufSize <- 2,
    NoWaker <- None, pipe <- x1, far <- x2, sent <- x3, got <- x4, eof <- x5,
    copy <- x6, turn <- x7, awake <- x8, result <- x9
Buf == INSTANCE Buffered WITH First <- 2, Total <- 5, Limit <- 4, Newlines <- {2},
    ReadCap <- 2, WriteCap <- 2, ChunkSize <- 2, MaxCalls <- 3, taken <- x1,
    first_done <- x2, limit <- x3, rbuf <- x4, wbuf <- x5, written <- x6,
    sink <- x7, call <- x8, pc <- x9, chunk <- x10, pos <- x11, amt <- x12,
    start <- x13, lines <- x14, lost <- x15, repeated <- x16, result <- x17,
    calls <- x18
Soc == INSTANCE Sockets WITH Fds <- Three, Socks <- Two, MaxAddrs <- 2,
    NoSock <- None, table <- x1, nonblocking <- x2, conn <- x3, watched <- x4,
    registry <- x5, held <- x6, addr <- x7, outcome <- x8, leftover <- x9,
    adopted <- x10
Ufs == INSTANCE UringFs WITH Ops <- Three, Fds <- {A}, SqSize <- 1, NoFile <- None,
    NoOp <- None, op <- x1, table <- x2, file <- x3, pending <- x4, batch <- x5,
    sq <- x6, cq <- x7, nudge <- x8, lpc <- x9, held <- x10, cur <- x11
Dsk == INSTANCE SimDisk WITH Paths <- Two, MaxHandles <- 2, MaxLen <- 2,
    MaxWrites <- 2, Capacity <- 3, NoCap <- None, paths <- x1, files <- x2,
    next_handle <- x3, closed <- x4, capacity <- x5, bytes_used <- x6,
    fsync_lies <- x7, torn <- x8, writes <- x9, synced <- x10, poisoned <- x11
Fil == INSTANCE BlockingFile WITH MaxCalls <- 3, MaxEntryCalls <- 4, MaxLen <- 2,
    Entries <- 3, ChunkSize <- 2, NoJob <- None, what <- x1, state <- x2, job <- x3,
    at <- x4, lock <- x5, call <- x6, calls <- x7, ran <- x8, answered <- x9,
    overflowed <- x10, dropped <- x11, buf <- x12, reader <- x13, given <- x14,
    errors <- x15
Chi == INSTANCE ChildProcess WITH Streams <- Two, MaxOut <- 2, PipeCap <- 1,
    piped <- x1, stdin <- x2, proc <- x3, exit <- x4, wrote <- x5, pipe <- x6,
    inner <- x7, status <- x8, kill_on_drop <- x9, child <- x10, call <- x11,
    job <- x12, got <- x13, reported <- x14, output <- x15, lost <- x16,
    panicked <- x17
Sig == INSTANCE Signals WITH Listeners <- Two, Kinds <- {A, B}, PipeCap <- 2,
    MaxSignals <- 3, Nobody <- None, os <- x1, installed <- x2, reader <- x3,
    pipe <- x4, batch <- x5, slots <- x6, todo <- x7, cur <- x8, kind <- x9,
    pending <- x10, waker <- x11, awake <- x12, pc <- x13, signals <- x14,
    owed <- x15

from18 == <<x18>>
from16 == <<x16, x17, from18>>
from14 == <<x14, x15, from16>>
from12 == <<x12, x13, from14>>
from10 == <<x10, x11, from12>>
from8 == <<x8, x9, from10>>
vars == <<part, x1, x2, x3, x4, x5, x6, x7, from8>>
Idle18 == /\ x18 = 0
Idle16 == /\ x16 = 0 /\ x17 = 0 /\ Idle18
Idle14 == /\ x14 = 0 /\ x15 = 0 /\ Idle16
Idle12 == /\ x12 = 0 /\ x13 = 0 /\ Idle14
Idle10 == /\ x10 = 0 /\ x11 = 0 /\ Idle12
Idle8 == /\ x8 = 0 /\ x9 = 0 /\ Idle10

OnRea == part = "reactor" /\ UNCHANGED <<part, from16>>
OnUri == part = "uring" /\ UNCHANGED <<part, from16>>
OnAfd == part = "afd" /\ UNCHANGED <<part, x13, from14>>
OnPip == part = "pipes" /\ UNCHANGED <<part, from8>>
OnRel == part = "relay" /\ UNCHANGED <<part, from10>>
OnBuf == part = "buffered" /\ UNCHANGED part
OnSoc == part = "sockets" /\ UNCHANGED <<part, x11, from12>>
OnUfs == part = "uring_fs" /\ UNCHANGED <<part, from12>>
OnDsk == part = "disk" /\ UNCHANGED <<part, from12>>
OnFil == part = "file" /\ UNCHANGED <<part, from16>>
OnChi == part = "child" /\ UNCHANGED <<part, from18>>
OnSig == part = "signals" /\ UNCHANGED <<part, from16>>

Init ==
    \/ part = "reactor" /\ Rea!Init /\ Idle16
    \/ part = "uring" /\ Uri!Init /\ Idle16
    \/ part = "afd" /\ Afd!Init /\ x13 = 0 /\ Idle14
    \/ part = "pipes" /\ Pip!Init /\ Idle8
    \/ part = "relay" /\ Rel!Init /\ Idle10
    \/ part = "buffered" /\ Buf!Init
    \/ part = "sockets" /\ Soc!Init /\ x11 = 0 /\ Idle12
    \/ part = "uring_fs" /\ Ufs!Init /\ Idle12
    \/ part = "disk" /\ Dsk!Init /\ Idle12
    \/ part = "file" /\ Fil!Init /\ Idle16
    \/ part = "child" /\ Chi!Init /\ Idle18
    \/ part = "signals" /\ Sig!Init /\ Idle16

Next ==
    \/ OnRea /\ Rea!Next
    \/ OnUri /\ Uri!Next
    \/ OnAfd /\ Afd!Next
    \/ OnPip /\ Pip!Next
    \/ OnRel /\ Rel!Next
    \/ OnBuf /\ Buf!Next
    \/ OnSoc /\ Soc!Next
    \/ OnUfs /\ Ufs!Next
    \/ OnDsk /\ Dsk!Next
    \/ OnFil /\ Fil!Next
    \/ OnChi /\ Chi!Next
    \/ OnSig /\ Sig!Next

Spec == Init /\ [][Next]_vars

Symmetry == Permutations(Two) \cup Permutations(Three)

\* The reactors' readiness and a socket's life: a parked reader is not left
\* behind by an event, and an event for a number reaches the socket's owner.
ReadinessDelivered ==
    /\ part = "reactor" => Rea!ReadersServed
    /\ part = "sockets" => Soc!TypeOK /\ Soc!EventsReachOwner

\* io_uring and AFD, whose polls are one-shot: what is registered has a poll
\* outstanding or on its way, and the kernel's references are counted.
PollsOutstanding ==
    /\ part = "uring" => Uri!RegisteredWatched /\ Uri!LoopHears
    /\ part = "afd" => Afd!KernelReferences /\ Afd!LiveWatched

\* Duplex and simplex pipes, copy_bidirectional, BufReader, BufWriter, Take,
\* Chain, copy and Lines: no byte is lost, repeated or reordered, and neither
\* side of a pipe sleeps on what the other has done.
BytesFaithful ==
    /\ part = "pipes" => Pip!TypeOK /\ Pip!PipeTasksAwake
    /\ part = "relay" => Rel!TypeOK /\ Rel!RelayFaithful
    /\ part = "buffered" => Buf!TypeOK /\ Buf!StreamsFaithful

\* The io_uring file driver keeps an operation's buffer for the kernel and wakes
\* its future; the simulated disk's books balance.
FileOpsSound ==
    /\ part = "uring_fs" => Ufs!TypeOK /\ Ufs!BuffersKept /\ Ufs!OpsServed
    /\ part = "disk" => Dsk!TypeOK /\ Dsk!DiskBooksBalance

\* Calls on files, streams and directories get their own answers, a child's status is its real
\* one, and a signal reaches every listener that was there.
ServicesAnswer ==
    /\ part = "file" => Fil!TypeOK /\ Fil!FileCallsAnswered
    /\ part = "child" => Chi!TypeOK /\ Chi!ChildAccountedFor
    /\ part = "signals" => Sig!TypeOK /\ Sig!SignalsReachListeners
=============================================================================
