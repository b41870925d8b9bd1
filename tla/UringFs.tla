------------------------------ MODULE UringFs -------------------------------
(***************************************************************************)
(* io/uring_fs.rs, the io_uring file driver.  UringFile operations submit  *)
(* entries to a queue that one driver thread drains into the ring; each    *)
(* operation's OpState, with the buffer the kernel works on, is shared by  *)
(* the driver's slab and the OpFuture.  Futures are polled, and dropped at *)
(* any Pending; files are closed, or dropped, which closes their           *)
(* descriptor at once; other code of the process opens descriptors and may *)
(* be given the same number.  The kernel resolves a number when the entry  *)
(* is submitted, and may finish the operation any time later.              *)
(***************************************************************************)
EXTENDS Naturals, Sequences

CONSTANTS Ops, Fds, SqSize,
          NoFile,   \* nothing open under a number
          NoOp

(* A file is named by the operation that opened it; Foreign is other code's. *)
Foreign == "foreign"

VARIABLES
    op,         \* operation -> its entry, OpState and future
    table,      \* the process's descriptors
    file,       \* UringFile by number: "none", "live", "closing" (close() runs)
    pending,    \* IoUringDriver::pending
    batch,      \* entries taken by drain_pending and not yet pushed
    sq,         \* the ring's submission queue
    cq,         \* completions the kernel has posted
    nudge,      \* wake_fd is readable
    lpc,        \* driver thread: "drain", "wait", "handle", "wake", "dead"
    held, cur   \* completions collected, and the one being handled

vars == <<op, table, file, pending, batch, sq, cq, nudge, lpc, held, cur>>

Blank == [kind |-> "unused", fd |-> NoFile, meant |-> NoFile, hit |-> NoFile, stage |-> "none",
          slab |-> FALSE, buf |-> "none", result |-> NoFile, waker |-> FALSE, fut |-> "none"]

Init ==
    /\ op = [o \in Ops |-> Blank]
    /\ table = [f \in Fds |-> NoFile] /\ file = [f \in Fds |-> "none"]
    /\ pending = <<>> /\ batch = <<>> /\ sq = <<>> /\ cq = {}
    /\ nudge = FALSE /\ lpc = "drain" /\ held = {} /\ cur = NoOp

TypeOK ==
    /\ \A o \in Ops :
         /\ op[o].kind \in {"unused", "open", "io", "close"}
         /\ op[o].stage \in {"none", "queued", "kernel", "cq", "done", "lost"}
         /\ op[o].buf \in {"none", "state", "caller", "freed"}
         /\ op[o].fut \in {"none", "idle", "install", "recheck", "parked", "dropped", "finished"}
    /\ table \in [Fds -> Ops \cup {Foreign, NoFile}] /\ file \in [Fds -> {"none", "live", "closing"}]
    /\ pending \in Seq(Ops) /\ batch \in Seq(Ops) /\ sq \in Seq(Ops) /\ Len(sq) <= SqSize
    /\ cq \subseteq Ops /\ nudge \in BOOLEAN
    /\ lpc \in {"drain", "wait", "handle", "wake", "dead"} /\ held \subseteq Ops /\ cur \in Ops \cup {NoOp}

Alive(o) == op[o].fut \in {"idle", "install", "recheck", "parked"}
Busy(f) == \E o \in Ops : op[o].fd = f /\ Alive(o)

-----------------------------------------------------------------------------
(* Submitting.                                                               *)
\* A new OpState with its entry and future; `meant` is the file its caller has.
Entry(k, f) ==
    [kind |-> k, fd |-> f, meant |-> IF f \in Fds THEN table[f] ELSE NoFile, hit |-> NoFile,
     stage |-> "queued", slab |-> TRUE, buf |-> "state", result |-> NoFile, waker |-> FALSE,
     fut |-> "idle"]

\* submit: into the slab, into pending, wake the driver.
Submits(o, k, f) ==
    /\ op[o].kind = "unused"
    /\ op' = [op EXCEPT ![o] = Entry(k, f)]
    /\ pending' = Append(pending, o)
    /\ nudge' = TRUE

Open(o) ==
    /\ Submits(o, "open", NoFile)
    /\ UNCHANGED <<table, file, batch, sq, cq, lpc, held, cur>>

\* read_at, write_at, fsync, fallocate borrow the file.
Io(o, f) ==
    /\ file[f] = "live"
    /\ Submits(o, "io", f)
    /\ UNCHANGED <<table, file, batch, sq, cq, lpc, held, cur>>

\* close takes the file: no call borrows it.  `closed` keeps its Drop quiet.
Close(o, f) ==
    /\ file[f] = "live" /\ ~Busy(f)
    /\ file' = [file EXCEPT ![f] = "closing"]
    /\ Submits(o, "close", f)
    /\ UNCHANGED <<table, batch, sq, cq, lpc, held, cur>>

\* Drop for UringFile: close_sync.
DropFile(f) ==
    /\ file[f] = "live" /\ ~Busy(f)
    /\ file' = [file EXCEPT ![f] = "none"]
    /\ table' = [table EXCEPT ![f] = NoFile]
    /\ UNCHANGED <<op, pending, batch, sq, cq, nudge, lpc, held, cur>>

\* Other code of the process opens and closes descriptors.
OtherOpen(f) ==
    /\ table[f] = NoFile
    /\ table' = [table EXCEPT ![f] = Foreign]
    /\ UNCHANGED <<op, file, pending, batch, sq, cq, nudge, lpc, held, cur>>

OtherClose(f) ==
    /\ table[f] = Foreign
    /\ table' = [table EXCEPT ![f] = NoFile]
    /\ UNCHANGED <<op, file, pending, batch, sq, cq, nudge, lpc, held, cur>>

-----------------------------------------------------------------------------
(* OpFuture.                                                                 *)
\* take_result: the buffer comes out of the OpState; an open's caller wraps
\* the number in a UringFile, a close's future ends the file.
Take(o) ==
    /\ op' = [op EXCEPT ![o].fut = "finished", ![o].buf = "caller", ![o].waker = FALSE]
    /\ file' = IF op[o].kind = "open" /\ op[o].result \in Fds
                 THEN [file EXCEPT ![op[o].result] = "live"]
                 ELSE file

\* poll: check, install the waker, check again.
PollCheck(o) ==
    /\ op[o].fut = "idle"
    /\ IF op[o].stage = "done"
         THEN Take(o)
         ELSE op' = [op EXCEPT ![o].fut = "install"] /\ UNCHANGED file
    /\ UNCHANGED <<table, pending, batch, sq, cq, nudge, lpc, held, cur>>

PollInstall(o) ==
    /\ op[o].fut = "install"
    /\ op' = [op EXCEPT ![o].fut = "recheck", ![o].waker = TRUE]
    /\ UNCHANGED <<table, file, pending, batch, sq, cq, nudge, lpc, held, cur>>

PollRecheck(o) ==
    /\ op[o].fut = "recheck"
    /\ IF op[o].stage = "done"
         THEN Take(o)
         ELSE op' = [op EXCEPT ![o].fut = "parked"] /\ UNCHANGED file
    /\ UNCHANGED <<table, pending, batch, sq, cq, nudge, lpc, held, cur>>

\* The future is dropped between polls.  The slab still holds the OpState; once
\* the completion has been handled the future held the last reference.
Dropped(o, b) ==
    /\ op[o].fut \in {"idle", "parked"}
    /\ op' = [op EXCEPT ![o].fut = "dropped", ![o].buf = b]
    \* the UringFile inside a close future goes with it, its Drop does nothing
    /\ UNCHANGED <<table, file, pending, batch, sq, cq, nudge, lpc, held, cur>>

\* Mutant: the buffer goes with the future, although the kernel still has it.
DropFutureAndBuffer(o) == Dropped(o, "freed")

\* Dropped in flight, the buffer stays in the driver's slab until the completion.
DropFuture(o) == Dropped(o, IF op[o].slab THEN "state" ELSE "freed")

-----------------------------------------------------------------------------
(* The driver thread.                                                        *)
\* drain_pending takes the queue; the flag is the only other thing looked at.
Drain ==
    /\ lpc = "drain" /\ batch = <<>>
    /\ batch' = pending /\ pending' = <<>>
    /\ lpc' = "wait"
    /\ UNCHANGED <<op, table, file, sq, cq, nudge, held, cur>>

\* The kernel takes the submission queue: numbers are resolved now.
Submitted(q) ==
    [o \in Ops |-> IF \E i \in DOMAIN q : q[i] = o
                     THEN [op[o] EXCEPT !.stage = "kernel",
                                        !.hit = IF op[o].fd \in Fds THEN table[op[o].fd] ELSE NoFile]
                     ELSE op[o]]

\* Push one entry; a full queue is submitted once, and when that fails the
\* entry is dropped.
Push ==
    /\ lpc = "wait" /\ batch # <<>>
    /\ batch' = Tail(batch)
    /\ \/ /\ Len(sq) < SqSize
          /\ sq' = Append(sq, Head(batch))
          /\ UNCHANGED op
       \/ /\ Len(sq) = SqSize
          /\ op' = Submitted(sq)
          /\ sq' = <<Head(batch)>>
       \/ /\ Len(sq) = SqSize
          /\ op' = [op EXCEPT ![Head(batch)].stage = "lost"]
          /\ UNCHANGED sq
    /\ UNCHANGED <<table, file, pending, cq, nudge, lpc, held, cur>>

\* submit_and_wait, first half: everything queued goes to the kernel.
Submit ==
    /\ lpc = "wait" /\ batch = <<>> /\ sq # <<>>
    /\ op' = Submitted(sq)
    /\ sq' = <<>>
    /\ UNCHANGED <<table, file, pending, batch, cq, nudge, lpc, held, cur>>

\* Second half: it returns with the completions there are, the wake-up's among
\* them; the eventfd is drained and polled again.
Waited ==
    /\ lpc = "wait" /\ batch = <<>> /\ sq = <<>> /\ (cq # {} \/ nudge)
    /\ held' = cq
    /\ cq' = {} /\ nudge' = FALSE
    /\ lpc' = IF cq = {} THEN "drain" ELSE "handle"
    /\ UNCHANGED <<op, table, file, pending, batch, sq, cur>>

\* submit_and_wait fails with something other than EINTR: the loop returns.
LoopFails ==
    /\ lpc = "wait" /\ batch = <<>>
    /\ lpc' = "dead"
    /\ UNCHANGED <<op, table, file, pending, batch, sq, cq, nudge, held, cur>>

\* The operation finishes in the kernel.  An open takes a free number or fails.
Finish(o) ==
    /\ op[o].stage = "kernel"
    /\ cq' = cq \cup {o}
    /\ \/ /\ op[o].kind = "open"
          /\ \E f \in Fds : /\ table[f] = NoFile
                            /\ table' = [table EXCEPT ![f] = o]
                            /\ op' = [op EXCEPT ![o].stage = "cq", ![o].result = f]
          /\ UNCHANGED file
       \/ /\ op[o].kind \in {"open", "io"}
          /\ op' = [op EXCEPT ![o].stage = "cq"]
          /\ UNCHANGED <<table, file>>
       \/ /\ op[o].kind = "close"
          /\ op' = [op EXCEPT ![o].stage = "cq"]
          /\ table' = [table EXCEPT ![op[o].fd] = NoFile]
          /\ file' = [file EXCEPT ![op[o].fd] = "none"]
    /\ UNCHANGED <<pending, batch, sq, nudge, lpc, held, cur>>

\* A completion: out of the slab, the result recorded ...
Complete ==
    /\ lpc = "handle"
    /\ \E o \in held :
         /\ op' = [op EXCEPT ![o].slab = FALSE, ![o].stage = "done",
                             ![o].buf = IF op[o].fut = "dropped" THEN "freed" ELSE op[o].buf]
         /\ held' = held \ {o} /\ cur' = o
    /\ lpc' = "wake"
    /\ UNCHANGED <<table, file, pending, batch, sq, cq, nudge>>

\* ... then the waker is taken and fired.
Wake ==
    /\ lpc = "wake"
    /\ op' = [op EXCEPT ![cur].waker = FALSE,
                        ![cur].fut = IF op[cur].waker /\ @ = "parked" THEN "idle" ELSE @]
    /\ cur' = NoOp
    /\ lpc' = IF held = {} THEN "drain" ELSE "handle"
    /\ UNCHANGED <<table, file, pending, batch, sq, cq, nudge, held>>

Next ==
    \/ \E o \in Ops : Open(o) \/ PollCheck(o) \/ PollInstall(o) \/ PollRecheck(o) \/ DropFuture(o) \/ Finish(o)
    \/ \E o \in Ops, f \in Fds : Io(o, f) \/ Close(o, f)
    \/ \E f \in Fds : DropFile(f) \/ OtherOpen(f) \/ OtherClose(f)
    \/ Drain \/ Push \/ Submit \/ Waited \/ LoopFails \/ Complete \/ Wake

Spec == Init /\ [][Next]_vars

-----------------------------------------------------------------------------
\* The cancellation-safety rule of io/uring_fs.rs: from submit until the kernel
\* has posted the completion the buffer stays in the OpState, whatever happens
\* to the future; afterwards it is the caller's or freed.  And an operation
\* whose future is still awaited works on the file it was called on, though
\* numbers are closed and reused around it; one whose future was dropped while
\* it was queued may meet another file under the number.
BuffersKept ==
    \A o \in Ops :
      /\ op[o].stage \in {"queued", "kernel", "cq"} => op[o].slab /\ op[o].buf = "state"
      /\ op[o].stage = "kernel" /\ op[o].fut # "dropped" => op[o].hit = op[o].meant
      /\ op[o].kind = "close" /\ op[o].stage = "kernel" => op[o].hit = op[o].meant

\* No operation is forgotten: a parked future's operation is on its way through
\* the driver, which will look again, or the driver is about to wake the future,
\* unless the entry was dropped at a full queue or the loop has returned.  Every
\* descriptor an open made has one UringFile, unless the open's future was
\* dropped.
OpsServed ==
    /\ \A o \in Ops : op[o].fut = "parked" =>
         \/ lpc = "dead" \/ op[o].stage \in {"kernel", "cq", "lost"}
         \/ /\ op[o].stage = "queued"
            /\ (\E i \in DOMAIN pending : pending[i] = o) => (nudge \/ lpc # "wait")
         \/ op[o].stage = "done" /\ cur = o
    /\ \A f \in Fds : table[f] \in Ops =>
         LET o == table[f] IN
         IF op[o].fut = "finished" THEN file[f] # "none" ELSE file[f] = "none"
=============================================================================
