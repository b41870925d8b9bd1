---------------------------- MODULE UringReactor -----------------------------
(***************************************************************************)
(* The io_uring backend of the reactor (reactor/io_uring.rs).  A poll of a *)
(* descriptor is one-shot and belongs to the file that was open under its  *)
(* number when it was submitted; completions carry the number only.  The   *)
(* number of a closed descriptor is used again for the next one, so polls  *)
(* and completions of an earlier file meet the registration of a later     *)
(* one.  A file is a natural number; 0 is none.                            *)
(***************************************************************************)
EXTENDS Naturals, Sequences, FiniteSets

CONSTANTS
    MaxGen,     \* files opened under the number
    SqSize,     \* entries of the submission queue
    MaxPolls    \* bound: completions of one round

VARIABLES
    file,       \* the file open under the number
    registry,   \* the registration: the file it was made for
    pending,    \* PendingOps queued by register and deregister
    sq,         \* pushed entries the kernel has not seen: "add", "remove", "wake"
    armed,      \* files of the polls the kernel holds, in order of submission
    wakeArmed,  \* it holds a poll of the wake descriptor
    cq,         \* completions not yet seen: "ready", "error", "removed" or "wake"
    batch,      \* completions the loop is working through
    lpc,        \* where the loop is
    ready,      \* history: the registration was marked ready since it was made
    nudge,      \* the wake descriptor is signalled
    shutdown,
    opened,     \* files opened so far
    fresh,      \* the open file has not been registered yet
    lost        \* history: entries arm gave up, "add" of the registration or "wake"

kernel == <<armed, wakeArmed, cq>>
vars == <<file, registry, pending, sq, kernel, batch, lpc, ready, nudge, shutdown, opened,
          fresh, lost>>

Init ==
    /\ file = 0 /\ registry = 0 /\ opened = 0 /\ fresh = FALSE
    /\ pending = <<>> /\ sq = <<"wake">> /\ armed = <<>> /\ wakeArmed = FALSE /\ cq = <<>>
    /\ batch = <<>> /\ lpc = "loop" /\ ready = FALSE /\ nudge = FALSE /\ shutdown = FALSE
    /\ lost = {}

------------------------------------------------------------------------------
(* register, deregister, shutdown: any thread *)

Open ==
    /\ file = 0 /\ opened < MaxGen /\ opened' = opened + 1 /\ file' = opened + 1 /\ fresh' = TRUE
    /\ UNCHANGED <<registry, pending, sq, kernel, batch, lpc, ready, nudge, shutdown, lost>>

Register ==
    /\ fresh /\ fresh' = FALSE /\ registry' = file /\ ready' = FALSE
    /\ pending' = Append(pending, "Register") /\ nudge' = TRUE /\ lost' = lost \ {"add"}
    /\ UNCHANGED <<file, sq, kernel, batch, lpc, shutdown, opened>>

\* Drop of the socket: deregister, then the descriptor is closed.
Deregister ==
    /\ registry # 0 /\ registry' = 0
    /\ pending' = Append(pending, "Deregister") /\ nudge' = TRUE
    /\ UNCHANGED <<file, sq, kernel, batch, lpc, ready, shutdown, opened, fresh, lost>>

Close ==
    /\ file # 0 /\ registry = 0 /\ ~fresh /\ file' = 0
    /\ UNCHANGED <<registry, pending, sq, kernel, batch, lpc, ready, nudge, shutdown, opened,
                   fresh, lost>>

Shutdown ==
    /\ ~shutdown /\ shutdown' = TRUE /\ nudge' = TRUE
    /\ UNCHANGED <<file, registry, pending, sq, kernel, batch, lpc, ready, opened, fresh, lost>>

------------------------------------------------------------------------------
(* The kernel's side of the ring *)

RemoveAt(s, i) == SubSeq(s, 1, i - 1) \o SubSeq(s, i + 1, Len(s))

\* One entry of the submission queue: PollAdd looks up the number, PollRemove cancels
\* the oldest poll with that number, whose completion is an error.
Consume(k, entry) ==
    CASE entry = "wake" -> [k EXCEPT !.wakeArmed = TRUE]
      [] entry = "add" /\ file # 0 -> [k EXCEPT !.armed = Append(@, file)]
      [] entry = "add" /\ file = 0 -> [k EXCEPT !.cq = Append(@, "error")]
      [] entry = "remove" /\ k.armed # <<>> ->
           [k EXCEPT !.armed = Tail(@), !.cq = @ \o <<"error", "removed">>]
      [] entry = "remove" /\ k.armed = <<>> -> [k EXCEPT !.cq = Append(@, "removed")]

Entries(k, s) ==
    LET f[i \in 0..Len(s)] == IF i = 0 THEN k ELSE Consume(f[i - 1], s[i]) IN f[Len(s)]

Ring == [armed |-> armed, wakeArmed |-> wakeArmed, cq |-> cq]
RingBecomes(k) == armed' = k.armed /\ wakeArmed' = k.wakeArmed /\ cq' = k.cq

\* Something happens on the file of a held poll, or it is already ready.
Fire ==
    /\ Len(cq) < MaxPolls
    /\ \/ /\ \E i \in DOMAIN armed : armed' = RemoveAt(armed, i)
          /\ cq' = Append(cq, "ready") /\ UNCHANGED wakeArmed
       \/ /\ wakeArmed /\ nudge /\ wakeArmed' = FALSE
          /\ cq' = Append(cq, "wake") /\ UNCHANGED armed
    /\ UNCHANGED <<file, registry, pending, sq, batch, lpc, ready, nudge, shutdown, opened,
                   fresh, lost>>

------------------------------------------------------------------------------
(* The event loop *)

\* Mutant: an entry that finds the queue full is given up.
ArmUnflushed(st, entry, flushed) ==
    IF Len(st.sq) < SqSize THEN [st EXCEPT !.sq = Append(@, entry)] ELSE st

\* arm: push, or flush the queue and push; if the flush fails the entry is given up.
Arm(st, entry, flushed) ==
    CASE Len(st.sq) < SqSize ->
           [st EXCEPT !.sq = Append(@, entry), !.lost = @ \ {entry}]
      [] Len(st.sq) >= SqSize /\ flushed ->
           [ring |-> Entries(st.ring, st.sq), sq |-> <<entry>>, lost |-> st.lost \ {entry}]
      [] Len(st.sq) >= SqSize /\ ~flushed -> [st EXCEPT !.lost = @ \cup {entry}]

\* A PollRemove that finds the queue full is not submitted.
Disarm(st) == IF Len(st.sq) < SqSize THEN [st EXCEPT !.sq = Append(@, "remove")] ELSE st

Drained(st, flushed) ==
    LET f[i \in 0..Len(pending)] ==
          IF i = 0 THEN st
          ELSE IF pending[i] = "Register" THEN Arm(f[i - 1], "add", flushed[i])
          ELSE Disarm(f[i - 1])
    IN  f[Len(pending)]

Loop == [ring |-> Ring, sq |-> sq, lost |-> lost]
LoopBecomes(st) == RingBecomes(st.ring) /\ sq' = st.sq /\ lost' = st.lost

\* The thread returns, and the ring goes with it.
Exit ==
    /\ lpc' = "exit" /\ sq' = <<>> /\ RingBecomes([armed |-> <<>>, wakeArmed |-> FALSE, cq |-> <<>>])
    /\ UNCHANGED <<pending, lost>>

\* The top of the loop and drain_pending.
DrainPending ==
    /\ lpc = "loop"
    /\ \/ shutdown /\ Exit
       \/ /\ ~shutdown /\ lpc' = "enter" /\ pending' = <<>>
          /\ \E flushed \in [DOMAIN pending -> BOOLEAN] : LoopBecomes(Drained(Loop, flushed))
    /\ UNCHANGED <<file, registry, batch, ready, nudge, shutdown, opened, fresh>>

\* submit_and_wait(1): the kernel takes the queue at once ...
Submit ==
    /\ lpc = "enter" /\ lpc' = "wait" /\ sq' = <<>>
    /\ RingBecomes(Entries(Ring, sq))
    /\ UNCHANGED <<file, registry, pending, batch, ready, nudge, shutdown, opened, fresh, lost>>

\* ... or the call fails, which ends the thread.
SubmitFails ==
    /\ lpc = "enter" /\ Exit
    /\ UNCHANGED <<file, registry, batch, ready, nudge, shutdown, opened, fresh>>

\* The call returns when there is a completion, or when a signal interrupts it.
Collect ==
    /\ lpc = "wait" /\ cq # <<>>
    /\ batch' = cq /\ cq' = <<>> /\ lpc' = "batch"
    /\ UNCHANGED <<file, registry, pending, sq, armed, wakeArmed, ready, nudge, shutdown, opened,
                   fresh, lost>>

Interrupted ==
    /\ lpc = "wait" /\ cq = <<>> /\ lpc' = "loop"
    /\ UNCHANGED <<file, registry, pending, sq, kernel, batch, ready, nudge, shutdown, opened,
                   fresh, lost>>

\* One completion.  The wake descriptor is read and its poll armed again; else nothing
\* is registered under the number, or its registration is marked ready, whatever the
\* result says, and a poll is armed again.
Completion ==
    /\ lpc = "batch" /\ batch' = Tail(batch)
    /\ lpc' = IF Len(batch) = 1 THEN "loop" ELSE "batch"
    /\ \E flushed \in BOOLEAN :
         \/ /\ Head(batch) = "wake" /\ nudge' = FALSE
            /\ LoopBecomes(Arm(Loop, "wake", flushed)) /\ UNCHANGED ready
         \/ /\ Head(batch) \in {"ready", "error"} /\ registry # 0 /\ ready' = TRUE
            /\ LoopBecomes(Arm(Loop, "add", flushed)) /\ UNCHANGED nudge
         \/ /\ Head(batch) = "removed" \/ (Head(batch) # "wake" /\ registry = 0)
            /\ UNCHANGED <<ready, nudge, sq, kernel, lost>>
    /\ UNCHANGED <<file, registry, pending, shutdown, opened, fresh>>

Next ==
    \/ Open \/ Register \/ Deregister \/ Close \/ Shutdown \/ Fire
    \/ DrainPending \/ Submit \/ SubmitFails \/ Collect \/ Interrupted \/ Completion

------------------------------------------------------------------------------
(* Properties *)

Has(s, e) == \E i \in DOMAIN s : s[i] = e

\* A registered descriptor is watched, however polls and completions of earlier files
\* under its number interfere ("this is what makes that resubmission automatic"): a
\* poll of its file is held, or one is queued, or a completion that will arm one is.
\* This ends with the thread, which a failing call ends too, and with a poll that arm
\* gave up because its flush of the full queue failed.
RegisteredWatched ==
    registry # 0 /\ lpc # "exit" /\ "add" \notin lost =>
        \/ Has(armed, registry) \/ Has(sq, "add") \/ Has(pending, "Register")
        \/ \E e \in {"ready", "error"} : Has(cq, e) \/ Has(batch, e)

\* The loop never sleeps on a shutdown or on queued work: a completion is there, or
\* the wake descriptor is signalled and polled, unless arm gave that poll up.
LoopHears ==
    lpc = "wait" /\ (shutdown \/ pending # <<>>) =>
        cq # <<>> \/ (nudge /\ wakeArmed) \/ "wake" \in lost
==============================================================================
