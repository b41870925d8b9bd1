------------------------------ MODULE Signals -------------------------------
(***************************************************************************)
(* signal.rs: the handler that runs in signal context (Unix) or on a       *)
(* console thread (Windows), the self-pipe, the reader task, its dispatch  *)
(* and the listeners.  The pipe, the reader and the handlers are the       *)
(* process's, set up by the first listener on whatever runtime is current; *)
(* when that runtime stops, the reader is never polled again.              *)
(***************************************************************************)
EXTENDS Naturals, Sequences, SequencesExt

CONSTANTS Listeners, Kinds, Nobody,
          PipeCap,      \* bytes the self-pipe holds
          MaxSignals    \* signals in a behaviour

VARIABLES
    os,         \* "unix" or "windows"
    installed,  \* kinds whose handler is installed
    reader,     \* "none", "running", "stopped", "failed" (it was never set up)
    pipe,       \* bytes in the self-pipe
    batch,      \* bytes reader_loop has read, the one being dispatched first
    slots,      \* the listeners of each kind, dropped ones included
    todo,       \* listeners the dispatch under way has yet to visit
    cur,        \* ... and the one whose flag it has set and whose waker it takes
    kind,       \* the kind a live Signal listens for, Nobody when there is none
    pending, waker, awake,  \* ListenerState, and whether the task was woken
    pc,         \* poll_listener: "idle", "check", "register", "recheck", "parked"
    signals,    \* signals so far
    owed        \* listeners a signal has come for since their last recv

vars == <<os, installed, reader, pipe, batch, slots, todo, cur, kind, pending,
          waker, awake, pc, signals, owed>>
taskVars == <<pending, waker, awake, pc>>

Init ==
    /\ os \in {"unix", "windows"} /\ installed = {} /\ reader = "none"
    /\ pipe = <<>> /\ batch = <<>> /\ slots = [k \in Kinds |-> {}]
    /\ todo = {} /\ cur = Nobody /\ kind = [l \in Listeners |-> Nobody]
    /\ pending = [l \in Listeners |-> FALSE] /\ waker = [l \in Listeners |-> FALSE]
    /\ awake = [l \in Listeners |-> FALSE] /\ pc = [l \in Listeners |-> "idle"]
    /\ signals = 0 /\ owed = {}

TypeOK ==
    /\ os \in {"unix", "windows"} /\ installed \subseteq Kinds
    /\ reader \in {"none", "running", "stopped", "failed"}
    /\ Len(pipe) <= PipeCap /\ Range(pipe) \subseteq Kinds /\ Range(batch) \subseteq Kinds
    /\ slots \in [Kinds -> SUBSET Listeners] /\ todo \subseteq Listeners
    /\ cur \in Listeners \cup {Nobody} /\ kind \in [Listeners -> Kinds \cup {Nobody}]
    /\ pending \in [Listeners -> BOOLEAN] /\ waker \in [Listeners -> BOOLEAN]
    /\ awake \in [Listeners -> BOOLEAN]
    /\ pc \in [Listeners -> {"idle", "check", "register", "recheck", "parked"}]
    /\ signals \in 0..MaxSignals /\ owed \subseteq Listeners

Live(l) == kind[l] # Nobody

\* No dispatch holds the lock of this kind's slot.
Unlocked(k) == todo # {} => Head(batch) # k

\* A byte that will set this listener's flag is still on its way.
Coming(l) ==
    \/ kind[l] \in Range(pipe)
    \/ batch # <<>> /\ kind[l] \in Range(Tail(batch))
    \/ l \in todo /\ l # cur

-----------------------------------------------------------------------------
(* Listening.                                                                *)
\* `global`: the pipe and the reader task, once for the whole process.
Global == reader' = IF reader = "none" THEN "running" ELSE reader

\* signal(kind) and listen_for: `global` on the first call of all, the handler
\* on the first of this kind (on Windows one handler serves every kind), then
\* the listener joins the slot.  A dropped listener's place is not reused until
\* dispatch has pruned it.
Listen(l, k) ==
    /\ ~Live(l) /\ Unlocked(k) /\ \A j \in Kinds : l \notin slots[j]
    /\ reader # "failed" /\ Global
    /\ installed' = IF os = "unix" THEN installed \cup {k} ELSE Kinds
    /\ slots' = [slots EXCEPT ![k] = @ \cup {l}]
    /\ kind' = [kind EXCEPT ![l] = k]
    /\ pending' = [pending EXCEPT ![l] = FALSE] /\ waker' = [waker EXCEPT ![l] = FALSE]
    /\ UNCHANGED <<os, pipe, batch, todo, cur, awake, pc, signals, owed>>

\* The pipe or its registration fails: the cell keeps the error, and every later
\* call of the process returns it.
GlobalFails ==
    /\ reader = "none" /\ reader' = "failed"
    /\ UNCHANGED <<os, installed, pipe, batch, slots, todo, cur, kind, taskVars,
                   signals, owed>>

\* `global` succeeds, install_handler fails: no listener was added.
ListenFails ==
    /\ os = "unix" /\ reader = "none" /\ Global
    /\ UNCHANGED <<os, installed, pipe, batch, slots, todo, cur, kind, taskVars,
                   signals, owed>>

\* The Signal drops; its Weak stays in the slot.
DropSignal(l) ==
    /\ Live(l)
    /\ kind' = [kind EXCEPT ![l] = Nobody] /\ pc' = [pc EXCEPT ![l] = "idle"]
    /\ awake' = [awake EXCEPT ![l] = FALSE] /\ owed' = owed \ {l}
    /\ UNCHANGED <<os, installed, reader, pipe, batch, slots, todo, cur, pending,
                   waker, signals>>

\* poll_listener, a step per shared access: swap the flag, store the waker,
\* swap the flag again.
Ready(l) ==
    /\ pending' = [pending EXCEPT ![l] = FALSE]
    /\ pc' = [pc EXCEPT ![l] = "idle"]
    /\ owed' = IF Coming(l) THEN owed ELSE owed \ {l}

Poll(l) ==
    /\ Live(l) /\ (pc[l] = "idle" \/ (pc[l] = "parked" /\ awake[l]))
    /\ awake' = [awake EXCEPT ![l] = FALSE]
    /\ IF pending[l] THEN Ready(l)
       ELSE pc' = [pc EXCEPT ![l] = "register"] /\ UNCHANGED <<pending, owed>>
    /\ UNCHANGED <<os, installed, reader, pipe, batch, slots, todo, cur, kind, waker,
                   signals>>

Register(l) ==
    /\ pc[l] = "register"
    /\ waker' = [waker EXCEPT ![l] = TRUE] /\ pc' = [pc EXCEPT ![l] = "recheck"]
    /\ UNCHANGED <<os, installed, reader, pipe, batch, slots, todo, cur, kind, pending,
                   awake, signals, owed>>

Recheck(l) ==
    /\ pc[l] = "recheck"
    /\ IF pending[l] THEN Ready(l)
       ELSE pc' = [pc EXCEPT ![l] = "parked"] /\ UNCHANGED <<pending, owed>>
    /\ UNCHANGED <<os, installed, reader, pipe, batch, slots, todo, cur, kind, waker,
                   awake, signals>>

-----------------------------------------------------------------------------
(* Delivery.                                                                 *)
\* console_ctrl_handler: an empty slot lets the default action run, a full pipe
\* blocks the console's thread.
ConsoleTakes(k) == Unlocked(k) /\ slots[k] # {} /\ Len(pipe) < PipeCap

\* handle_signal and console_ctrl_handler.  A signal without a handler takes
\* its default action.  Unix: the byte of a full pipe is lost.
Raise(k) ==
    /\ signals < MaxSignals /\ signals' = signals + 1 /\ k \in installed
    /\ os = "windows" => ConsoleTakes(k)
    /\ IF Len(pipe) < PipeCap
       THEN /\ pipe' = Append(pipe, k)
            /\ owed' = owed \cup {l \in Listeners : kind[l] = k}
       ELSE UNCHANGED <<pipe, owed>>
    /\ UNCHANGED <<os, installed, reader, batch, slots, todo, cur, kind, taskVars>>

\* reader_loop: one read takes all there is; each byte is dispatched under its
\* slot's lock.
Read ==
    /\ reader = "running" /\ batch = <<>> /\ pipe # <<>>
    /\ batch' = pipe /\ pipe' = <<>> /\ todo' = slots[Head(pipe)]
    /\ UNCHANGED <<os, installed, reader, slots, cur, kind, taskVars, signals, owed>>

\* dispatch drops a dead listener from the slot ...
Prune(l) ==
    /\ l \in todo /\ cur = Nobody /\ ~Live(l)
    /\ slots' = [slots EXCEPT ![Head(batch)] = @ \ {l}] /\ todo' = todo \ {l}
    /\ UNCHANGED <<os, installed, reader, pipe, batch, cur, kind, taskVars, signals,
                   owed>>

\* ... sets a live one's flag, then takes and wakes its waker ...
Flag(l) ==
    /\ l \in todo /\ cur = Nobody /\ Live(l)
    /\ pending' = [pending EXCEPT ![l] = TRUE] /\ cur' = l
    /\ UNCHANGED <<os, installed, reader, pipe, batch, slots, todo, kind, waker, awake,
                   pc, signals, owed>>

Wake ==
    /\ cur # Nobody
    /\ awake' = [awake EXCEPT ![cur] = @ \/ (waker[cur] /\ Live(cur))]
    /\ waker' = [waker EXCEPT ![cur] = FALSE]
    /\ todo' = todo \ {cur} /\ cur' = Nobody
    /\ UNCHANGED <<os, installed, reader, pipe, batch, slots, kind, pending, pc,
                   signals, owed>>

\* ... and goes on to the next byte.
NextByte ==
    /\ batch # <<>> /\ todo = {}
    /\ batch' = Tail(batch)
    /\ todo' = IF Len(batch) > 1 THEN slots[batch[2]] ELSE {}
    /\ UNCHANGED <<os, installed, reader, pipe, slots, cur, kind, taskVars, signals,
                   owed>>

\* The runtime the reader was spawned on shuts down, or a read fails.
ReaderStops ==
    /\ reader = "running" /\ batch = <<>> /\ reader' = "stopped"
    /\ UNCHANGED <<os, installed, pipe, batch, slots, todo, cur, kind, taskVars,
                   signals, owed>>

Next ==
    \/ \E l \in Listeners : \/ \E k \in Kinds : Listen(l, k)
                            \/ DropSignal(l) \/ Poll(l) \/ Register(l) \/ Recheck(l)
                            \/ Prune(l) \/ Flag(l)
    \/ \E k \in Kinds : Raise(k)
    \/ GlobalFails \/ ListenFails \/ Read \/ Wake \/ NextByte \/ ReaderStops

Spec == Init /\ [][Next]_vars

-----------------------------------------------------------------------------
\* A signal the pipe took reaches every listener that was there: until its
\* recv returns, its flag is set or the byte is on its way (as long as the
\* reader runs), and a parked listener whose flag is set has been woken or is
\* about to be.  The waker poll_listener stores and the flag dispatch sets
\* cannot miss each other.
SignalsReachListeners ==
    \A l \in Listeners : Live(l) =>
        /\ l \in owed /\ reader # "stopped" => pending[l] \/ Coming(l)
        /\ pending[l] /\ pc[l] = "parked" => awake[l] \/ l = cur
=============================================================================
