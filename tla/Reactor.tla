------------------------------ MODULE Reactor --------------------------------
(***************************************************************************)
(* Readiness of one descriptor: ScheduledIo and poll_io (reactor/mod.rs),  *)
(* the tasks that read from it, and the event loop of the epoll and of the *)
(* kqueue backend.  epoll registers with EPOLLET, so an event is reported  *)
(* once per arrival; kqueue's EV_ADD reports it for as long as it holds.   *)
(* One direction is modelled: the other has the same code on its own flag  *)
(* and slot.  The number of a dropped descriptor is used again for the     *)
(* next one, with a ScheduledIo of its own.                                *)
(***************************************************************************)
EXTENDS Naturals

CONSTANTS
    Readers,    \* tasks that share the socket by reference
    MaxData,    \* arrivals the receive buffer holds
    MaxGen,     \* descriptors opened under the same number
    NoOne

VARIABLES
    backend,    \* "epoll" or "kqueue"
    gen,        \* the ScheduledIo in use
    data,       \* arrivals not yet read
    edge,       \* an arrival that epoll has not reported
    kernel,     \* the descriptor is in the kernel's interest list
    registry,   \* and in the reactor's map
    flag,       \* readable
    slot,       \* read_waker
    rpc,        \* where each reader is
    awake,      \* its waker was called since it went to sleep
    lpc,        \* where the reactor thread is
    held,       \* the ScheduledIo it looked up
    displaced,  \* history: readers whose waker another one replaced
    marked,     \* history: readers whose readiness came back after their WouldBlock
    overrun     \* history: such readiness was cleared

vars == <<backend, gen, data, edge, kernel, registry, flag, slot, rpc, awake, lpc, held,
          displaced, marked, overrun>>
os == <<data, edge, kernel>>
loop == <<lpc, held>>
history == <<displaced, marked, overrun>>
readers == <<slot, rpc, awake>>

Init ==
    /\ backend \in {"epoll", "kqueue"} /\ gen = 0
    /\ data = 0 /\ edge = FALSE /\ kernel = FALSE /\ registry = FALSE
    /\ flag = TRUE /\ slot = NoOne
    /\ rpc = [r \in Readers |-> "out"] /\ awake = [r \in Readers |-> FALSE]
    /\ lpc = "loop" /\ held = 0
    /\ displaced = {} /\ marked = {} /\ overrun = FALSE

------------------------------------------------------------------------------
(* The descriptor *)

\* register: into the kernel's list, which reports what is already there, and then
\* into the map.  ScheduledIo::new starts out ready.
RegisterKernel ==
    /\ ~kernel /\ gen < MaxGen /\ gen' = gen + 1
    /\ kernel' = TRUE /\ edge' = (backend = "epoll" /\ data > 0)
    /\ flag' = TRUE /\ slot' = NoOne /\ overrun' = FALSE
    /\ UNCHANGED <<backend, data, registry, rpc, awake, loop, displaced, marked>>

RegisterMap ==
    /\ kernel /\ ~registry /\ registry' = TRUE
    /\ UNCHANGED <<backend, gen, os, flag, readers, loop, history>>

\* Drop of the socket, which nobody polls any more: deregister, then close.
Deregister ==
    /\ registry /\ \A r \in Readers : rpc[r] = "out"
    /\ registry' = FALSE /\ kernel' = FALSE /\ data' = 0 /\ edge' = FALSE
    /\ UNCHANGED <<backend, gen, flag, readers, loop, history>>

\* The peer's bytes arrive.
Arrive ==
    /\ kernel /\ data < MaxData
    /\ data' = data + 1 /\ edge' = (backend = "epoll")
    /\ UNCHANGED <<backend, gen, kernel, registry, flag, readers, loop, history>>

------------------------------------------------------------------------------
(* poll_io and try_io *)

Goto(r, p) == rpc' = [rpc EXCEPT ![r] = p]

\* A read begins, or the task is polled again after its waker was called.
Poll(r) ==
    /\ (registry /\ rpc[r] = "out") \/ (rpc[r] = "parked" /\ awake[r])
    /\ Goto(r, "check")
    /\ awake' = [awake EXCEPT ![r] = FALSE]
    /\ displaced' = displaced \ {r}
    /\ UNCHANGED <<backend, gen, os, registry, flag, slot, loop, marked, overrun>>

\* The future is dropped while it waits; its waker stays in the slot.
Cancel(r) ==
    /\ rpc[r] = "parked" /\ Goto(r, "out")
    /\ awake' = [awake EXCEPT ![r] = FALSE] /\ displaced' = displaced \ {r}
    /\ UNCHANGED <<backend, gen, os, registry, flag, slot, loop, marked, overrun>>

\* ScheduledIo::poll_ready: look, leave the waker, look again.
Check(r) ==
    /\ rpc[r] = "check" /\ Goto(r, IF flag THEN "op" ELSE "register")
    /\ UNCHANGED <<backend, gen, os, registry, flag, slot, awake, loop, history>>

RegisterWaker(r) ==
    /\ rpc[r] = "register" /\ Goto(r, "recheck")
    /\ slot' = r
    /\ displaced' = (displaced \ {r}) \cup {o \in Readers \ {r} : o = slot /\ rpc[o] # "out"}
    /\ UNCHANGED <<backend, gen, os, registry, flag, awake, loop, marked, overrun>>

\* Mutant: the second look is left out.
RecheckNever(r) ==
    /\ rpc[r] = "recheck" /\ Goto(r, "parked")
    /\ UNCHANGED <<backend, gen, os, registry, flag, slot, awake, loop, history>>

Recheck(r) ==
    /\ rpc[r] = "recheck" /\ Goto(r, IF flag THEN "op" ELSE "parked")
    /\ displaced' = IF flag THEN displaced \ {r} ELSE displaced
    /\ UNCHANGED <<backend, gen, os, registry, flag, slot, awake, loop, marked, overrun>>

\* The system call: a value, or WouldBlock.  readiness::try_io makes it without
\* looking at the flag first.
Op(r) ==
    /\ rpc[r] \in {"op", "try"}
    /\ IF data > 0
         THEN data' = data - 1 /\ Goto(r, "out") /\ awake' = [awake EXCEPT ![r] = FALSE]
         ELSE /\ Goto(r, IF rpc[r] = "op" THEN "clear" ELSE "tryclear")
              /\ UNCHANGED <<data, awake>>
    /\ UNCHANGED <<backend, gen, edge, kernel, registry, flag, slot, loop, history>>

\* WouldBlock: clear, and poll_io's loop begins again; try_io returns the error.
Clear(r) ==
    /\ rpc[r] \in {"clear", "tryclear"}
    /\ flag' = FALSE
    /\ overrun' = (overrun \/ r \in marked)
    /\ marked' = marked \ {r}
    /\ Goto(r, IF rpc[r] = "clear" THEN "check" ELSE "out")
    /\ UNCHANGED <<backend, gen, os, registry, slot, awake, loop, displaced>>

TryIo(r) ==
    /\ registry /\ rpc[r] = "out" /\ Goto(r, "try")
    /\ UNCHANGED <<backend, gen, os, registry, flag, slot, awake, loop, history>>

------------------------------------------------------------------------------
(* The reactor thread *)

\* The wait of event_loop returns with an event of the descriptor.  The wake
\* descriptor and the way out of the loop are in module UringReactor.
Wait ==
    /\ lpc = "loop" /\ kernel
    /\ IF backend = "epoll" THEN edge ELSE data > 0
    /\ edge' = FALSE /\ lpc' = "look"
    /\ UNCHANGED <<backend, gen, data, kernel, registry, flag, readers, held, history>>

\* The map has the descriptor's ScheduledIo, or the event is dropped.
LookUp ==
    /\ lpc = "look"
    /\ IF registry THEN lpc' = "mark" /\ held' = gen ELSE lpc' = "loop" /\ held' = held
    /\ UNCHANGED <<backend, gen, os, registry, flag, readers, history>>

\* mark_ready: the flag, then the waker.
MarkFlag ==
    /\ lpc = "mark" /\ lpc' = "wake"
    /\ flag' = (flag \/ held = gen)
    /\ marked' = IF held = gen THEN marked \cup {r \in Readers : rpc[r] \in {"clear", "tryclear"}}
                               ELSE marked
    /\ overrun' = (overrun /\ held # gen)
    /\ UNCHANGED <<backend, gen, os, registry, readers, held, displaced>>

TakeWaker ==
    /\ lpc = "wake" /\ lpc' = "loop" /\ held' = 0
    /\ IF held = gen /\ slot # NoOne
         THEN slot' = NoOne /\ awake' = [awake EXCEPT ![slot] = rpc[slot] # "out"]
         ELSE UNCHANGED <<slot, awake>>
    /\ UNCHANGED <<backend, gen, os, registry, flag, rpc, history>>

Next ==
    \/ RegisterKernel \/ RegisterMap \/ Deregister \/ Arrive
    \/ \E r \in Readers :
         \/ Poll(r) \/ Cancel(r) \/ Check(r) \/ RegisterWaker(r) \/ Recheck(r)
         \/ Op(r) \/ Clear(r) \/ TryIo(r)
    \/ Wait \/ LookUp \/ MarkFlag \/ TakeWaker

------------------------------------------------------------------------------
(* Properties *)

\* The event of what has arrived is still to be reported, or in the reactor thread's
\* hands: the sleepers will be woken.
OnTheWay ==
    \/ lpc = "look" /\ registry
    \/ lpc \in {"mark", "wake"} /\ held = gen
    \/ IF backend = "epoll" THEN edge ELSE data > 0

Waiting(r) == rpc[r] = "parked" /\ ~awake[r] /\ r \notin displaced

\* No readiness is lost between poll_ready's two looks and mark_ready's two steps: a
\* reader that sleeps has its waker in the slot, and neither the flag nor an
\* arrival is left behind without an event that will call it.  The two ways out are
\* named: a reader whose waker another reader of the same socket replaced, and
\* under epoll readiness that came back between WouldBlock and clear.
ReadersServed ==
    \A r \in Readers : Waiting(r) =>
        /\ slot = r
        /\ flag => lpc = "wake" /\ held = gen
        /\ data > 0 => OnTheWay \/ (backend = "epoll" /\ overrun)
==============================================================================
