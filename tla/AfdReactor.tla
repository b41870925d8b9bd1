----------------------------- MODULE AfdReactor ------------------------------
(***************************************************************************)
(* The Windows backend of the reactor (reactor/windows.rs): readiness from *)
(* overlapped AFD polls on a completion port.  While a poll is outstanding *)
(* the kernel writes into the SockState and holds a reference to it, which *)
(* the loop takes back with the completion.  A socket handle is used again *)
(* after it is closed; its SockState is not.                               *)
(***************************************************************************)
EXTENDS Naturals, FiniteSets

CONSTANTS Sockets, NoSock

VARIABLES
    stage,      \* of each socket: "no", "registering", "live", "failed", "gone"
    registry,   \* sockets in the map
    pending,    \* SockState::pending
    deleting,   \* SockState::deleting
    kernel,     \* polls outstanding in the kernel
    port,       \* completions in the port: <<socket, "ready" | "error" | "closed">>
    refs,       \* references the kernel's requests hold on each SockState
    lpc,        \* where the loop is
    held,       \* the SockState of the completion in its hands
    quiet,      \* history: sockets whose poll could not be submitted again
    cancel,     \* history: what deregister's cancel did: "none", "done", "failed", "blind"
    shutdown

vars == <<stage, registry, pending, deleting, kernel, port, refs, lpc, held, quiet, cancel,
          shutdown>>

Init ==
    /\ stage = [s \in Sockets |-> "no"] /\ registry = {}
    /\ pending = {} /\ deleting = {} /\ kernel = {} /\ port = {}
    /\ refs = [s \in Sockets |-> 0]
    /\ lpc = "loop" /\ held = NoSock /\ quiet = {}
    /\ cancel = [s \in Sockets |-> "none"] /\ shutdown = FALSE

Due(s) == {c \in port : c[1] = s}

------------------------------------------------------------------------------
(* Polls *)

\* submit_poll, inside the SockState's lock: nothing for one being deleted; else
\* pending and a reference, given back if the request is refused.
SubmitPoll(s, accepted) ==
    IF s \in deleting
      THEN UNCHANGED <<pending, kernel, refs>>
      ELSE /\ pending' = pending \cup {s}
           /\ IF accepted
                THEN kernel' = kernel \cup {s} /\ refs' = [refs EXCEPT ![s] = @ + 1]
                ELSE UNCHANGED <<kernel, refs>>

\* Afd::poll's request completes: the socket is ready, the poll failed, or the handle
\* was closed under it.
Complete(s, how) ==
    /\ s \in kernel /\ kernel' = kernel \ {s}
    /\ port' = port \cup {<<s, how>>}
    /\ UNCHANGED <<stage, registry, pending, deleting, refs, lpc, held, quiet, cancel, shutdown>>

------------------------------------------------------------------------------
(* register and deregister *)

Register(s) ==
    /\ stage[s] = "no"
    /\ stage' = [stage EXCEPT ![s] = "registering"] /\ registry' = registry \cup {s}
    /\ UNCHANGED <<pending, deleting, kernel, port, refs, lpc, held, quiet, cancel, shutdown>>

\* The first poll; if it is refused register fails, and the map keeps the entry.
FirstPoll(s) ==
    /\ stage[s] = "registering"
    /\ \E accepted \in BOOLEAN :
         /\ SubmitPoll(s, accepted)
         /\ stage' = [stage EXCEPT ![s] = IF accepted THEN "live" ELSE "failed"]
    /\ UNCHANGED <<registry, deleting, port, lpc, held, quiet, cancel, shutdown>>

\* Drop of a socket: out of the map, marked, and, if pending says so, its poll
\* cancelled, which completes like any other.  A cancel that fails, or that finds
\* nothing because the poll had been refused, is ignored.
Deregister(s) ==
    /\ stage[s] = "live" /\ stage' = [stage EXCEPT ![s] = "gone"]
    /\ registry' = registry \ {s}
    /\ deleting' = deleting \cup {s}
    /\ \/ /\ s \in pending /\ s \in kernel
          /\ kernel' = kernel \ {s} /\ port' = port \cup {<<s, "error">>}
          /\ cancel' = [cancel EXCEPT ![s] = "done"]
       \/ /\ s \in pending
          /\ cancel' = [cancel EXCEPT ![s] = IF s \in kernel THEN "failed"
                                             ELSE IF Due(s) # {} THEN "done" ELSE "blind"]
          /\ UNCHANGED <<kernel, port>>
       \/ s \notin pending /\ UNCHANGED <<kernel, port, cancel>>
    /\ UNCHANGED <<pending, refs, lpc, held, quiet, shutdown>>

Shutdown ==
    /\ ~shutdown /\ shutdown' = TRUE
    /\ UNCHANGED <<stage, registry, pending, deleting, kernel, port, refs, lpc, held, quiet, cancel>>

------------------------------------------------------------------------------
(* The event loop *)

\* The thread returns: shut down, or the wait on the port failed.
Exit ==
    /\ lpc = "loop" /\ lpc' = "exit"
    /\ UNCHANGED <<stage, registry, pending, deleting, kernel, port, refs, held, quiet, cancel,
                   shutdown>>

\* A completion: the reference is taken back.  A socket being deleted is dropped; a
\* closed one is deleted; else it is marked, both directions on an error.
Completion ==
    /\ lpc = "loop"
    /\ \E c \in port :
         LET s == c[1] IN
         /\ port' = port \ {c}
         /\ refs' = [refs EXCEPT ![s] = @ - 1]
         /\ pending' = pending \ {s}
         /\ deleting' = IF c[2] = "closed" THEN deleting \cup {s} ELSE deleting
         /\ IF s \in deleting \/ c[2] = "closed"
              THEN UNCHANGED <<lpc, held>>
              ELSE lpc' = "submit" /\ held' = s
    /\ UNCHANGED <<stage, registry, kernel, quiet, cancel, shutdown>>

\* After the lock was let go the poll is submitted again; its error is ignored.
Resubmit ==
    /\ lpc = "submit" /\ lpc' = "loop" /\ held' = NoSock
    /\ \E accepted \in BOOLEAN :
         /\ SubmitPoll(held, accepted)
         /\ quiet' = IF accepted THEN quiet ELSE quiet \cup {held}
    /\ UNCHANGED <<stage, registry, deleting, port, cancel, shutdown>>

Next ==
    \/ \E s \in Sockets :
         \/ Register(s) \/ FirstPoll(s) \/ Deregister(s)
         \/ \E how \in {"ready", "error", "closed"} : Complete(s, how)
    \/ Completion \/ Resubmit \/ Shutdown \/ Exit

------------------------------------------------------------------------------
(* Properties *)

\* The kernel never writes into a SockState it holds no reference to, and holds one
\* exactly for what it still has to complete; a request it may complete is one
\* pending knows of, so deregister cancels it, and only a failed cancel leaves it
\* there.  The converse, "`guard.pending` confirms a poll request is genuinely still
\* outstanding", is so but for a socket whose last poll was refused: pending stays
\* TRUE, and the cancel names a request that is over.
KernelReferences ==
    \A s \in Sockets :
        /\ refs[s] = Cardinality(Due(s)) + (IF s \in kernel THEN 1 ELSE 0)
        /\ s \in kernel \/ Due(s) # {} => s \in pending
        /\ s \in deleting /\ s \in kernel => cancel[s] = "failed"
        /\ cancel[s] = "blind" => s \in quiet

\* A live socket is watched: a poll is outstanding, completed or about to be made
\* again.  The exceptions are a handle closed behind the reactor's back, a socket
\* whose poll was refused, and the end of the thread.
LiveWatched ==
    lpc # "exit" => \A s \in Sockets : stage[s] = "live" =>
        s \in kernel \/ Due(s) # {} \/ held = s \/ s \in deleting \cup quiet
==============================================================================
