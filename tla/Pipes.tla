------------------------------- MODULE Pipes --------------------------------
(***************************************************************************)
(* The in-memory streams of io/duplex.rs and io/simplex.rs under the tasks *)
(* that use them.  A duplex pair has one pipe for each direction, a        *)
(* simplex pair one pipe that either handle may read or write.  io/split.rs*)
(* puts a handle behind a lock so that one task reads it and another       *)
(* writes it, which is the most that safe code can do with a handle; a     *)
(* task's future may be dropped while it waits.                            *)
(***************************************************************************)
EXTENDS DuplexPipe

CONSTANTS
    A, B,       \* the two handles
    MaxBytes    \* bound: bytes each handle writes

VARIABLES
    flavor,     \* "duplex" | "simplex"
    pipe,       \* the pipe named after the handle that writes it (simplex: A's)
    alive,      \* the handles not dropped, or half dropped
    waiting,    \* tasks whose poll answered Pending
    awake,      \* tasks woken since
    sent,       \* bytes each handle has written
    displaced   \* tasks whose waker another task's registration replaced

vars == <<flavor, pipe, alive, waiting, awake, sent, displaced>>

Handles == {A, B}
Ends == {"r", "w"}
Tasks == Handles \X Ends
Peer(h) == IF h = A THEN B ELSE A

\* write_pipe and read_pipe; a simplex pair has only one pipe.
write_pipe(h) == IF flavor = "simplex" THEN A ELSE h
read_pipe(h) == IF flavor = "simplex" THEN A ELSE Peer(h)

Init ==
    /\ flavor \in {"duplex", "simplex"}
    /\ pipe = [h \in Handles |-> NewPipe]
    /\ alive = [h \in Handles |-> "whole"]
    /\ waiting = {} /\ awake = {} /\ displaced = {}
    /\ sent = [h \in Handles |-> 0]

TypeOK ==
    /\ flavor \in {"duplex", "simplex"}
    /\ \A h \in Handles : /\ pipe[h].buf \in Seq(1..MaxBytes)
                          /\ {pipe[h].read_waker, pipe[h].write_waker} \subseteq Tasks \cup {NoWaker}
    /\ alive \in [Handles -> {"whole", "closing", "gone"}]
    /\ waiting \subseteq Tasks /\ awake \subseteq Tasks /\ displaced \subseteq Tasks
    /\ sent \in [Handles -> 0..MaxBytes]

Wake(ts) == awake' = awake \cup (ts \cap waiting)

\* A task parks: its earlier wake is spent, and whoever held the slot is displaced.
Park(t, held) ==
    /\ waiting' = waiting \cup {t}
    /\ awake' = awake \ {t}
    /\ displaced' = (displaced \ {t}) \cup (({held} \ {t, NoWaker}) \cap waiting)

\* A task's poll answers Ready, having woken ts.
Finish(t, ts) ==
    /\ waiting' = waiting \ {t}
    /\ awake' = (awake \cup (ts \cap waiting)) \ {t}
    /\ displaced' = displaced \ {t}

\* poll_read by the reading task of h, with room for one byte.
Read(h) ==
    LET t == <<h, "r">>
        q == read_pipe(h)
    IN  /\ alive[h] = "whole"
        /\ t \notin waiting \/ t \in awake
        /\ pipe' = [pipe EXCEPT ![q] = PollRead(@, 1, t)]
        /\ IF ReadAnswer(pipe[q]) = "pending"
             THEN Park(t, pipe[q].read_waker)
             ELSE Finish(t, ReadWakes(pipe[q]))
        /\ UNCHANGED <<flavor, alive, sent>>

\* poll_write by the writing task of h, of one byte.
Write(h) ==
    LET t == <<h, "w">>
        q == write_pipe(h)
        answer == WriteAnswer(pipe[q])
    IN  /\ alive[h] = "whole"
        /\ t \notin waiting \/ t \in awake
        /\ sent[h] < MaxBytes
        /\ pipe' = [pipe EXCEPT ![q] = PollWrite(@, <<sent[h] + 1>>, t)]
        /\ IF answer = "pending"
             THEN Park(t, pipe[q].write_waker)
             ELSE Finish(t, WriteWakes(pipe[q]))
        /\ sent' = IF answer = "took" THEN [sent EXCEPT ![h] = @ + 1] ELSE sent
        /\ UNCHANGED <<flavor, alive>>

\* A task's read or write future is dropped: its waker stays in the slot.
Cancel(t) ==
    /\ t \in waiting
    /\ waiting' = waiting \ {t} /\ awake' = awake \ {t} /\ displaced' = displaced \ {t}
    /\ UNCHANGED <<flavor, pipe, alive, sent>>

\* poll_shutdown of h.
Shutdown(h) ==
    LET q == write_pipe(h) IN
    /\ alive[h] = "whole" /\ ~pipe[q].write_half_closed
    /\ <<h, "w">> \notin waiting
    /\ pipe' = [pipe EXCEPT ![q] = CloseWrite(@)]
    /\ Wake({pipe[q].read_waker})
    /\ UNCHANGED <<flavor, alive, waiting, sent, displaced>>

\* The destructor of h runs when none of its tasks uses it.  A duplex handle
\* closes the pipe it writes, and in a second critical section the other.
DropBegin(h) ==
    LET q == write_pipe(h) IN
    /\ alive[h] = "whole" /\ waiting \cap ({h} \X Ends) = {}
    /\ IF flavor = "simplex"
         THEN /\ pipe' = [pipe EXCEPT ![q] = DropSimplex(@)]
              /\ alive' = [alive EXCEPT ![h] = "gone"]
              /\ Wake({pipe[q].read_waker, pipe[q].write_waker})
         ELSE /\ pipe' = [pipe EXCEPT ![q] = CloseWrite(@)]
              /\ alive' = [alive EXCEPT ![h] = "closing"]
              /\ Wake({pipe[q].read_waker})
    /\ UNCHANGED <<flavor, waiting, sent, displaced>>

DropEnd(h) ==
    LET q == read_pipe(h) IN
    /\ alive[h] = "closing"
    /\ pipe' = [pipe EXCEPT ![q] = DropRead(@)]
    /\ alive' = [alive EXCEPT ![h] = "gone"]
    /\ Wake({pipe[q].write_waker})
    /\ UNCHANGED <<flavor, waiting, sent, displaced>>

Next ==
    \/ \E h \in Handles : Read(h) \/ Write(h) \/ Shutdown(h) \/ DropBegin(h) \/ DropEnd(h)
    \/ \E t \in Tasks : Cancel(t)

Spec == Init /\ [][Next]_vars

-----------------------------------------------------------------------------
\* The pipe a waiting task waits on, and whether what it waits for has come.
Answered(t) ==
    IF t[2] = "r" THEN ReadAnswer(pipe[read_pipe(t[1])]) # "pending"
                  ELSE WriteAnswer(pipe[write_pipe(t[1])]) # "pending"

Slot(t) == IF t[2] = "r" THEN pipe[read_pipe(t[1])].read_waker
                         ELSE pipe[write_pipe(t[1])].write_waker

\* A task that waits on an in-memory stream is never left asleep when it could
\* go on: while its poll would still answer Pending its waker is in the pipe,
\* and as soon as data, room, the end or a dropped peer would answer it, it has
\* been woken (poll_read, poll_write, poll_shutdown and both halves of the
\* destructors in io/duplex.rs and io/simplex.rs).  The exception is the slot
\* itself: it holds one waker for each direction, and with a simplex pair the
\* tasks of both handles share it.
PipeTasksAwake ==
    \A t \in waiting \ (awake \cup displaced) : ~Answered(t) /\ Slot(t) = t
=============================================================================
