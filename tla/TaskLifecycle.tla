--------------------------- MODULE TaskLifecycle ---------------------------
(***************************************************************************)
(* What the runtime promises about the life of its tasks, without the      *)
(* atomic byte, the queues or the threads: a spawned task waits for a      *)
(* worker, is run by one, and when its poll returns Pending it is put to   *)
(* sleep -- or goes straight back to waiting for a worker, if a wake()     *)
(* reached it while it was running.  Task and Scheduler both implement it. *)
(***************************************************************************)
CONSTANT Tasks

VARIABLE phase

Phases == {"fresh", "queued", "running", "rerun", "idle", "done"}

\* The change of phase of t alone.
Move(t, from, to) ==
    /\ phase[t] = from
    /\ phase' = [phase EXCEPT ![t] = to]

\* spawn() hands the task to the scheduler.
Spawn(t) == Move(t, "fresh", "queued")

\* A wake of a sleeping task queues it, a wake of a running task is noted; a
\* wake of any other task changes nothing.
Wake(t) == Move(t, "idle", "queued") \/ Move(t, "running", "rerun")

\* A worker begins to poll the task.
Start(t) == Move(t, "queued", "running")

\* The poll returns Pending: a wake noted meanwhile is not lost.
Suspend(t) == Move(t, "running", "idle") \/ Move(t, "rerun", "queued")

\* The task completes, panics or is cancelled.
Finish(t) == Move(t, "running", "done") \/ Move(t, "rerun", "done")

Init == phase = [t \in Tasks |-> "fresh"]

Next == \E t \in Tasks : Spawn(t) \/ Wake(t) \/ Start(t) \/ Suspend(t) \/ Finish(t)

Spec == Init /\ [][Next]_phase
=============================================================================
