------------------------------- MODULE JoinSet -------------------------------
(***************************************************************************)
(* JoinSet (task/join_set.rs): a vector of JoinHandles, joined in the      *)
(* order in which the tasks finish.  A task is abstracted to its JoinInner:*)
(* running or done, and the waker a poll of its handle left there.         *)
(***************************************************************************)
EXTENDS Naturals, Sequences, Functions

CONSTANT Tasks

VARIABLES
    handles,    \* JoinSet::handles, NoSet once dropped
    dropped,    \* the set was dropped
    task,       \* of each task: "no", "running", "done"
    aborted,    \* tasks with an abort requested
    waiting,    \* tasks whose JoinInner holds the owner's waker
    owner,      \* the task that owns the set: "free", "joining", "closing"
    at,         \* poll_join_next: the index it looks at next, 0 when not in a poll
    awake,      \* the owner's waker fired since its last poll began
    joined      \* history: results handed out, in order

vars == <<handles, dropped, task, aborted, waiting, owner, at, awake, joined>>

Init ==
    /\ handles = <<>> /\ dropped = FALSE /\ task = [t \in Tasks |-> "no"]
    /\ aborted = {} /\ waiting = {} /\ owner = "free" /\ at = 0 /\ awake = FALSE
    /\ joined = <<>>

\* spawn, spawn_on
Spawn(t) ==
    /\ ~dropped /\ owner = "free" /\ task[t] = "no"
    /\ task' = [task EXCEPT ![t] = "running"]
    /\ handles' = Append(handles, t)
    /\ UNCHANGED <<dropped, aborted, waiting, owner, at, awake, joined>>

\* A member finishes, of itself or because of an abort, and wakes who waits for it.
TaskFinishes(t) ==
    /\ task[t] = "running"
    /\ task' = [task EXCEPT ![t] = "done"]
    /\ awake' = (awake \/ t \in waiting)
    /\ waiting' = waiting \ {t}
    /\ UNCHANGED <<handles, dropped, aborted, owner, at, joined>>

\* abort_all, alone or as the start of shutdown.
AbortAll(next) ==
    /\ ~dropped /\ owner = "free"
    /\ aborted' = aborted \cup Range(handles)
    /\ owner' = next /\ at' = IF next = "closing" THEN 1 ELSE 0
    /\ UNCHANGED <<handles, dropped, task, waiting, awake, joined>>

\* join_next is polled, first or again.
PollJoinNext ==
    /\ ~dropped /\ at = 0
    /\ owner = "free" \/ awake
    /\ owner' = IF owner = "free" THEN "joining" ELSE owner
    /\ at' = 1 /\ awake' = FALSE
    /\ UNCHANGED <<handles, dropped, task, aborted, waiting, joined>>

\* swap_remove
SwapRemove(i) ==
    LET last == Len(handles)
    IN  SubSeq([handles EXCEPT ![i] = handles[last]], 1, last - 1)

\* One turn of the loop: a handle that is done is taken out and its result
\* returned (shutdown goes round again), one that is not keeps the waker.
PollHandle ==
    /\ at \in 1..Len(handles)
    /\ LET t == handles[at]
       IN  \/ /\ task[t] = "done"
              /\ handles' = SwapRemove(at)
              /\ joined' = Append(joined, t)
              /\ owner' = IF owner = "joining" THEN "free" ELSE owner
              /\ at' = IF owner = "joining" THEN 0 ELSE 1
              /\ UNCHANGED waiting
           \/ /\ task[t] = "running"
              /\ waiting' = waiting \cup {t}
              /\ at' = IF at = Len(handles) THEN 0 ELSE at + 1
              /\ UNCHANGED <<handles, joined, owner>>
    /\ UNCHANGED <<dropped, task, aborted, awake>>

\* The set is empty: None, and the end of shutdown.
PollEmpty ==
    /\ at > 0 /\ handles = <<>>
    /\ owner' = "free" /\ at' = 0
    /\ UNCHANGED <<handles, dropped, task, aborted, waiting, awake, joined>>

\* The join_next or shutdown future is dropped between polls; the set stays.
Cancel ==
    /\ at = 0 /\ owner # "free" /\ owner' = "free"
    /\ UNCHANGED <<handles, dropped, task, aborted, waiting, at, awake, joined>>

\* Drop aborts every task still in the set.
DropSet ==
    /\ ~dropped /\ owner = "free" /\ dropped' = TRUE
    /\ aborted' = aborted \cup Range(handles)
    /\ handles' = <<>>
    /\ UNCHANGED <<task, waiting, owner, at, awake, joined>>

Next ==
    \/ PollJoinNext \/ PollHandle \/ PollEmpty \/ Cancel \/ DropSet
    \/ \E next \in {"free", "closing"} : AbortAll(next)
    \/ \E t \in Tasks : Spawn(t) \/ TaskFinishes(t)

------------------------------------------------------------------------------
\* However the members finish between the turns of the loop: every result is handed
\* out once or still in the set; a suspended join_next has its waker in every
\* member that runs, and has been woken for every one that finished; and no task
\* of a dropped set goes on without an abort.
JoinSetComplete ==
    /\ \A i, j \in 1..Len(joined) : i # j => joined[i] # joined[j]
    /\ ~dropped => \A t \in Tasks : task[t] # "no" =>
                       (t \in Range(handles)) # (t \in Range(joined))
    /\ owner # "free" /\ at = 0 /\ ~awake => Range(handles) \subseteq waiting
    /\ dropped => \A t \in Tasks : task[t] = "running" => t \in aborted
==============================================================================
