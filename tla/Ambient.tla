------------------------------- MODULE Ambient -------------------------------
(***************************************************************************)
(* The thread-locals of one thread: the ambient runtime (runtime/context.rs)*)
(* and LocalSet (task/local.rs), the identity of the running task           *)
(* (task/id.rs), a task_local! key (task/local_key.rs) and the cooperative  *)
(* budget (coop.rs).  Each is replaced by a call that nests in others and   *)
(* restored when the call ends, in order or by a panic.                     *)
(***************************************************************************)
EXTENDS Naturals, Sequences, FiniteSetsExt

CONSTANTS
    Runtimes, TaskIds, Values,  \* what the thread-locals may hold
    Nothing,
    Budget,         \* DEFAULT_BUDGET
    MaxDepth        \* bound on the nesting of calls

VARIABLES
    current,    \* CURRENT of runtime/context.rs
    taskId,     \* CURRENT of task/id.rs
    key,        \* the slot of the task_local! key
    budget,     \* BUDGET; Budget + 1 stands for None
    stack,      \* the calls in progress, each with what it found
    yielded     \* the running poll was told to yield by the budget

vars == <<current, taskId, key, budget, stack, yielded>>

Unlimited == Budget + 1

Init ==
    /\ current = Nothing /\ taskId = Nothing /\ key = Nothing /\ budget = Unlimited
    /\ stack = <<>> /\ yielded = FALSE

Found == [current |-> current, taskId |-> taskId, key |-> key, budget |-> budget]
Push(kind, v) ==
    Len(stack) < MaxDepth
    /\ stack' = Append(stack, [kind |-> kind, value |-> v, found |-> Found])

------------------------------------------------------------------------------
(* The calls *)

\* context::enter, by Runtime::enter, Handle::enter, a worker thread, or block_on.
Enter(rt) ==
    /\ Push("enter", rt) /\ current' = rt
    /\ UNCHANGED <<taskId, key, budget, yielded>>

\* block_on polls its future (run_until the same): no budget, no id is set up here.
BlockOn(rt) ==
    /\ Push("block_on", rt) /\ current' = rt
    /\ UNCHANGED <<taskId, key, budget, yielded>>

\* Task::run around the poll: id::enter, then coop::budget.
RunTask(id) ==
    /\ Push("task", id) /\ taskId' = id /\ budget' = Budget /\ yielded' = FALSE
    /\ UNCHANGED <<current, key>>

\* LocalTask::run around the poll: id::enter alone.
RunLocalTask(id) ==
    /\ Push("local", id) /\ taskId' = id
    /\ UNCHANGED <<current, key, budget, yielded>>

\* TaskLocalFuture::poll and sync_scope.
Scope(v) ==
    /\ Push("scope", v) /\ key' = v
    /\ UNCHANGED <<current, taskId, budget, yielded>>

\* coop::with_unconstrained
Unconstrained ==
    /\ Push("unconstrained", Nothing) /\ budget' = Unlimited
    /\ UNCHANGED <<current, taskId, key, yielded>>

------------------------------------------------------------------------------
(* Their ends *)

Restores(kind) ==
    CASE kind \in {"enter", "block_on"} -> {"current"}
      [] kind = "task" -> {"taskId", "budget"}
      [] kind = "local" -> {"taskId"}
      [] kind = "scope" -> {"key"}
      [] kind = "unconstrained" -> {"budget"}

\* Mutant: the slot of the key is put back only on the way that returns.
RestoresInPanicForgetsKey(kind) == Restores(kind) \ (IF kind = "scope" THEN {"key"} ELSE {})

\* What is restored when a panic goes through: all but what with_unconstrained
\* sets after f() has returned.
RestoresInPanic(kind) == IF kind = "unconstrained" THEN {} ELSE Restores(kind)

\* The frames from n up end, restored[i] being what frame i puts back: a variable
\* gets what the lowest frame that restores it found.
Unwind(n, restored) ==
    LET frames(f) == {i \in n..Len(stack) : f \in restored[i]}
        back(f, now) == IF frames(f) = {} THEN now ELSE stack[Min(frames(f))].found[f]
    IN  /\ current' = back("current", current) /\ taskId' = back("taskId", taskId)
        /\ key' = back("key", key) /\ budget' = back("budget", budget)
        /\ stack' = SubSeq(stack, 1, n - 1)

\* The innermost call returns; its poll's result is Pending or Ready.
Return ==
    /\ stack # <<>> /\ Unwind(Len(stack), [i \in DOMAIN stack |-> Restores(stack[i].kind)])
    /\ yielded' = FALSE

\* A panic up to the catch_unwind of the innermost task poll, or out of everything.
Panic ==
    LET tasks == {i \in 1..Len(stack) : stack[i].kind \in {"task", "local"}}
        n == IF tasks = {} THEN 1 ELSE Max(tasks)
    IN  /\ stack # <<>>
        /\ Unwind(n, [i \in DOMAIN stack |-> RestoresInPanic(stack[i].kind)])
        /\ yielded' = FALSE

\* coop::poll_proceed, called by the reactor, mpsc, oneshot, Notify and consume_budget.
PollProceed ==
    /\ stack # <<>>
    /\ \/ budget \in 1..Budget /\ budget' = budget - 1 /\ UNCHANGED yielded
       \/ budget = 0 /\ yielded' = TRUE /\ UNCHANGED budget
       \/ budget = Unlimited /\ UNCHANGED <<budget, yielded>>
    /\ UNCHANGED <<current, taskId, key, stack>>

Next ==
    \/ Return \/ Panic \/ PollProceed \/ Unconstrained
    \/ \E rt \in Runtimes : Enter(rt) \/ BlockOn(rt)
    \/ \E id \in TaskIds : RunTask(id) \/ RunLocalTask(id)
    \/ \E v \in Values : Scope(v)

------------------------------------------------------------------------------
(* Properties *)

Innermost(kinds) ==
    LET at == {i \in 1..Len(stack) : stack[i].kind \in kinds}
    IN  IF at = {} THEN Nothing ELSE stack[Max(at)].value

\* "Restoring whatever was there before", also "if that poll panics": between any
\* returns and panics the ambient runtime, the task's identity and the key are
\* those of the innermost call in progress that sets them, and an idle thread is
\* clean, so the next task on it sees nothing of the last.
AmbientRestored ==
    /\ current = Innermost({"enter", "block_on"})
    /\ taskId = Innermost({"task", "local"})
    /\ key = Innermost({"scope"})
    /\ stack = <<>> => budget = Unlimited
==============================================================================
