---------------------------- MODULE ChildProcess ----------------------------
(***************************************************************************)
(* process::Child (process/mod.rs): the child process in the kernel, the   *)
(* `inner`/`status` pair of the handle, the blocking-pool closure that     *)
(* calls wait(2), and the pipes.  `wait` moves `inner` into the closure,   *)
(* so a `wait` that is dropped or fails leaves neither `inner` nor         *)
(* `status`.                                                               *)
(***************************************************************************)
EXTENDS Naturals

CONSTANTS Streams,      \* the output streams, stdout and stderr
          MaxOut,       \* bytes the child writes to each
          PipeCap       \* bytes a pipe holds

VARIABLES
    piped,      \* streams set to Stdio::piped
    stdin,      \* "inherited", "open" (piped) or "closed"
    proc,       \* the process: "running", "zombie", "reaped"
    exit,       \* how it ended
    wrote,      \* bytes the child has written to each stream
    pipe,       \* bytes in each pipe
    inner,      \* Child::inner is Some
    status,     \* Child::status
    kill_on_drop,
    child,      \* the handle: "held", "output" (inside wait_with_output), "dropped"
    call,       \* a wait is being awaited
    job,        \* the closure with `inner`: "none", "waiting", "done", "failed"
    got,        \* bytes the caller or wait_with_output has read from each stream
    reported,   \* statuses returned to callers
    output,     \* result of wait_with_output: "none", "ok", "error"
    lost,       \* a wait was dropped or failed
    panicked    \* a wait found neither `status` nor `inner`

vars == <<piped, stdin, proc, exit, wrote, pipe, inner, status, kill_on_drop, child,
          call, job, got, reported, output, lost, panicked>>
osVars == <<piped, proc, exit, wrote>>

Exits == {"code", "killed"}
Zero == [s \in Streams |-> 0]

\* Command::spawn.
Init ==
    /\ piped \in SUBSET Streams /\ stdin \in {"inherited", "open"}
    /\ proc = "running" /\ exit = "none" /\ wrote = Zero /\ pipe = Zero
    /\ inner = TRUE /\ status = "none" /\ kill_on_drop \in BOOLEAN
    /\ child = "held" /\ call = FALSE /\ job = "none"
    /\ got = Zero /\ reported = {} /\ output = "none"
    /\ lost = FALSE /\ panicked = FALSE

TypeOK ==
    /\ piped \subseteq Streams /\ stdin \in {"inherited", "open", "closed"}
    /\ proc \in {"running", "zombie", "reaped"} /\ exit \in Exits \cup {"none"}
    /\ wrote \in [Streams -> 0..MaxOut] /\ pipe \in [Streams -> 0..PipeCap]
    /\ inner \in BOOLEAN /\ status \in Exits \cup {"none"} /\ kill_on_drop \in BOOLEAN
    /\ child \in {"held", "output", "dropped"} /\ call \in BOOLEAN
    /\ job \in {"none", "waiting", "done", "failed"} /\ got \in [Streams -> 0..MaxOut]
    /\ reported \subseteq Exits /\ output \in {"none", "ok", "error"}
    /\ lost \in BOOLEAN /\ panicked \in BOOLEAN

-----------------------------------------------------------------------------
(* The process.                                                              *)
\* It writes; a full pipe holds it up, an inherited or closed stream does not.
ChildWrites(s) ==
    /\ proc = "running" /\ wrote[s] < MaxOut
    /\ wrote' = [wrote EXCEPT ![s] = @ + 1]
    /\ IF s \in piped /\ child # "dropped"
       THEN pipe[s] < PipeCap /\ pipe' = [pipe EXCEPT ![s] = @ + 1]
       ELSE UNCHANGED pipe
    /\ UNCHANGED <<piped, stdin, proc, exit, inner, status, kill_on_drop, child,
                   call, job, got, reported, output, lost, panicked>>

\* It exits once it has written everything and has seen the end of its stdin.
ChildExits ==
    /\ proc = "running" /\ wrote = [s \in Streams |-> MaxOut] /\ stdin # "open"
    /\ proc' = "zombie" /\ exit' = "code"
    /\ UNCHANGED <<piped, stdin, wrote, pipe, inner, status, kill_on_drop, child,
                   call, job, got, reported, output, lost, panicked>>

\* std::process::Child::kill.
Killed ==
    /\ proc' = IF proc = "running" THEN "zombie" ELSE proc
    /\ exit' = IF proc = "running" THEN "killed" ELSE exit

\* The closure's wait(2) returns: it closes over `inner`, which drops with it.
WaitReaps ==
    /\ job = "waiting" /\ proc = "zombie"
    /\ proc' = "reaped" /\ job' = "done"
    /\ UNCHANGED <<piped, stdin, exit, wrote, pipe, inner, status, kill_on_drop,
                   child, call, got, reported, output, lost, panicked>>

\* ... or fails, or the closure panics.
WaitFails ==
    /\ job = "waiting" /\ job' = "failed" /\ lost' = TRUE
    /\ UNCHANGED <<osVars, stdin, pipe, inner, status, kill_on_drop, child, call,
                   got, reported, output, panicked>>

-----------------------------------------------------------------------------
(* The handle.                                                               *)
Idle == child = "held" /\ ~call

\* Child::kill.
Kill ==
    /\ Idle
    /\ IF inner THEN Killed ELSE UNCHANGED <<proc, exit>>
    /\ UNCHANGED <<piped, stdin, wrote, pipe, inner, status, kill_on_drop, child,
                   call, job, got, reported, output, lost, panicked>>

\* Child::try_wait.
TryWait ==
    /\ Idle /\ ~panicked
    /\ IF status = "none" /\ inner /\ proc = "zombie"
       THEN status' = exit /\ inner' = FALSE /\ proc' = "reaped"
       ELSE UNCHANGED <<status, inner, proc>>
    /\ reported' = reported \cup ({status'} \ {"none"})
    /\ UNCHANGED <<piped, stdin, exit, wrote, pipe, kill_on_drop, child, call, job,
                   got, output, lost, panicked>>

\* The caller drops the pipe to the child's stdin, or reads an output pipe.
CloseStdin ==
    /\ Idle /\ stdin = "open" /\ stdin' = "closed"
    /\ UNCHANGED <<osVars, pipe, inner, status, kill_on_drop, child, call, job, got,
                   reported, output, lost, panicked>>

Drained(s) ==
    /\ pipe[s] > 0
    /\ got' = [got EXCEPT ![s] = @ + pipe[s]] /\ pipe' = [pipe EXCEPT ![s] = 0]

ReadPipe(s) ==
    /\ child = "held" /\ Drained(s)
    /\ UNCHANGED <<osVars, stdin, inner, status, kill_on_drop, child, call, job,
                   reported, output, lost, panicked>>

\* The first poll of Child::wait.
StartsWait ==
    IF status # "none"
    THEN /\ reported' = reported \cup {status}
         /\ UNCHANGED <<call, inner, job, panicked>>
    ELSE IF ~inner
    THEN panicked' = TRUE /\ UNCHANGED <<call, inner, job, reported>>
    ELSE /\ call' = TRUE /\ inner' = FALSE /\ job' = "waiting"
         /\ UNCHANGED <<reported, panicked>>

Wait ==
    /\ Idle /\ ~panicked /\ StartsWait
    /\ UNCHANGED <<osVars, stdin, pipe, status, kill_on_drop, child, got, output, lost>>

\* A poll of it that finds the closure finished; an error returns through `?`.
WaitReturns ==
    /\ child = "held" /\ call /\ job \in {"done", "failed"}
    /\ call' = FALSE /\ job' = "none"
    /\ status' = IF job = "done" THEN exit ELSE status
    /\ reported' = IF job = "done" THEN reported \cup {exit} ELSE reported
    /\ UNCHANGED <<osVars, stdin, pipe, inner, kill_on_drop, child, got, output,
                   lost, panicked>>

\* The future is dropped: the closure goes on, its result goes nowhere.
WaitDropped ==
    /\ child = "held" /\ call /\ call' = FALSE /\ lost' = TRUE
    /\ UNCHANGED <<osVars, stdin, pipe, inner, status, kill_on_drop, child, job, got,
                   reported, output, panicked>>

\* Drop for Child; `aware` is whether a runtime is current on this thread.
Drops(aware) ==
    /\ child' = "dropped" /\ call' = FALSE
    /\ IF kill_on_drop /\ inner
       THEN /\ Killed /\ inner' = FALSE
            /\ job' = IF aware THEN "waiting" ELSE job
       ELSE UNCHANGED <<proc, exit, inner, job>>

Drop(aware) ==
    /\ Idle /\ Drops(aware)
    /\ stdin' = IF stdin = "open" THEN "closed" ELSE stdin
    /\ UNCHANGED <<piped, wrote, pipe, status, kill_on_drop, got, reported, output,
                   lost, panicked>>

-----------------------------------------------------------------------------
(* wait_with_output: it owns the handle, closes stdin and polls the wait and *)
(* the two read_to_end futures together.                                     *)
OutputBegins ==
    /\ Idle /\ ~panicked
    /\ stdin' = IF stdin = "open" THEN "closed" ELSE stdin
    /\ StartsWait
    /\ child' = IF panicked' THEN "dropped" ELSE "output"
    /\ UNCHANGED <<osVars, pipe, status, kill_on_drop, got, output, lost>>

Drain(s) ==
    /\ child = "output" /\ Drained(s)
    /\ UNCHANGED <<osVars, stdin, inner, status, kill_on_drop, child, call, job,
                   reported, output, lost, panicked>>

\* All three are ready: the closure is done, and the pipes are at their end.
OutputReturns ==
    /\ child = "output" /\ (call => job = "done")
    /\ proc # "running" /\ \A s \in piped : pipe[s] = 0
    /\ status' = IF call THEN exit ELSE status
    /\ reported' = reported \cup {status'}
    /\ output' = "ok" /\ child' = "dropped" /\ call' = FALSE
    /\ UNCHANGED <<osVars, stdin, pipe, inner, kill_on_drop, job, got, lost, panicked>>

\* One of the three fails, or the whole future is dropped: `inner` is with the
\* closure, so nothing is killed.
OutputFails ==
    /\ child = "output"
    /\ output' = "error" /\ Drops(TRUE) /\ lost' = TRUE
    /\ UNCHANGED <<piped, stdin, wrote, pipe, status, kill_on_drop, got, reported,
                   panicked>>

Next ==
    \/ \E s \in Streams : ChildWrites(s) \/ ReadPipe(s) \/ Drain(s)
    \/ ChildExits \/ WaitReaps \/ WaitFails
    \/ Kill \/ TryWait \/ CloseStdin \/ Wait \/ WaitReturns \/ WaitDropped
    \/ \E aware \in BOOLEAN : Drop(aware)
    \/ OutputBegins \/ OutputReturns \/ OutputFails

Spec == Init /\ [][Next]_vars

-----------------------------------------------------------------------------
\* A status any of wait, try_wait and wait_with_output returns is how the
\* process really ended, and the same one every time; wait_with_output returns
\* only with all that the child wrote.  Unless a wait was dropped or failed,
\* no call finds both `status` and `inner` gone, and a kill_on_drop child does
\* not outlive its handle.  wait_with_output stands in nobody's way: a child that
\* waits for the end of its stdin, or for room in either pipe, gets it.
ChildAccountedFor ==
    /\ reported \subseteq {exit} /\ (status # "none" => ~inner /\ status = exit)
    /\ output = "ok" => \A s \in piped : got[s] = wrote[s]
    /\ child = "output" => /\ stdin # "open"
                           /\ \A s \in piped : pipe[s] > 0 => ENABLED Drain(s)
    /\ ~lost => /\ ~panicked
                /\ child = "dropped" /\ kill_on_drop => proc # "running"

\* "status is None, so inner must still be Some -- try_wait/wait always keep
\* these two in sync" (the expect in Child::wait).
WaitKeepsInSync == ~panicked
=============================================================================
