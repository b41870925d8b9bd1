---------------------------- MODULE BlockingFile ----------------------------
(***************************************************************************)
(* The files, directories and standard streams whose every operation is a  *)
(* closure on the blocking pool: fs/mod.rs File, fs/read_dir.rs ReadDir    *)
(* and io/stdio.rs.  Each keeps one operation in flight; the operation     *)
(* outlives the call that started it when the call is dropped, and the     *)
(* next call finds it.  `what` picks the type; its calls come one after    *)
(* another, from a task that may drop each of them at any Pending.  The    *)
(* blocking pool runs a closure whenever it likes, or the closure panics.  *)
(* A standard stream has a mutex for the whole process, which the handles  *)
(* of other tasks take too.                                                *)
(***************************************************************************)
EXTENDS Naturals, Sequences, FiniteSets, SequencesExt

CONSTANTS
    MaxCalls,   \* bound: calls made on a file or a stream
    MaxEntryCalls,  \* bound: calls of next_entry
    MaxLen,     \* bytes of the largest buffer
    Entries,    \* entries the directory holds
    ChunkSize,  \* CHUNK_SIZE of fs/read_dir.rs
    NoJob

VARIABLES
    what,       \* "file", "stdin", "stdout" (or stderr), "dir"
    state,      \* "idle", "busy", "poisoned", "taken"
    job,        \* the closure in flight; `n` is the length of its result
    at,         \* where it is: "none", "lock" (stdio's mutex), "pool", "done", "panicked"
    lock,       \* who has the stream's mutex: "nobody", "this", "other"
    call,       \* the call being made, NoJob between calls
    calls,      \* calls made so far
    ran,        \* the calls whose closure has run, in the order they did
    answered,   \* pairs <<call, the call whose closure's result it returned>>
    overflowed, \* the same, where the result did not fit the buffer and the call panicked
    dropped,    \* calls dropped before they returned
    buf, reader,\* ReadDir: the batch read ahead, and entries left in the iterator (or NoJob)
    given,      \* entries handed out
    errors      \* errors reported by a directory's iterator

vars == <<what, state, job, at, lock, call, calls, ran, answered, overflowed, dropped,
          buf, reader, given, errors>>
results == <<ran, answered, overflowed, dropped>>
dirVars == <<buf, reader, given, errors>>

FileKinds == {"read", "write", "seek", "set_len", "sync_all", "try_clone"}
\* Which leftover a call takes for its own: poll_dispatch shares one arm for
\* set_len, set_permissions, sync_all and sync_data.
Class(k) == IF k \in {"set_len", "sync_all"} THEN "dispatch" ELSE k

Streams == {"stdin", "stdout"}
\* The calls each type has.
KindsOf(w) == CASE w = "file" -> FileKinds
                [] w = "stdin" -> {"read"}
                [] w = "stdout" -> {"write"}
                [] w = "dir" -> {}
Sized == {"read", "write"}

Init ==
    /\ what \in {"file", "stdin", "stdout", "dir"}
    /\ state = "idle" /\ job = NoJob /\ at = "none" /\ lock = "nobody"
    /\ call = NoJob /\ calls = 0
    /\ ran = <<>> /\ answered = {} /\ overflowed = {} /\ dropped = {}
    /\ buf = <<>> /\ reader = (IF what = "dir" THEN Entries ELSE NoJob) /\ given = <<>> /\ errors = 0

TypeOK ==
    /\ state \in {"idle", "busy", "poisoned", "taken"} /\ at \in {"none", "lock", "pool", "done", "panicked"}
    /\ state = "busy" => at # "none"
    /\ calls \in 0..(MaxCalls + MaxEntryCalls) /\ dropped \subseteq 1..(MaxCalls + MaxEntryCalls)
    /\ ran \in Seq(1..MaxCalls) /\ lock \in {"nobody", "this", "other"}
    /\ buf \in Seq(1..Entries) /\ given \in Seq(1..Entries)

-----------------------------------------------------------------------------
(* Calls on a File or a standard stream.                                     *)
Begin(k, len) ==
    /\ call = NoJob /\ calls < MaxCalls /\ state # "taken" /\ k \in KindsOf(what)
    /\ k \notin Sized => len = 0
    /\ calls' = calls + 1
    /\ call' = [kind |-> k, id |-> calls + 1, len |-> len, n |-> 0]
    /\ UNCHANGED <<what, state, job, at, lock, results, dirVars>>

\* A poll that finds nothing in flight starts the closure ...
Start ==
    /\ what = "file" /\ call # NoJob /\ state = "idle"
    /\ state' = "busy" /\ job' = call /\ at' = "pool"
    /\ UNCHANGED <<what, lock, call, calls, results, dirVars>>

\* ... or, for a standard stream, the boxed future that takes the mutex first.
StartStream ==
    /\ what \in Streams /\ call # NoJob /\ state = "idle"
    /\ state' = "busy" /\ job' = call /\ at' = "lock"
    /\ UNCHANGED <<what, lock, call, calls, results, dirVars>>

\* The mutex is acquired in a poll of the boxed future, then the pool.
LockTaken ==
    /\ at = "lock" /\ call # NoJob /\ lock = "nobody"
    /\ lock' = "this" /\ at' = "pool"
    /\ UNCHANGED <<what, state, job, call, calls, results, dirVars>>

\* Another handle of the stream, from its lock to the end of its boxed future.
OtherHandle ==
    /\ what \in Streams
    /\ \/ lock = "nobody" /\ lock' = "other"
       \/ lock = "other" /\ lock' = "nobody"
    /\ UNCHANGED <<what, state, job, at, call, calls, results, dirVars>>

\* The boxed future is over or gone, and the guard with it.
Unlock == lock' = IF lock = "this" THEN "nobody" ELSE lock

\* A read's result is copied into the buffer of the call, and must fit.
Answers ==
    /\ call' = NoJob
    /\ \/ /\ ~(job.kind = "read" /\ job.n > call.len)
          /\ answered' = answered \cup {<<call, job>>} /\ UNCHANGED overflowed
       \/ /\ job.kind = "read" /\ job.n > call.len
          /\ overflowed' = overflowed \cup {<<call, job>>} /\ UNCHANGED answered

\* Mutant: a leftover result answers a call of any class.
PollDoneAnyClass ==
    /\ what # "dir" /\ call # NoJob /\ state = "busy" /\ at = "done"
    /\ state' = "idle" /\ job' = NoJob /\ at' = "none" /\ Unlock
    /\ Answers
    /\ UNCHANGED <<what, calls, ran, dropped, dirVars>>

\* A poll that finds the closure finished: the file is back, and the result
\* answers the call, if it is of the call's class.
PollDone ==
    /\ what # "dir" /\ call # NoJob /\ state = "busy" /\ at = "done"
    /\ state' = "idle" /\ job' = NoJob /\ at' = "none" /\ Unlock
    /\ \/ Class(job.kind) = Class(call.kind) /\ Answers
       \/ Class(job.kind) # Class(call.kind) /\ UNCHANGED <<answered, overflowed, call>>
    /\ UNCHANGED <<what, calls, ran, dropped, dirVars>>

\* ... or panicked: the file went down with it.  Standard streams survive.
PollPanicked ==
    /\ what # "dir" /\ call # NoJob /\ state = "busy" /\ at = "panicked"
    /\ state' = IF what \in Streams THEN "idle" ELSE "poisoned"
    /\ job' = NoJob /\ at' = "none" /\ call' = NoJob /\ Unlock
    /\ UNCHANGED <<what, calls, results, dirVars>>

PollPoisoned ==
    /\ what # "dir" /\ call # NoJob /\ state = "poisoned"
    /\ call' = NoJob
    /\ UNCHANGED <<what, state, job, at, lock, calls, results, dirVars>>

\* The call's future is dropped at a Pending; what it started stays.
DropCall ==
    /\ call # NoJob
    /\ dropped' = dropped \cup {call.id}
    /\ call' = NoJob
    /\ UNCHANGED <<what, state, job, at, lock, calls, ran, answered, overflowed, dirVars>>

\* File::try_into_std: the file only when nothing is in flight.
TryIntoStd ==
    /\ what = "file" /\ call = NoJob /\ state = "idle"
    /\ state' = "taken"
    /\ UNCHANGED <<what, job, at, lock, call, calls, results, dirVars>>

\* A stream's handle goes, and with it the boxed future and its guard; a closure on
\* the pool goes on.
DropStream ==
    /\ what \in Streams /\ call = NoJob /\ state # "taken"
    /\ state' = "taken" /\ Unlock
    /\ at' = IF at = "pool" THEN "pool" ELSE "none"
    /\ UNCHANGED <<what, job, call, calls, results, dirVars>>

-----------------------------------------------------------------------------
(* The blocking pool.                                                        *)
\* read and write may do less than asked; a stream's write_all does not.
RunJob ==
    /\ at = "pool" /\ what # "dir"
    /\ ran' = Append(ran, job.id)
    /\ \E n \in 0..job.len :
         /\ what = "stdout" => n = job.len
         /\ job' = [job EXCEPT !.n = n]
    /\ at' = "done"
    /\ UNCHANGED <<what, state, lock, call, calls, answered, overflowed, dropped, dirVars>>

JobPanics ==
    /\ at = "pool"
    /\ at' = "panicked"
    /\ UNCHANGED <<what, state, job, lock, call, calls, results, dirVars>>

-----------------------------------------------------------------------------
(* ReadDir::poll_next_entry.                                                 *)
NextEntry ==
    /\ what = "dir" /\ call = NoJob /\ calls < MaxEntryCalls
    /\ calls' = calls + 1
    /\ call' = [kind |-> "next_entry", id |-> calls + 1]
    /\ UNCHANGED <<what, state, job, at, lock, results, dirVars>>

\* From the batch; else the next batch is dispatched; else the end.
DirIdle ==
    /\ what = "dir" /\ call # NoJob /\ state = "idle"
    /\ \/ /\ buf # <<>>
          /\ given' = Append(given, Head(buf)) /\ buf' = Tail(buf)
          /\ call' = NoJob
          /\ UNCHANGED <<state, job, at, reader>>
       \/ /\ buf = <<>> /\ reader # NoJob
          /\ state' = "busy" /\ at' = "pool" /\ job' = [from |-> Entries - reader, n |-> 0, more |-> TRUE, err |-> FALSE]
          /\ UNCHANGED <<call, buf, reader, given>>
       \/ /\ buf = <<>> /\ reader = NoJob
          /\ call' = NoJob
          /\ UNCHANGED <<state, job, at, buf, reader, given>>
    /\ UNCHANGED <<what, calls, lock, results, errors>>

\* next_chunk: up to CHUNK_SIZE entries, fewer at the end or at an error.
RunChunk ==
    LET most == IF reader < ChunkSize THEN reader ELSE ChunkSize IN
    /\ what = "dir" /\ at = "pool"
    /\ at' = "done"
    /\ \/ job' = [job EXCEPT !.n = most, !.more = (most = ChunkSize)]
       \/ \E n \in 0..most : n < ChunkSize /\ job' = [job EXCEPT !.n = n, !.more = FALSE, !.err = TRUE]
    /\ UNCHANGED <<what, state, call, calls, lock, results, dirVars>>

\* The batch is in; an error is reported before its entries.
DirDone ==
    /\ what = "dir" /\ call # NoJob /\ at = "done"
    /\ state' = "idle" /\ at' = "none" /\ job' = NoJob
    /\ buf' = [i \in 1..job.n |-> job.from + i]
    /\ reader' = IF job.more THEN reader - job.n ELSE NoJob
    /\ errors' = IF job.err THEN errors + 1 ELSE errors
    /\ call' = IF job.err THEN NoJob ELSE call
    /\ UNCHANGED <<what, calls, lock, results, given>>

DirPanicked ==
    /\ what = "dir" /\ call # NoJob /\ (at = "panicked" \/ state = "poisoned")
    /\ state' = "poisoned" /\ at' = "none" /\ job' = NoJob /\ call' = NoJob
    /\ UNCHANGED <<what, calls, lock, results, dirVars>>

Next ==
    \/ \E k \in FileKinds, len \in 0..MaxLen : Begin(k, len)
    \/ Start \/ StartStream \/ LockTaken \/ OtherHandle \/ DropStream
    \/ PollDone \/ PollPanicked \/ PollPoisoned \/ DropCall \/ TryIntoStd
    \/ RunJob \/ JobPanics
    \/ NextEntry \/ DirIdle \/ RunChunk \/ DirDone \/ DirPanicked

Spec == Init /\ [][Next]_vars

-----------------------------------------------------------------------------
\* One operation at a time, and each call the result of its own operation: closures
\* run in the order of the calls, each at most once; a call returns only after its
\* closure ran, or with the result of a dropped call of the same class, whose
\* closure it then stands in for, so that its own buffer is not written.  Only such
\* a leftover can be longer than the buffer: a write then reports more than it was
\* given, and a read panics.  A stream's mutex is held from before the closure until
\* the boxed future is over or dropped, and not after.  A directory's entries come
\* out in order, none twice and none skipped, however many calls are dropped.
FileCallsAnswered ==
    /\ \A i, j \in DOMAIN ran : i < j => ran[i] < ran[j]
    /\ \A a \in answered \cup overflowed :
         /\ a[2].id \in Range(ran) /\ Class(a[1].kind) = Class(a[2].kind)
         /\ a[1].id # a[2].id => a[2].id \in dropped /\ a[1].id \notin Range(ran)
         /\ a[2].n > a[1].len \/ a \in overflowed => a[2].id # a[1].id
    /\ \A a, b \in answered : a[2].id = b[2].id => a = b
    /\ lock = "this" <=> (what \in Streams /\ state = "busy" /\ at # "lock")
    /\ given \o buf = [i \in 1..(Len(given) + Len(buf)) |-> i]
=============================================================================
