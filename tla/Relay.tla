------------------------------- MODULE Relay --------------------------------
(***************************************************************************)
(* copy_bidirectional (io/async_io.rs) relaying between two duplex streams:*)
(* a client and a server on the far ends, each writing, shutting down,     *)
(* reading or leaving at any time, on other threads.  One poll of the      *)
(* relay drives the first direction and then the second, each until it is  *)
(* done, fails or meets something not ready; every poll_* call it makes is *)
(* a step of its own, since the far ends run between any two of them.      *)
(***************************************************************************)
EXTENDS DuplexPipe

CONSTANTS
    Task,       \* the waker of the relay's task
    MaxBytes,   \* bound: bytes each far end writes
    BufSize     \* a_to_b_buf_size, b_to_a_buf_size

VARIABLES
    pipe,       \* the four pipes: into the relay and out of it, each direction
    far,        \* what each far end may still do: "open", "shut", "gone"
    sent,       \* bytes each far end has written
    got,        \* bytes each far end has read
    eof,        \* the far ends that were told the end
    copy,       \* the two TransferStates
    turn,       \* the direction the poll is at; 0 when parked, 3 when returned
    awake,      \* the relay's task was woken
    result      \* what copy_bidirectional returned

vars == <<pipe, far, sent, got, eof, copy, turn, awake, result>>

\* Direction 1 carries the client's bytes to the server, direction 2 back.
Dirs == {1, 2}
Other(d) == 3 - d
Legs == {"in", "out"}

\* CopyBuffer::with_capacity: chunk is buf[pos..cap].
NewCopy == [state |-> "running", read_done |-> FALSE, chunk |-> <<>>, amt |-> 0]

Init ==
    /\ pipe = [d \in Dirs |-> [l \in Legs |-> NewPipe]]
    /\ far = [d \in Dirs |-> "open"]
    /\ sent = [d \in Dirs |-> 0] /\ got = [d \in Dirs |-> <<>>] /\ eof = {}
    /\ copy = [d \in Dirs |-> NewCopy]
    /\ turn = 1 /\ awake = FALSE /\ result = "none"

TypeOK ==
    /\ far \in [Dirs -> {"open", "shut", "gone"}]
    /\ sent \in [Dirs -> 0..MaxBytes] /\ eof \subseteq Dirs
    /\ \A d \in Dirs : /\ got[d] \in Seq(1..MaxBytes)
                       /\ copy[d].state \in {"running", "done", "failed"}
                       /\ Len(copy[d].chunk) <= BufSize
    /\ turn \in Dirs \cup {0, 3} /\ awake \in BOOLEAN
    /\ result \in {"none", "ok", "error"}

\* The task is parked.
Asleep == turn = 0

-----------------------------------------------------------------------------
\* The far ends.  The far end d writes direction d and reads the other one; it
\* stays busy, so only the relay's task ever parks a waker.
FarWrite(d) ==
    /\ far[d] = "open" /\ sent[d] < MaxBytes
    /\ WriteAnswer(pipe[d]["in"]) = "took"
    /\ pipe' = [pipe EXCEPT ![d]["in"] = PollWrite(@, <<sent[d] + 1>>, NoWaker)]
    /\ awake' = (awake \/ WriteWakes(pipe[d]["in"]) # {})
    /\ sent' = [sent EXCEPT ![d] = @ + 1]
    /\ UNCHANGED <<far, got, eof, copy, turn, result>>

FarShutdown(d) ==
    /\ far[d] = "open"
    /\ pipe' = [pipe EXCEPT ![d]["in"] = CloseWrite(@)]
    /\ awake' = (awake \/ pipe[d]["in"].read_waker = Task)
    /\ far' = [far EXCEPT ![d] = "shut"]
    /\ UNCHANGED <<sent, got, eof, copy, turn, result>>

FarRead(d) ==
    LET q == pipe[Other(d)]["out"] IN
    /\ far[d] # "gone" /\ d \notin eof
    /\ ReadAnswer(q) # "pending"
    /\ pipe' = [pipe EXCEPT ![Other(d)]["out"] = PollRead(@, 1, NoWaker)]
    /\ awake' = (awake \/ ReadWakes(q) # {})
    /\ got' = IF ReadAnswer(q) = "data" THEN [got EXCEPT ![d] = Append(@, Head(q.buf))] ELSE got
    /\ eof' = IF ReadAnswer(q) = "eof" THEN eof \cup {d} ELSE eof
    /\ UNCHANGED <<far, sent, copy, turn, result>>

\* The far end's stream is dropped (its two critical sections together: the
\* relay's own steps never look at both of its pipes at once).
FarDrop(d) ==
    /\ far[d] # "gone"
    /\ pipe' = [pipe EXCEPT ![d]["in"] = CloseWrite(@), ![Other(d)]["out"] = DropRead(@)]
    /\ awake' = (awake \/ Task \in {pipe[d]["in"].read_waker, pipe[Other(d)]["out"].write_waker})
    /\ far' = [far EXCEPT ![d] = "gone"]
    /\ UNCHANGED <<sent, got, eof, copy, turn, result>>

-----------------------------------------------------------------------------
\* The relay's task is polled again.
Poll == /\ Asleep /\ awake
        /\ turn' = 1 /\ awake' = FALSE
        /\ UNCHANGED <<pipe, far, sent, got, eof, copy, result>>

\* A direction's poll ends; after the second the closure of poll_fn looks at
\* the two results, c being the TransferStates they came from.
EndTurn(d, c) ==
    IF d = 1 THEN turn' = 2 /\ UNCHANGED result
    ELSE CASE \E e \in Dirs : c[e].state = "failed" -> turn' = 3 /\ result' = "error"
           [] \A e \in Dirs : c[e].state = "done"   -> turn' = 3 /\ result' = "ok"
           [] OTHER                                -> turn' = 0 /\ UNCHANGED result

\* TransferState::poll of a direction that is already Done.
SkipDone(d) ==
    /\ turn = d /\ copy[d].state # "running"
    /\ EndTurn(d, copy)
    /\ UNCHANGED <<pipe, far, sent, got, eof, copy, awake>>

\* poll_copy: the buffer is empty, so read more.
CopyRead(d) ==
    LET q == pipe[d]["in"] IN
    /\ turn = d /\ copy[d].state = "running"
    /\ copy[d].chunk = <<>> /\ ~copy[d].read_done
    /\ pipe' = [pipe EXCEPT ![d]["in"] = PollRead(@, BufSize, Task)]
    /\ copy' = CASE ReadAnswer(q) = "data" ->
                      [copy EXCEPT ![d].chunk = SubSeq(q.buf, 1, ReadCount(q, BufSize))]
                 [] ReadAnswer(q) = "eof" -> [copy EXCEPT ![d].read_done = TRUE]
                 [] OTHER -> copy
    /\ IF ReadAnswer(q) = "pending" THEN EndTurn(d, copy) ELSE UNCHANGED <<turn, result>>
    /\ UNCHANGED <<far, sent, got, eof, awake>>

\* poll_copy: write out the buffer.
CopyWrite(d) ==
    LET q == pipe[d]["out"]
        n == WriteCount(q, copy[d].chunk)
    IN  /\ turn = d /\ copy[d].state = "running" /\ copy[d].chunk # <<>>
        /\ pipe' = [pipe EXCEPT ![d]["out"] = PollWrite(@, copy[d].chunk, Task)]
        /\ copy' = CASE WriteAnswer(q) = "took" ->
                          [copy EXCEPT ![d].chunk = SubSeq(@, n + 1, Len(@)), ![d].amt = @ + n]
                     [] WriteAnswer(q) = "broken" -> [copy EXCEPT ![d].state = "failed"]
                     [] OTHER -> copy
        /\ IF WriteAnswer(q) = "took" THEN UNCHANGED <<turn, result>> ELSE EndTurn(d, copy')
        /\ UNCHANGED <<far, sent, got, eof, awake>>

\* poll_copy: the reader is at its end and all is written, so shut the writer.
CopyShutdown(d) ==
    /\ turn = d /\ copy[d].state = "running"
    /\ copy[d].chunk = <<>> /\ copy[d].read_done
    /\ pipe' = [pipe EXCEPT ![d]["out"] = CloseWrite(@)]
    /\ copy' = [copy EXCEPT ![d].state = "done"]
    /\ EndTurn(d, copy')
    /\ UNCHANGED <<far, sent, got, eof, awake>>

Next ==
    \/ Poll
    \/ \E d \in Dirs : \/ FarWrite(d) \/ FarShutdown(d) \/ FarRead(d) \/ FarDrop(d)
                       \/ SkipDone(d) \/ CopyRead(d) \/ CopyWrite(d) \/ CopyShutdown(d)

Spec == Init /\ [][Next]_vars

-----------------------------------------------------------------------------
\* What direction d has carried, in order: what the far end has read, what
\* waits for it, what the relay holds and what waits for the relay.
Carried(d) == got[Other(d)] \o pipe[d]["out"].buf \o copy[d].chunk \o pipe[d]["in"].buf

\* Where a running direction is stuck.
Blocked(d) ==
    IF copy[d].chunk # <<>>
      THEN WriteAnswer(pipe[d]["out"]) = "pending" /\ pipe[d]["out"].write_waker = Task
      ELSE ReadAnswer(pipe[d]["in"]) = "pending" /\ pipe[d]["in"].read_waker = Task

\* copy_bidirectional loses, repeats and reorders nothing, whatever the far
\* ends do meanwhile; it passes an end of stream on only when everything sent
\* before it has been passed on, and does so without ending the opposite
\* direction ("Each direction shuts down its writer independently"); it says Ok
\* only when both directions reached their end; and its task sleeps only while
\* every unfinished direction is blocked with the task's waker in the pipe that
\* blocks it.
RelayFaithful ==
    /\ \A d \in Dirs : Carried(d) = [i \in 1..sent[d] |-> i]
    /\ \A d \in Dirs : Other(d) \in eof => far[d] # "open" /\ Len(got[Other(d)]) = sent[d]
    /\ result = "ok" => \A d \in Dirs : copy[d].amt = sent[d] /\ far[d] # "open"
    /\ (Asleep /\ ~awake) => \A d \in Dirs : copy[d].state = "running" => Blocked(d)
=============================================================================
