----------------------------- MODULE DuplexPipe -----------------------------
(***************************************************************************)
(* One direction of an in-memory stream (io/duplex.rs, io/simplex.rs): a   *)
(* bounded byte queue with a flag for each end that has gone and one waker *)
(* slot for each end.  Every poll_* call and every destructor of the two   *)
(* stream types is one critical section of the pipe's lock, so each is a   *)
(* function from the pipe before to the pipe after and the wakers it fires.*)
(***************************************************************************)
EXTENDS Naturals, Sequences, FiniteSets, SequencesExt

CONSTANTS
    capacity,   \* max_buf_size
    NoWaker     \* an empty waker slot

\* Pipe::new
NewPipe == [buf |-> <<>>, write_half_closed |-> FALSE, read_half_dropped |-> FALSE,
            read_waker |-> NoWaker, write_waker |-> NoWaker]

\* What poll_read answers: "eof" is the successful read of nothing.
ReadAnswer(p) ==
    IF p.buf # <<>> THEN "data" ELSE IF p.write_half_closed THEN "eof" ELSE "pending"

\* What poll_write answers.
WriteAnswer(p) ==
    IF p.read_half_dropped THEN "broken" ELSE IF Len(p.buf) >= capacity THEN "pending" ELSE "took"

\* A poll_read takes as many bytes as the caller has room for.
ReadCount(p, room) == IF room < Len(p.buf) THEN room ELSE Len(p.buf)

\* A poll_write takes as many bytes as the pipe has room for.
WriteCount(p, bytes) ==
    IF capacity - Len(p.buf) < Len(bytes) THEN capacity - Len(p.buf) ELSE Len(bytes)

\* The pipe after a poll_read by the task w into room bytes.
PollRead(p, room, w) ==
    CASE ReadAnswer(p) = "data" ->
            [p EXCEPT !.buf = SubSeq(@, ReadCount(p, room) + 1, Len(@)), !.write_waker = NoWaker]
      [] ReadAnswer(p) = "eof" -> p
      [] OTHER -> [p EXCEPT !.read_waker = w]

\* The task that poll_read wakes.
ReadWakes(p) == IF ReadAnswer(p) = "data" THEN {p.write_waker} \ {NoWaker} ELSE {}

\* The pipe after a poll_write of bytes by the task w.
PollWrite(p, bytes, w) ==
    CASE WriteAnswer(p) = "took" ->
            [p EXCEPT !.buf = @ \o SubSeq(bytes, 1, WriteCount(p, bytes)), !.read_waker = NoWaker]
      [] WriteAnswer(p) = "broken" -> p
      [] OTHER -> [p EXCEPT !.write_waker = w]

\* The task that poll_write wakes.
WriteWakes(p) == IF WriteAnswer(p) = "took" THEN {p.read_waker} \ {NoWaker} ELSE {}

\* poll_shutdown, and the destructor of the writing end: the reader sees the end.
CloseWrite(p) == [p EXCEPT !.write_half_closed = TRUE, !.read_waker = NoWaker]

\* The destructor of the reading end: the writer fails from now on.
DropRead(p) == [p EXCEPT !.read_half_dropped = TRUE, !.write_waker = NoWaker]

\* The destructor of one end of a simplex pair sets both flags and wakes both.
DropSimplex(p) == DropRead(CloseWrite(p))
=============================================================================
