------------------------------ MODULE Buffered ------------------------------
(***************************************************************************)
(* The buffering adaptors of io/buffered.rs and the loops of io/async_io.rs*)
(* that drive them.  A source (two readers chained, and limited by a take) *)
(* is wrapped in a BufReader, a sink in a BufWriter; one task at a time    *)
(* runs copy, copy_buf or next_line over them, may drop the call at any    *)
(* Pending and start another.  The source and the sink answer each poll as *)
(* they like: some bytes, an error, nothing accepted, or Pending, which    *)
(* leaves everything as it is.  Bytes are numbered in the order the source *)
(* holds them.                                                             *)
(***************************************************************************)
EXTENDS Naturals, Sequences, FiniteSets, SequencesExt

CONSTANTS
    First, Total,   \* the first reader holds bytes 1..First, the second the rest
    Limit,          \* AsyncReadExt::take
    Newlines,       \* the bytes that are '\n'
    ReadCap,        \* BufReader's capacity
    WriteCap,       \* BufWriter's capacity
    ChunkSize,      \* the local buffer of copy
    MaxCalls        \* bound: calls made

VARIABLES
    taken,      \* bytes the source has given out
    first_done, \* Chain::first_done
    limit,      \* Take::limit
    rbuf,       \* BufReader: buf[pos..cap]
    wbuf, written,  \* BufWriter
    sink,       \* bytes the inner writer has accepted
    call,       \* the call in progress: "none", "copy", "copy_buf", "line"
    pc,         \* its step: "read", "write", "flush", "end"
    chunk,      \* copy: bytes read and not yet written; line: read_until's bytes
    pos,        \* copy_buf: bytes of rbuf already written
    amt,        \* bytes the call has copied
    start,      \* bytes in the sink or on the way to it when the call began
    lines,      \* the lines handed out
    lost,       \* bytes that a dropped or failed call had taken and not passed on
    repeated,   \* a copy_buf ended between writing and consuming
    result,     \* the last call's result
    calls       \* calls made so far

source == <<taken, first_done, limit>>
writer == <<wbuf, written, sink>>
vars == <<source, rbuf, writer, call, pc, chunk, pos, amt, start, lines, lost, repeated, result, calls>>

Numbers(a, b) == [i \in 1..(b - a) |-> a + i]
Least(a, b) == IF a < b THEN a ELSE b

Init ==
    /\ taken = 0 /\ first_done = FALSE /\ limit = Limit
    /\ rbuf = <<>> /\ wbuf = <<>> /\ written = 0 /\ sink = <<>>
    /\ call = "none" /\ pc = "read" /\ chunk = <<>> /\ pos = 0 /\ amt = 0 /\ start = 0
    /\ lines = <<>> /\ lost = {} /\ repeated = FALSE /\ result = "none" /\ calls = 0

TypeOK ==
    /\ taken \in 0..Total /\ first_done \in BOOLEAN /\ limit \in 0..Limit
    /\ rbuf \in Seq(1..Total) /\ Len(rbuf) <= ReadCap /\ pos <= Len(rbuf)
    /\ wbuf \in Seq(1..Total) /\ Len(wbuf) <= WriteCap /\ written <= Len(wbuf)
    /\ call \in {"none", "copy", "copy_buf", "line"} /\ pc \in {"read", "write", "flush", "end"}
    /\ lost \subseteq 1..Total /\ repeated \in BOOLEAN /\ calls \in 0..MaxCalls
    /\ result \in {"none", "ok", "error", "dropped"}

-----------------------------------------------------------------------------
(* The source.  Take::poll_read answers "the end" at limit 0 without asking; *)
(* Chain::poll_read moves to the second reader in the call that sees the     *)
(* first one's end.                                                          *)
Available == IF ~first_done /\ taken < First THEN First - taken ELSE Total - taken
Ended == limit = 0 \/ taken = Total

\* A poll_read into room bytes gives out n of them (0: the end).
Gives(room, n) ==
    /\ IF Ended THEN n = 0 ELSE n \in 1..Least(Least(limit, room), Available)
    /\ taken' = taken + n
    /\ limit' = limit - n
    /\ first_done' = (first_done \/ (limit > 0 /\ taken >= First))

-----------------------------------------------------------------------------
(* Calls begin and end.                                                      *)
OnTheWay == sink \o SubSeq(wbuf, written + 1, Len(wbuf))

Begin(c) ==
    /\ call = "none" /\ calls < MaxCalls
    /\ call' = c /\ calls' = calls + 1
    /\ pc' = "read" /\ chunk' = <<>> /\ pos' = 0 /\ amt' = 0 /\ result' = "none"
    /\ start' = Len(OnTheWay)
    /\ UNCHANGED <<source, rbuf, writer, lines, lost, repeated>>

\* What a call has taken and not passed on goes with it: copy's local buffer,
\* read_line's local Vec.  A copy_buf has consumed nothing it has not written.
Abandon(r, held) ==
    /\ call' = "none" /\ pc' = "read" /\ pos' = 0 /\ amt' = 0 /\ start' = 0
    /\ chunk' = <<>>
    /\ lost' = lost \cup Range(held)
    /\ repeated' = (repeated \/ pos > 0)
    /\ result' = r

\* The future is dropped at a Pending.
Drop ==
    /\ call # "none"
    /\ Abandon("dropped", chunk)
    /\ UNCHANGED <<source, rbuf, writer, lines, calls>>

\* The source fails.
ReadFails ==
    /\ call # "none" /\ pc = "read" /\ rbuf = <<>>
    /\ Abandon("error", chunk)
    /\ UNCHANGED <<source, rbuf, writer, lines, calls>>

-----------------------------------------------------------------------------
(* BufReader.                                                                *)
\* poll_fill_buf on an empty buffer.
FillBuf ==
    /\ call # "none" /\ pc = "read" /\ rbuf = <<>>
    /\ ~(call = "copy" /\ ChunkSize >= ReadCap)
    /\ \E n \in 0..ReadCap :
          /\ Gives(ReadCap, n)
          /\ rbuf' = Numbers(taken, taken + n)
          \* an empty buffer after the fill is the end of the stream
          /\ pc' = IF n > 0 THEN "read" ELSE IF call = "line" THEN "end" ELSE "flush"
    /\ UNCHANGED <<writer, call, chunk, pos, amt, start, lines, lost, repeated, result, calls>>

\* poll_read with nothing buffered and a caller's buffer at least as large as
\* its own bypasses the buffer.
ReadThrough ==
    /\ call = "copy" /\ pc = "read" /\ rbuf = <<>> /\ ChunkSize >= ReadCap
    /\ \E n \in 0..ChunkSize :
          /\ Gives(ChunkSize, n)
          /\ chunk' = Numbers(taken, taken + n)
          /\ pc' = IF n = 0 THEN "flush" ELSE "write"
    /\ UNCHANGED <<rbuf, writer, call, pos, amt, start, lines, lost, repeated, result, calls>>

\* poll_read from the buffer, and consume.
ReadBuffered ==
    LET n == Least(Len(rbuf), ChunkSize) IN
    /\ call = "copy" /\ pc = "read" /\ rbuf # <<>>
    /\ chunk' = SubSeq(rbuf, 1, n)
    /\ rbuf' = SubSeq(rbuf, n + 1, Len(rbuf))
    /\ pc' = "write"
    /\ UNCHANGED <<source, writer, call, pos, amt, start, lines, lost, repeated, result, calls>>

-----------------------------------------------------------------------------
(* next_line: read_until appends up to the delimiter and consumes as much;   *)
(* read_line hands the bytes out if they are UTF-8, and next_line strips.    *)
ScanLine ==
    LET hits == {i \in DOMAIN rbuf : rbuf[i] \in Newlines}
        used == IF hits = {} THEN Len(rbuf) ELSE CHOOSE i \in hits : \A j \in hits : i <= j
        text == chunk \o SubSeq(rbuf, 1, used)
        whole == hits # {} \/ pc = "end"
    IN  /\ call = "line" /\ (rbuf # <<>> \/ pc = "end")
        /\ rbuf' = SubSeq(rbuf, used + 1, Len(rbuf))
        /\ \/ /\ ~whole
              /\ chunk' = text
              /\ UNCHANGED <<call, pc, start, lines, lost, repeated, result, pos, amt>>
           \/ /\ whole
              /\ lines' = IF text = <<>> THEN lines ELSE Append(lines, text)
              /\ call' = "none" /\ pc' = "read" /\ result' = "ok" /\ chunk' = <<>> /\ start' = 0
              /\ UNCHANGED <<pos, amt, lost, repeated>>
           \/ /\ whole /\ text # <<>>       \* not UTF-8: InvalidData
              /\ Abandon("error", text)
              /\ UNCHANGED lines
        /\ UNCHANGED <<source, writer, calls>>

-----------------------------------------------------------------------------
(* BufWriter.                                                                *)
\* The bytes the call wants written, and whether they wait for room.
Offered == IF call = "copy" THEN chunk ELSE SubSeq(rbuf, pos + 1, Len(rbuf))
Writing == (call = "copy" /\ pc = "write") \/ (call = "copy_buf" /\ pc = "read" /\ rbuf # <<>>)
MustFlush == (Writing /\ Len(wbuf) + Len(Offered) > WriteCap) \/ pc = "flush"

\* poll_write accepted n bytes: write_all and copy_buf move on.
Accepted(n) ==
    LET done == n = Len(Offered) IN
    /\ amt' = amt + n
    /\ IF call = "copy"
         THEN /\ chunk' = SubSeq(chunk, n + 1, Len(chunk))
              /\ pc' = IF done THEN "read" ELSE "write"
              /\ UNCHANGED <<rbuf, pos>>
         ELSE /\ rbuf' = IF done THEN <<>> ELSE rbuf
              /\ pos' = IF done THEN 0 ELSE pos + n
              /\ UNCHANGED <<chunk, pc>>

\* poll_flush_buf, one write of the inner writer: once all is out the buffer
\* is cleared.
FlushStep ==
    /\ MustFlush /\ wbuf # <<>>
    /\ \E n \in 1..(Len(wbuf) - written) :
          LET all == written + n = Len(wbuf) IN
          /\ sink' = sink \o SubSeq(wbuf, written + 1, written + n)
          /\ wbuf' = IF all THEN <<>> ELSE wbuf
          /\ written' = IF all THEN 0 ELSE written + n
    /\ UNCHANGED <<source, rbuf, call, pc, chunk, pos, amt, start, lines, lost, repeated, result, calls>>

\* Mutant: what the inner writer has taken stays in the buffer.
FlushFailsUndrained ==
    /\ MustFlush /\ wbuf # <<>>
    /\ written' = 0
    /\ Abandon("error", chunk)
    /\ UNCHANGED <<source, rbuf, wbuf, sink, lines, calls>>

\* poll_flush_buf, the inner writer fails or accepts nothing: what it has taken
\* is drained from the buffer, and the call fails.
FlushFails ==
    /\ MustFlush /\ wbuf # <<>>
    /\ wbuf' = SubSeq(wbuf, written + 1, Len(wbuf))
    /\ written' = 0
    /\ Abandon("error", chunk)
    /\ UNCHANGED <<source, rbuf, sink, lines, calls>>

\* poll_write into the buffer.
WriteBuffered ==
    /\ Writing /\ (MustFlush => wbuf = <<>>) /\ Len(Offered) < WriteCap
    /\ wbuf' = wbuf \o Offered
    /\ Accepted(Len(Offered))
    /\ UNCHANGED <<source, written, sink, call, start, lines, lost, repeated, result, calls>>

\* poll_write of at least as much as the buffer holds bypasses it.
WriteThrough ==
    /\ Writing /\ (MustFlush => wbuf = <<>>) /\ Len(Offered) >= WriteCap
    /\ \E n \in 1..Len(Offered) :
          /\ sink' = sink \o SubSeq(Offered, 1, n)
          /\ Accepted(n)
    /\ UNCHANGED <<source, wbuf, written, call, start, lines, lost, repeated, result, calls>>

\* ... and the inner writer fails, or accepts nothing, which write_all and
\* copy_buf make an error; or its own poll_flush fails.
WriteFails ==
    /\ \/ Writing /\ (MustFlush => wbuf = <<>>) /\ Len(Offered) >= WriteCap
       \/ pc = "flush" /\ wbuf = <<>>
    /\ Abandon("error", chunk)
    /\ UNCHANGED <<source, rbuf, writer, lines, calls>>

\* The copy has flushed and returns its count.
CopyDone ==
    /\ pc = "flush" /\ wbuf = <<>>
    /\ call' = "none" /\ pc' = "read" /\ result' = "ok"
    /\ UNCHANGED <<source, rbuf, writer, chunk, pos, amt, start, lines, lost, repeated, calls>>

Next ==
    \/ \E c \in {"copy", "copy_buf", "line"} : Begin(c)
    \/ Drop \/ ReadFails \/ FillBuf \/ ReadThrough \/ ReadBuffered \/ ScanLine
    \/ FlushStep \/ FlushFails \/ WriteBuffered \/ WriteThrough \/ WriteFails \/ CopyDone

Spec == Init /\ [][Next]_vars

-----------------------------------------------------------------------------
\* Every byte the source gave out is, in order, in the sink, in the BufWriter,
\* held by the copy, or in the BufReader, unless a line or a dropped or failed
\* call has it: the adaptors and loops of io/buffered.rs and io/async_io.rs lose
\* and reorder nothing through partial writes, errors, bypassed buffers and
\* dropped calls, and repeat nothing except for a copy_buf that ends before it
\* consumes what it has written.  A copy that says Ok has its count in the sink, flushed.  A line
\* holds one newline at most, at its end.
StreamsFaithful ==
    LET gone == lost \cup UNION {Range(lines[i]) : i \in DOMAIN lines}
                     \cup (IF call = "line" THEN Range(chunk) ELSE {})
        held == IF call = "line" THEN <<>> ELSE chunk
    IN  /\ ~repeated =>
              OnTheWay \o held \o SubSeq(rbuf, pos + 1, Len(rbuf))
                = SelectSeq(Numbers(0, taken), LAMBDA b : b \notin gone)
        /\ (result = "ok" /\ pos = 0 /\ amt > 0) =>
              /\ wbuf = <<>> /\ Len(sink) = start + amt
              /\ Ended
        /\ \A i \in DOMAIN lines : \A j \in 1..(Len(lines[i]) - 1) : lines[i][j] \notin Newlines
=============================================================================
