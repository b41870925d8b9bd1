--------------------------- MODULE UringFsProofs ----------------------------
(***************************************************************************)
(* The cancellation safety of io/uring_fs.rs, for any number of operations *)
(* and descriptors and any size of the submission queue.                   *)
(***************************************************************************)
EXTENDS UringFs, TLAPS

(* No file is named like an operation or a number, nor is other code's file. *)
NamesDiffer == NoFile \notin Ops \cup Fds \cup {Foreign} /\ Foreign \notin Ops

Files == Ops \cup {Foreign, NoFile}

OpRecord ==
    [kind : {"unused", "open", "io", "close"}, fd : Fds \cup {NoFile},
     meant : Files, hit : Files,
     stage : {"none", "queued", "kernel", "cq", "done", "lost"}, slab : BOOLEAN,
     buf : {"none", "state", "caller", "freed"}, result : Fds \cup {NoFile},
     waker : BOOLEAN,
     fut : {"none", "idle", "install", "recheck", "parked", "dropped", "finished"}]

OpStates == [Ops -> OpRecord]

Types ==
    /\ op \in OpStates /\ table \in [Fds -> Files]
    /\ file \in [Fds -> {"none", "live", "closing"}]
    /\ pending \in Seq(Ops) /\ batch \in Seq(Ops) /\ sq \in Seq(Ops)
    /\ cq \subseteq Ops /\ held \subseteq Ops
    /\ lpc = "wake" => cur \in Ops

In(o, q) == \E i \in DOMAIN q : q[i] = o
Distinct(q) == \A i, j \in DOMAIN q : q[i] = q[j] => i = j

\* Every queued entry stands in one place, and only what the kernel has finished
\* is a completion.
Queues ==
    /\ Distinct(pending) /\ Distinct(batch) /\ Distinct(sq)
    /\ \A o \in Ops :
         /\ In(o, pending) \/ In(o, batch) \/ In(o, sq) => op[o].stage = "queued"
         /\ ~(In(o, pending) /\ In(o, batch)) /\ ~(In(o, pending) /\ In(o, sq))
         /\ ~(In(o, batch) /\ In(o, sq))
         /\ o \in cq \/ o \in held => op[o].stage = "cq"
         /\ ~(o \in cq /\ o \in held)

InFlight(o) == op[o].stage \in {"queued", "kernel", "cq"}

\* What the stage of an operation says of its OpState and its future.
StageShape(o) ==
    /\ op[o].kind = "unused" => op[o].stage = "none" /\ op[o].fut = "none"
    /\ InFlight(o) => /\ op[o].slab /\ op[o].buf = "state"
                      /\ op[o].fut \notin {"none", "finished"}
    /\ op[o].result \in Fds => op[o].kind = "open" /\ op[o].stage \in {"cq", "done"}

\* The number an operation was called with, and the file it means.
NumberShape(o) ==
    /\ op[o].kind = "open" => op[o].fd = NoFile /\ op[o].meant = NoFile
    /\ op[o].kind \in {"io", "close"} => op[o].fd \in Fds /\ op[o].meant \in Ops

Closing(o) == op[o].kind = "close" /\ op[o].stage \in {"queued", "kernel"}

\* A borrowed file is open, a close has the file to itself, and the number of an
\* open stays the operation's until its caller has it.
NumberKept(o) ==
    /\ op[o].kind = "io" /\ Alive(o) =>
         file[op[o].fd] = "live" /\ table[op[o].fd] = op[o].meant
    /\ Closing(o) => file[op[o].fd] = "closing" /\ table[op[o].fd] = op[o].meant
    /\ \A p \in Ops : Closing(o) /\ Closing(p) /\ op[o].fd = op[p].fd => o = p
    /\ op[o].result \in Fds /\ Alive(o) =>
         table[op[o].result] = o /\ file[op[o].result] = "none"

HitsMeant(o) ==
    op[o].stage = "kernel" /\ (op[o].fut # "dropped" \/ op[o].kind = "close") =>
        op[o].hit = op[o].meant

FilesOpen == \A f \in Fds : file[f] # "none" => table[f] \in Ops

IInv ==
    /\ Types /\ Queues /\ FilesOpen
    /\ \A o \in Ops : StageShape(o) /\ NumberShape(o) /\ NumberKept(o) /\ HitsMeant(o)

-----------------------------------------------------------------------------
(* Types.                                                                    *)

\* A field at a time, an update of one operation is typed.
LEMMA Updates ==
    ASSUME NEW g \in OpStates, NEW o \in Ops
    PROVE  /\ \A v \in {"none", "idle", "install", "recheck", "parked", "dropped", "finished"} :
                [g EXCEPT ![o].fut = v] \in OpStates
           /\ \A v \in {"none", "queued", "kernel", "cq", "done", "lost"} :
                [g EXCEPT ![o].stage = v] \in OpStates
           /\ \A v \in {"none", "state", "caller", "freed"} : [g EXCEPT ![o].buf = v] \in OpStates
           /\ \A v \in BOOLEAN : [g EXCEPT ![o].waker = v] \in OpStates
           /\ \A v \in BOOLEAN : [g EXCEPT ![o].slab = v] \in OpStates
           /\ \A v \in Fds \cup {NoFile} : [g EXCEPT ![o].result = v] \in OpStates
<1>1. g[o] \in OpRecord
  BY Zenon DEF OpStates
<1>2. ASSUME NEW v \in {"none", "idle", "install", "recheck", "parked", "dropped", "finished"}
      PROVE  [g EXCEPT ![o].fut = v] \in OpStates
  BY <1>1, ZenonT(40) DEF OpStates, OpRecord
<1>3. ASSUME NEW v \in {"none", "queued", "kernel", "cq", "done", "lost"}
      PROVE  [g EXCEPT ![o].stage = v] \in OpStates
  BY <1>1, Zenon DEF OpStates, OpRecord
<1>4. ASSUME NEW v \in {"none", "state", "caller", "freed"}
      PROVE  [g EXCEPT ![o].buf = v] \in OpStates
  BY <1>1, Zenon DEF OpStates, OpRecord
<1>5. ASSUME NEW v \in BOOLEAN PROVE [g EXCEPT ![o].waker = v] \in OpStates
  BY <1>1, Zenon DEF OpStates, OpRecord
<1>6. ASSUME NEW v \in BOOLEAN PROVE [g EXCEPT ![o].slab = v] \in OpStates
  BY <1>1, Zenon DEF OpStates, OpRecord
<1>7. ASSUME NEW v \in Fds \cup {NoFile} PROVE [g EXCEPT ![o].result = v] \in OpStates
  BY <1>1, Zenon DEF OpStates, OpRecord
<1> QED BY <1>2, <1>3, <1>4, <1>5, <1>6, <1>7, Zenon

\* The record submit makes.
LEMMA NewEntry ==
    ASSUME Types, NEW o \in Ops, NEW k \in {"open", "io", "close"}, NEW f \in Fds \cup {NoFile},
           Submits(o, k, f)
    PROVE  /\ op' \in OpStates /\ pending' \in Seq(Ops)
           /\ \A p \in Ops \ {o} : op'[p] = op[p]
           /\ op'[o].kind = k /\ op'[o].fd = f /\ op'[o].stage = "queued" /\ op'[o].slab
           /\ op'[o].buf = "state" /\ op'[o].fut = "idle" /\ op'[o].result = NoFile
           /\ op'[o].meant = IF f \in Fds THEN table[f] ELSE NoFile
<1>1. op \in OpStates /\ pending' \in Seq(Ops) /\ op' = [op EXCEPT ![o] = Entry(k, f)]
  BY DEF Types, Submits
<1>2. Entry(k, f) \in OpRecord
  BY Zenon DEF Types, Entry, OpRecord, Files
<1>3. LET e == Entry(k, f)
      IN  /\ e.kind = k /\ e.fd = f /\ e.stage = "queued" /\ e.slab /\ e.buf = "state"
          /\ e.fut = "idle" /\ e.result = NoFile
          /\ e.meant = IF f \in Fds THEN table[f] ELSE NoFile
  BY Zenon DEF Entry
<1> QED BY <1>1, <1>2, <1>3, Zenon DEF OpStates

\* An operation keeps its kind, its number and the file it means.
Fixed(o) == op'[o].kind = op[o].kind /\ op'[o].fd = op[o].fd /\ op'[o].meant = op[o].meant

\* Only o changes, and keeps what Fixed says.
Moves(o) ==
    /\ op' \in OpStates /\ Fixed(o)
    /\ \A p \in Ops \ {o} : op'[p] = op[p]

\* take_result, on the OpState.
LEMMA TakeMoves ==
    ASSUME Types, NEW o \in Ops, Take(o)
    PROVE  /\ Moves(o) /\ op'[o].fut = "finished" /\ op'[o].buf = "caller"
           /\ op'[o].stage = op[o].stage /\ op'[o].slab = op[o].slab
           /\ op'[o].hit = op[o].hit /\ op'[o].result = op[o].result
<1> DEFINE g1 == [op EXCEPT ![o].fut = "finished"]
           g2 == [g1 EXCEPT ![o].buf = "caller"]
           g3 == [g2 EXCEPT ![o].waker = FALSE]
<1>1. op \in OpStates
  BY Zenon DEF Types
<1>2. g1 \in OpStates
  BY <1>1, Updates, Zenon
<1>3. g2 \in OpStates
  BY <1>2, Updates, Zenon
<1>4. g3 \in OpStates
  BY <1>3, Updates, Zenon
<1>5. op' = g3
  BY Zenon DEF Take
<1>6. op' \in OpStates
  BY <1>4, <1>5, Zenon
<1> QED BY <1>1, <1>6 DEF Take, Moves, Fixed, OpStates, OpRecord

\* The entries of q go to the kernel.
LEMMA SubmittedMoves ==
    ASSUME Types, NEW q \in Seq(Ops), op' = Submitted(q)
    PROVE  /\ op' \in OpStates
           /\ \A p \in Ops : ~In(p, q) => op'[p] = op[p]
           /\ \A p \in Ops : In(p, q) =>
                /\ Fixed(p) /\ op'[p].stage = "kernel"
                /\ op'[p].hit = IF op[p].fd \in Fds THEN table[op[p].fd] ELSE NoFile
                /\ op'[p].slab = op[p].slab /\ op'[p].buf = op[p].buf
                /\ op'[p].result = op[p].result /\ op'[p].fut = op[p].fut
<1> DEFINE h(p) == IF op[p].fd \in Fds THEN table[op[p].fd] ELSE NoFile
           r(p) == [op[p] EXCEPT !.stage = "kernel"]
<1>1. \A p \in Ops : op[p] \in OpRecord
  BY Zenon DEF Types, OpStates
<1>2. \A p \in Ops : h(p) \in Files
  BY Zenon DEF Types, Files
<1>3. \A p \in Ops : r(p) \in OpRecord
  BY <1>1 DEF OpRecord
<1>4. ASSUME NEW p \in Ops PROVE [r(p) EXCEPT !.hit = h(p)] \in OpRecord
  <2>1. r(p) \in OpRecord /\ h(p) \in Files
    BY <1>2, <1>3, Zenon
  <2> HIDE DEF r, h
  <2> QED BY <2>1, Zenon DEF OpRecord
<1>5. op' = [p \in Ops |-> IF In(p, q) THEN [r(p) EXCEPT !.hit = h(p)] ELSE op[p]]
  BY Zenon DEF Submitted, In
<1>6. op' \in OpStates
  <2> HIDE DEF r, h
  <2> QED BY <1>1, <1>4, <1>5, Zenon DEF OpStates
<1>7. \A p \in Ops : ~In(p, q) => op'[p] = op[p]
  BY <1>5, Zenon
<1>8. ASSUME NEW p \in Ops, In(p, q)
      PROVE  /\ Fixed(p) /\ op'[p].stage = "kernel" /\ op'[p].hit = h(p)
             /\ op'[p].slab = op[p].slab /\ op'[p].buf = op[p].buf
             /\ op'[p].result = op[p].result /\ op'[p].fut = op[p].fut
  <2>1. op'[p] = [r(p) EXCEPT !.hit = h(p)]
    BY <1>5, <1>8, Zenon
  <2> HIDE DEF h
  <2> QED BY <1>1, <2>1, Zenon DEF Fixed, OpRecord
<1> QED BY <1>6, <1>7, <1>8, Zenon

\* A completion is handled: the OpState leaves the slab.
LEMMA CompleteMoves ==
    ASSUME Types, NEW o \in Ops, NEW b \in {"none", "state", "caller", "freed"},
           op' = [op EXCEPT ![o].slab = FALSE, ![o].stage = "done", ![o].buf = b]
    PROVE  /\ Moves(o) /\ op'[o].stage = "done" /\ op'[o].fut = op[o].fut
           /\ op'[o].result = op[o].result
<1> DEFINE g1 == [op EXCEPT ![o].slab = FALSE]
           g2 == [g1 EXCEPT ![o].stage = "done"]
           g3 == [g2 EXCEPT ![o].buf = b]
<1>1. op \in OpStates
  BY Zenon DEF Types
<1>2. g1 \in OpStates
  BY <1>1, Updates, Zenon
<1>3. g2 \in OpStates
  BY <1>2, Updates, Zenon
<1>4. g3 \in OpStates
  BY <1>3, Updates, Zenon
<1>5. op' = g3
  BY Zenon
<1>6. op' \in OpStates
  BY <1>4, <1>5, Zenon
<1> QED BY <1>1, <1>6 DEF Moves, Fixed, OpStates, OpRecord

\* The future of an operation changes ...
LEMMA FutureAlone ==
    ASSUME Types, NEW o \in Ops,
           NEW v \in {"none", "idle", "install", "recheck", "parked", "dropped", "finished"},
           op' = [op EXCEPT ![o].fut = v]
    PROVE  /\ Moves(o) /\ op'[o].fut = v /\ op'[o].buf = op[o].buf
           /\ op'[o].stage = op[o].stage /\ op'[o].slab = op[o].slab
           /\ op'[o].hit = op[o].hit /\ op'[o].result = op[o].result
<1>1. op \in OpStates
  BY Zenon DEF Types
<1>2. op' \in OpStates
  BY <1>1, Updates, Zenon
<1> QED BY <1>1, <1>2 DEF Moves, Fixed, OpStates, OpRecord

\* ... and another field with it.
LEMMA FutureMoves ==
    ASSUME Types, NEW o \in Ops, NEW w \in BOOLEAN, NEW b \in {"none", "state", "caller", "freed"},
           NEW v \in {"none", "idle", "install", "recheck", "parked", "dropped", "finished"},
           \/ op' = [op EXCEPT ![o].fut = v, ![o].waker = w] /\ b = op[o].buf
           \/ op' = [op EXCEPT ![o].waker = w, ![o].fut = v] /\ b = op[o].buf
           \/ op' = [op EXCEPT ![o].fut = v, ![o].buf = b]
    PROVE  /\ Moves(o) /\ op'[o].fut = v /\ op'[o].buf = b
           /\ op'[o].stage = op[o].stage /\ op'[o].slab = op[o].slab
           /\ op'[o].hit = op[o].hit /\ op'[o].result = op[o].result
<1> DEFINE g1 == [op EXCEPT ![o].fut = v]
           g2 == [op EXCEPT ![o].waker = w]
<1>1. op \in OpStates
  BY Zenon DEF Types
<1>2. g1 \in OpStates /\ g2 \in OpStates
  BY <1>1, Updates, Zenon
<1>3. /\ [g1 EXCEPT ![o].waker = w] \in OpStates /\ [g2 EXCEPT ![o].fut = v] \in OpStates
      /\ [g1 EXCEPT ![o].buf = b] \in OpStates
  BY <1>2, Updates, Zenon
<1>4. op' \in OpStates
  BY <1>2, <1>3, Zenon
<1> QED BY <1>1, <1>4 DEF Moves, Fixed, OpStates, OpRecord

\* The kernel finishes o; r is its result from then on.
LEMMA FinishMoves ==
    ASSUME Types, NEW o \in Ops, NEW r \in Fds \cup {NoFile},
           \/ op' = [op EXCEPT ![o].stage = "cq"] /\ r = op[o].result
           \/ op' = [op EXCEPT ![o].stage = "cq", ![o].result = r]
    PROVE  /\ Moves(o) /\ op'[o].stage = "cq" /\ op'[o].result = r
           /\ op'[o].slab = op[o].slab /\ op'[o].buf = op[o].buf /\ op'[o].fut = op[o].fut
<1> DEFINE g == [op EXCEPT ![o].stage = "cq"]
<1>1. op \in OpStates
  BY Zenon DEF Types
<1>2. g \in OpStates
  BY <1>1, Updates, Zenon
<1>3. [g EXCEPT ![o].result = r] \in OpStates
  BY <1>2, Updates, Zenon
<1>4. op' \in OpStates
  BY <1>2, <1>3, Zenon
<1> QED BY <1>1, <1>4 DEF Moves, Fixed, OpStates, OpRecord

-----------------------------------------------------------------------------
(* Sequences.                                                                *)

\* What a push does to the members of a queue.
LEMMA PushFacts ==
    ASSUME NEW q \in Seq(Ops), NEW o \in Ops
    PROVE  /\ Append(q, o) \in Seq(Ops)
           /\ \A p \in Ops : In(p, Append(q, o)) <=> In(p, q) \/ p = o
           /\ Distinct(q) /\ ~In(o, q) => Distinct(Append(q, o))
<1>1. /\ Append(q, o) \in Seq(Ops) /\ Len(Append(q, o)) = Len(q) + 1
      /\ \A i \in 1..Len(q) : Append(q, o)[i] = q[i]
      /\ Append(q, o)[Len(q) + 1] = o
  OBVIOUS
<1>2. DOMAIN q = 1..Len(q) /\ DOMAIN Append(q, o) = 1..(Len(q) + 1) /\ Len(q) \in Nat
  BY <1>1
<1> DEFINE s == Append(q, o)
<1> HIDE DEF s
<1>3. \A p \in Ops : In(p, s) <=> In(p, q) \/ p = o
  BY <1>1, <1>2 DEF In, s
<1>4. Distinct(q) /\ ~In(o, q) => Distinct(s)
  BY <1>1, <1>2 DEF In, Distinct, s
<1> QED BY <1>1, <1>3, <1>4, Zenon DEF s

\* What a pop does to them.
LEMMA PopFacts ==
    ASSUME NEW q \in Seq(Ops), q # <<>>
    PROVE  /\ Head(q) \in Ops /\ Tail(q) \in Seq(Ops) /\ In(Head(q), q)
           /\ \A p \in Ops : In(p, q) <=> p = Head(q) \/ In(p, Tail(q))
           /\ Distinct(q) => Distinct(Tail(q)) /\ ~In(Head(q), Tail(q))
<1>1. /\ Head(q) \in Ops /\ Tail(q) \in Seq(Ops) /\ Len(q) \in Nat /\ Len(q) > 0
      /\ Len(Tail(q)) = Len(q) - 1 /\ Head(q) = q[1]
      /\ \A i \in 1..(Len(q) - 1) : Tail(q)[i] = q[i + 1]
  OBVIOUS
<1>2. DOMAIN q = 1..Len(q) /\ DOMAIN Tail(q) = 1..(Len(q) - 1)
  BY <1>1
<1> DEFINE s == Tail(q)
           h == Head(q)
<1> HIDE DEF s, h
<1>3. \A i \in 1..Len(q) : i = 1 \/ (i - 1 \in 1..(Len(q) - 1) /\ q[i] = s[i - 1])
  BY <1>1 DEF s
<1>4. ASSUME NEW p \in Ops PROVE In(p, q) <=> p = h \/ In(p, s)
  <2>1. In(p, q) => p = h \/ In(p, s)
    BY <1>1, <1>2, <1>3, Zenon DEF In, s, h
  <2>2. p = h => In(p, q)
    BY <1>1, <1>2 DEF In, h
  <2>3. In(p, s) => In(p, q)
    BY <1>1, <1>2 DEF In, s
  <2> QED BY <2>1, <2>2, <2>3, Zenon
<1>5. Distinct(q) => Distinct(s) /\ ~In(h, s)
  BY <1>1, <1>2, SMTT(30) DEF In, Distinct, s, h
<1> QED BY <1>1, <1>4, <1>5, Zenon DEF s, h

\* Queues left alone keep their members.
LEMMA SameQueues ==
    ASSUME UNCHANGED <<pending, batch, sq>>
    PROVE  /\ \A p \in Ops : /\ In(p, pending)' <=> In(p, pending)
                             /\ In(p, batch)' <=> In(p, batch)
                             /\ In(p, sq)' <=> In(p, sq)
           /\ Distinct(pending)' <=> Distinct(pending)
           /\ Distinct(batch)' <=> Distinct(batch)
           /\ Distinct(sq)' <=> Distinct(sq)
<1>1. pending' = pending /\ batch' = batch /\ sq' = sq
  BY Zenon
<1> QED BY <1>1, Zenon DEF In, Distinct

-----------------------------------------------------------------------------
(* The steps.                                                                *)

\* A step of a future that takes no result: its fut changes, and its buffer only
\* when the operation is not in flight.
LEMMA FutureStep ==
    ASSUME IInv, NEW o \in Ops, Moves(o),
           op'[o].stage = op[o].stage, op'[o].slab = op[o].slab,
           op'[o].hit = op[o].hit, op'[o].result = op[o].result,
           InFlight(o) => op'[o].buf = op[o].buf,
           \/ op'[o].fut = op[o].fut
           \/ Alive(o) /\ op'[o].fut \in {"idle", "install", "recheck", "parked", "dropped"},
           UNCHANGED <<table, file, pending, batch, sq, cq, held>>,
           (lpc = "wake" => cur \in Ops)'
    PROVE  IInv'
<1>1. Types'
  BY Zenon DEF IInv, Types, Moves
<1>2. Queues'
  BY DEF IInv, Queues, Moves, In, Distinct
<1>3. FilesOpen'
  BY Zenon DEF IInv, FilesOpen
<1>4. ASSUME NEW p \in Ops
      PROVE  StageShape(p)' /\ NumberShape(p)' /\ NumberKept(p)' /\ HitsMeant(p)'
  <2>1. StageShape(p) /\ NumberShape(p) /\ NumberKept(p) /\ HitsMeant(p)
    BY Zenon DEF IInv
  <2>2. StageShape(p)' /\ NumberShape(p)' /\ HitsMeant(p)'
    BY <2>1 DEF StageShape, NumberShape, HitsMeant, InFlight, Moves, Fixed, Alive
  <2>3. \A q \in Ops : /\ Closing(q)' <=> Closing(q)
                       /\ op'[q].fd = op[q].fd /\ op'[q].meant = op[q].meant
                       /\ op'[q].kind = op[q].kind /\ op'[q].result = op[q].result
                       /\ Alive(q)' => Alive(q)
    BY Zenon DEF Closing, Moves, Fixed, Alive
  <2>4. NumberKept(p)'
    BY <2>1, <2>3, Zenon DEF NumberKept
  <2> QED BY <2>2, <2>4, Zenon
<1> QED BY <1>1, <1>2, <1>3, <1>4, Zenon DEF IInv

\* A future takes its result: an open's caller has the number from now on.
LEMMA TakeStep ==
    ASSUME IInv, NEW o \in Ops, Alive(o), op[o].stage = "done", Take(o),
           UNCHANGED <<table, pending, batch, sq, cq, lpc, held, cur>>
    PROVE  IInv'
<1>a. /\ Moves(o) /\ op'[o].fut = "finished" /\ op'[o].stage = op[o].stage
      /\ op'[o].slab = op[o].slab /\ op'[o].hit = op[o].hit /\ op'[o].result = op[o].result
  BY TakeMoves, Zenon DEF IInv
<1>b. \/ file' = file
      \/ /\ op[o].result \in Fds /\ file[op[o].result] = "none" /\ table[op[o].result] = o
         /\ file' = [file EXCEPT ![op[o].result] = "live"]
  BY Zenon DEF Take, IInv, NumberKept
<1>1. Types'
  BY <1>a, <1>b, Zenon DEF IInv, Types, Moves
<1>2. Queues'
  BY <1>a DEF IInv, Queues, Moves, In, Distinct
<1>3. FilesOpen'
  BY <1>b, Zenon DEF IInv, Types, FilesOpen
<1>4. ASSUME NEW p \in Ops
      PROVE  StageShape(p)' /\ NumberShape(p)' /\ NumberKept(p)' /\ HitsMeant(p)'
  <2>1. StageShape(p) /\ NumberShape(p) /\ NumberKept(p) /\ HitsMeant(p)
    BY Zenon DEF IInv
  <2>2. StageShape(p)' /\ NumberShape(p)' /\ HitsMeant(p)'
    BY <1>a, <2>1 DEF StageShape, NumberShape, HitsMeant, InFlight, Moves, Fixed, Alive
  <2>3. \A q \in Ops : /\ Closing(q)' <=> Closing(q)
                       /\ op'[q].fd = op[q].fd /\ op'[q].meant = op[q].meant
                       /\ op'[q].kind = op[q].kind /\ op'[q].result = op[q].result
                       /\ Alive(q)' => Alive(q) /\ q # o
    BY <1>a, Zenon DEF Closing, Moves, Fixed, Alive
  <2>4. \A f \in Fds : \/ file'[f] = file[f]
                       \/ file[f] = "none" /\ file'[f] = "live" /\ table[f] = o
    BY <1>b, Zenon DEF IInv, Types
  <2>5. op[p].kind \in {"io", "close"} => op[p].fd \in Fds
    BY <2>1, Zenon DEF NumberShape
  <2>6. NumberKept(p)'
    BY <2>1, <2>3, <2>4, <2>5 DEF NumberKept, Closing
  <2> QED BY <2>2, <2>6, Zenon
<1> QED BY <1>1, <1>2, <1>3, <1>4, Zenon DEF IInv

\* submit: a new entry at the end of pending, for the file under its number.
LEMMA SubmitStep ==
    ASSUME IInv, NamesDiffer, NEW o \in Ops, NEW k \in {"open", "io", "close"},
           NEW f \in Fds \cup {NoFile}, Submits(o, k, f),
           \/ k = "open" /\ f = NoFile /\ file' = file
           \/ k = "io" /\ f \in Fds /\ file[f] = "live" /\ file' = file
           \/ /\ k = "close" /\ f \in Fds /\ file[f] = "live" /\ ~Busy(f)
              /\ file' = [file EXCEPT ![f] = "closing"],
           UNCHANGED <<table, batch, sq, cq, lpc, held, cur>>
    PROVE  IInv'
<1>a. /\ op' \in OpStates /\ pending' \in Seq(Ops)
      /\ \A p \in Ops \ {o} : op'[p] = op[p]
      /\ op'[o].kind = k /\ op'[o].fd = f /\ op'[o].stage = "queued" /\ op'[o].slab
      /\ op'[o].buf = "state" /\ op'[o].fut = "idle" /\ op'[o].result = NoFile
      /\ op'[o].meant = IF f \in Fds THEN table[f] ELSE NoFile
  BY NewEntry, Zenon DEF IInv
<1>b. op[o].kind = "unused" /\ op[o].stage = "none"
  BY Zenon DEF Submits, IInv, StageShape
<1>c. NoFile \notin Fds
  BY Zenon DEF NamesDiffer
<1>1. Types'
  BY <1>a, Zenon DEF IInv, Types
<1>2. Queues'
  <2>1. pending' = Append(pending, o) /\ pending \in Seq(Ops)
    BY Zenon DEF Submits, IInv, Types
  <2>2. ~In(o, pending) /\ ~In(o, batch) /\ ~In(o, sq) /\ o \notin cq /\ o \notin held
    BY <1>b, Zenon DEF IInv, Queues
  <2>3. /\ \A p \in Ops : In(p, pending') <=> In(p, pending) \/ p = o
        /\ Distinct(pending')
    BY <2>1, <2>2, PushFacts, Zenon DEF IInv, Queues
  <2>4. \A p \in Ops : (In(p, batch') <=> In(p, batch)) /\ (In(p, sq') <=> In(p, sq))
    BY Zenon DEF In
  <2>5. Distinct(batch') /\ Distinct(sq')
    BY Zenon DEF IInv, Queues, Distinct
  <2>6. ASSUME NEW p \in Ops
        PROVE  /\ In(p, pending') \/ In(p, batch') \/ In(p, sq') => op'[p].stage = "queued"
               /\ ~(In(p, pending') /\ In(p, batch')) /\ ~(In(p, pending') /\ In(p, sq'))
               /\ ~(In(p, batch') /\ In(p, sq'))
               /\ p \in cq' \/ p \in held' => op'[p].stage = "cq"
               /\ ~(p \in cq' /\ p \in held')
    BY <1>a, <2>2, <2>3, <2>4, Zenon DEF IInv, Queues
  <2> QED BY <2>3, <2>5, <2>6, Zenon DEF Queues, In, Distinct
<1>3. FilesOpen'
  BY Zenon DEF IInv, Types, FilesOpen
<1>4. ASSUME NEW p \in Ops
      PROVE  StageShape(p)' /\ NumberShape(p)' /\ NumberKept(p)' /\ HitsMeant(p)'
  <2>1. \A q \in Ops : StageShape(q) /\ NumberShape(q) /\ NumberKept(q) /\ HitsMeant(q)
    BY Zenon DEF IInv
  <2>2. file[f] = "live" /\ f \in Fds => table[f] \in Ops
    BY Zenon DEF IInv, FilesOpen
  <2>3. StageShape(p)' /\ NumberShape(p)' /\ HitsMeant(p)'
    BY <1>a, <1>c, <2>1, <2>2 DEF StageShape, NumberShape, HitsMeant, InFlight
  <2>4. CASE p = o
    <3>1. op'[p].kind = "io" => file'[f] = "live" /\ table'[f] = op'[p].meant
      BY <1>a, <2>4, Zenon
    <3>2. op'[p].kind = "close" => file'[f] = "closing" /\ table'[f] = op'[p].meant
      BY <1>a, <2>4 DEF IInv, Types
    <3>3. ASSUME NEW q \in Ops, Closing(p)', Closing(q)', op'[p].fd = op'[q].fd PROVE p = q
      BY <1>a, <2>1, <2>4, <3>3 DEF Closing, NumberKept
    <3>4. op'[p].result \notin Fds /\ op'[p].fd = f
      BY <1>a, <1>c, <2>4, Zenon
    <3>5. Closing(p)' => op'[p].kind = "close"
      BY Zenon DEF Closing
    <3> QED BY <2>3, <3>1, <3>2, <3>3, <3>4, <3>5, Zenon DEF NumberKept
  <2>5. CASE p # o
    <3>1. op'[p] = op[p]
      BY <1>a, <2>5, Zenon
    <3>2. op[p].kind = "io" /\ Alive(p) => op[p].fd \in Fds /\ file'[op[p].fd] = "live"
      BY <2>1, ZenonT(40) DEF NumberShape, NumberKept, Busy, IInv, Types
    <3>3. Closing(p) => op[p].fd \in Fds /\ file'[op[p].fd] = "closing"
      BY <2>1 DEF NumberShape, NumberKept, Closing, IInv, Types
    <3>4. ASSUME NEW q \in Ops, Closing(p), Closing(q)', op[p].fd = op'[q].fd PROVE p = q
      BY <1>a, <2>1, <2>5, <3>4 DEF Closing, NumberKept
    <3>5. op[p].result \in Fds /\ Alive(p) => file'[op[p].result] = "none"
      BY <2>1 DEF NumberKept, IInv, Types
    <3>6. (Alive(p)' <=> Alive(p)) /\ (Closing(p)' <=> Closing(p))
      BY <3>1, Zenon DEF Alive, Closing
    <3>7. NumberKept(p) /\ table' = table
      BY <2>1, Zenon
    <3> QED BY <2>3, <3>1, <3>2, <3>3, <3>4, <3>5, <3>6, <3>7, Zenon DEF NumberKept
  <2> QED BY <2>3, <2>4, <2>5, Zenon
<1> QED BY <1>1, <1>2, <1>3, <1>4, Zenon DEF IInv

\* A completion is handled: the operation is done, its number as it was.
LEMMA CompleteStep ==
    ASSUME IInv, Complete
    PROVE  IInv'
<1>a. PICK o \in held :
        /\ op' = [op EXCEPT ![o].slab = FALSE, ![o].stage = "done",
                            ![o].buf = IF op[o].fut = "dropped" THEN "freed" ELSE op[o].buf]
        /\ held' = held \ {o} /\ cur' = o
  BY Zenon DEF Complete
<1>b. o \in Ops /\ op[o].stage = "cq" /\ o \notin cq
  BY Zenon DEF IInv, Types, Queues
<1>c. UNCHANGED <<table, file, pending, batch, sq, cq>>
  BY Zenon DEF Complete
<1>d. op[o].buf = "state"
  BY <1>b, Zenon DEF IInv, StageShape, InFlight
<1>e. /\ Moves(o) /\ op'[o].stage = "done" /\ op'[o].fut = op[o].fut
      /\ op'[o].result = op[o].result
  BY <1>a, <1>b, <1>d, CompleteMoves, Zenon DEF IInv
<1>1. Types'
  BY <1>a, <1>b, <1>c, <1>e, Zenon DEF IInv, Types, Moves
<1>2. Queues'
  BY <1>a, <1>b, <1>c, <1>e, SameQueues, Zenon DEF IInv, Queues, Moves
<1>3. FilesOpen'
  BY <1>c, Zenon DEF IInv, FilesOpen
<1>4. ASSUME NEW p \in Ops
      PROVE  StageShape(p)' /\ NumberShape(p)' /\ NumberKept(p)' /\ HitsMeant(p)'
  <2>1. StageShape(p) /\ NumberShape(p) /\ NumberKept(p) /\ HitsMeant(p)
    BY Zenon DEF IInv
  <2>2. StageShape(p)' /\ NumberShape(p)' /\ HitsMeant(p)'
    BY <1>b, <1>e, <2>1,
       ZenonT(40) DEF StageShape, NumberShape, HitsMeant, InFlight, Moves, Fixed
  <2>3. \A q \in Ops : /\ Closing(q)' <=> Closing(q)
                       /\ op'[q].fd = op[q].fd /\ op'[q].meant = op[q].meant
                       /\ op'[q].kind = op[q].kind /\ op'[q].result = op[q].result
                       /\ Alive(q)' <=> Alive(q)
    BY <1>b, <1>e, Zenon DEF Closing, Moves, Fixed, Alive
  <2>4. NumberKept(p)'
    BY <1>c, <2>1, <2>3, Zenon DEF NumberKept
  <2> QED BY <2>2, <2>4, Zenon
<1> QED BY <1>1, <1>2, <1>3, <1>4, Zenon DEF IInv

\* The kernel takes the queue, and every number in it is resolved: it finds the
\* file an awaited operation means.  b is what is left of the batch and q what is
\* queued again.
LEMMA SubmittedStep ==
    ASSUME IInv, NamesDiffer, NEW b \in Seq(Ops), NEW q \in Seq(Ops),
           op' = Submitted(sq), batch' = b, sq' = q,
           Distinct(b), Distinct(q),
           \A p \in Ops : In(p, b) \/ In(p, q) => In(p, batch),
           \A p \in Ops : ~(In(p, b) /\ In(p, q)),
           UNCHANGED <<table, file, pending, cq, held, lpc, cur>>
    PROVE  IInv'
<1>a. /\ op' \in OpStates
      /\ \A p \in Ops : ~In(p, sq) => op'[p] = op[p]
      /\ \A p \in Ops : In(p, sq) =>
           /\ Fixed(p) /\ op'[p].stage = "kernel"
           /\ op'[p].hit = IF op[p].fd \in Fds THEN table[op[p].fd] ELSE NoFile
           /\ op'[p].slab = op[p].slab /\ op'[p].buf = op[p].buf
           /\ op'[p].result = op[p].result /\ op'[p].fut = op[p].fut
  BY SubmittedMoves, Zenon DEF IInv, Types
<1>b. \A p \in Ops : In(p, sq) => op[p].stage = "queued" /\ ~In(p, pending) /\ ~In(p, batch)
  BY Zenon DEF IInv, Queues
<1>1. Types'
  BY <1>a, Zenon DEF IInv, Types
<1>2. Queues'
  <2>1. \A p \in Ops : /\ In(p, pending)' <=> In(p, pending)
                       /\ In(p, batch)' <=> In(p, b)
                       /\ In(p, sq)' <=> In(p, q)
    BY Zenon DEF In
  <2>2. Distinct(pending)' /\ Distinct(batch)' /\ Distinct(sq)'
    BY Zenon DEF IInv, Queues, Distinct
  <2>3. ASSUME NEW p \in Ops
        PROVE  /\ In(p, pending)' \/ In(p, batch)' \/ In(p, sq)' => op'[p].stage = "queued"
               /\ ~(In(p, pending)' /\ In(p, batch)') /\ ~(In(p, pending)' /\ In(p, sq)')
               /\ ~(In(p, batch)' /\ In(p, sq)')
               /\ p \in cq' \/ p \in held' => op'[p].stage = "cq"
               /\ ~(p \in cq' /\ p \in held')
    BY <1>a, <1>b, <2>1, Zenon DEF IInv, Queues
  <2> QED BY <2>2, <2>3, Zenon DEF Queues
<1>3. FilesOpen'
  BY Zenon DEF IInv, FilesOpen
<1>4. ASSUME NEW p \in Ops
      PROVE  StageShape(p)' /\ NumberShape(p)' /\ NumberKept(p)' /\ HitsMeant(p)'
  <2>1. StageShape(p) /\ NumberShape(p) /\ NumberKept(p) /\ HitsMeant(p)
    BY Zenon DEF IInv
  <2>2. StageShape(p)' /\ NumberShape(p)'
    BY <1>a, <1>b, <2>1, Zenon DEF StageShape, NumberShape, InFlight, Fixed
  <2>3. \A r \in Ops : /\ Closing(r)' <=> Closing(r)
                       /\ op'[r].fd = op[r].fd /\ op'[r].meant = op[r].meant
                       /\ op'[r].kind = op[r].kind /\ op'[r].result = op[r].result
                       /\ Alive(r)' <=> Alive(r)
    BY <1>a, <1>b, Zenon DEF Closing, Fixed, Alive
  <2>4. NumberKept(p)'
    BY <2>1, <2>3, Zenon DEF NumberKept
  <2>5. CASE In(p, sq)
    <3>1. op[p].stage = "queued" /\ op[p].kind # "unused" /\ op[p].fut \notin {"none", "finished"}
      BY <1>b, <2>1, <2>5, Zenon DEF StageShape, InFlight
    <3>2. op[p].fut # "dropped" => Alive(p)
      BY <3>1, Zenon DEF Alive, IInv, Types, OpStates, OpRecord
    <3>3. op[p].kind \in {"open", "io", "close"}
      BY <3>1, Zenon DEF IInv, Types, OpStates, OpRecord
    <3>4. CASE op[p].kind = "open"
      BY <1>a, <2>1, <2>2, <2>4, <2>5, <3>4,
         Zenon DEF NumberShape, HitsMeant, NamesDiffer, Fixed
    <3>5. CASE op[p].kind = "io"
      BY <1>a, <2>1, <2>2, <2>4, <2>5, <3>2, <3>5,
         Zenon DEF NumberShape, NumberKept, HitsMeant, Fixed
    <3>6. CASE op[p].kind = "close"
      BY <1>a, <2>1, <2>2, <2>4, <2>5, <3>1, <3>6, Zenon DEF NumberShape, NumberKept, HitsMeant, Closing, Fixed
    <3> QED BY <3>3, <3>4, <3>5, <3>6, Zenon
  <2>6. CASE ~In(p, sq)
    BY <1>a, <2>1, <2>2, <2>4, <2>6, Zenon DEF HitsMeant
  <2> QED BY <2>5, <2>6, Zenon
<1> QED BY <1>1, <1>2, <1>3, <1>4, Zenon DEF IInv

\* The kernel finishes o: an open takes a free number, a close frees its own, and no number in use moves.
LEMMA FinishStep ==
    ASSUME IInv, NamesDiffer, NEW o \in Ops, Finish(o)
    PROVE  IInv'
<1>a. PICK r \in Fds \cup {NoFile} :
        /\ Moves(o) /\ op'[o].stage = "cq" /\ op'[o].result = r
        /\ op'[o].slab = op[o].slab /\ op'[o].buf = op[o].buf /\ op'[o].fut = op[o].fut
        /\ \/ /\ op[o].kind = "open" /\ r \in Fds /\ table[r] = NoFile
              /\ table' = [table EXCEPT ![r] = o] /\ file' = file
           \/ /\ op[o].kind # "close" /\ r = op[o].result /\ UNCHANGED <<table, file>>
           \/ /\ op[o].kind = "close" /\ r = op[o].result
              /\ table' = [table EXCEPT ![op[o].fd] = NoFile]
              /\ file' = [file EXCEPT ![op[o].fd] = "none"]
  <2>1. op[o].result \in Fds \cup {NoFile}
    BY Zenon DEF IInv, Types, OpStates, OpRecord
  <2>2. CASE \E f \in Fds : /\ op[o].kind = "open" /\ table[f] = NoFile
                            /\ table' = [table EXCEPT ![f] = o]
                            /\ op' = [op EXCEPT ![o].stage = "cq", ![o].result = f]
                            /\ file' = file
    BY <2>2, FinishMoves, Zenon DEF IInv
  <2>3. CASE /\ op[o].kind \in {"open", "io"} /\ op' = [op EXCEPT ![o].stage = "cq"]
             /\ UNCHANGED <<table, file>>
    BY <2>1, <2>3, FinishMoves, Zenon DEF IInv
  <2>4. CASE /\ op[o].kind = "close" /\ op' = [op EXCEPT ![o].stage = "cq"]
             /\ table' = [table EXCEPT ![op[o].fd] = NoFile]
             /\ file' = [file EXCEPT ![op[o].fd] = "none"]
    BY <2>1, <2>4, FinishMoves, Zenon DEF IInv
  <2> QED BY <2>2, <2>3, <2>4, Zenon DEF Finish
<1>b. op[o].stage = "kernel" /\ cq' = cq \cup {o} /\ UNCHANGED <<pending, batch, sq, lpc, held, cur>>
  BY Zenon DEF Finish
<1>c. \A p \in Ops : StageShape(p) /\ NumberShape(p) /\ NumberKept(p) /\ HitsMeant(p)
  BY Zenon DEF IInv
<1>d. op[o].result \notin Fds
  BY <1>b, <1>c, Zenon DEF StageShape
<1>e. op[o].kind = "close" => Closing(o) /\ op[o].fd \in Fds /\ file[op[o].fd] = "closing"
  BY <1>b, <1>c, Zenon DEF Closing, NumberShape, NumberKept
<1>f. NoFile \notin Ops
  BY Zenon DEF NamesDiffer
<1>1. Types'
  <2>1. table' \in [Fds -> Files]
    BY <1>a, Zenon DEF IInv, Types, Files
  <2>2. file' \in [Fds -> {"none", "live", "closing"}]
    BY <1>a, Zenon DEF IInv, Types
  <2> QED BY <1>a, <1>b, <2>1, <2>2, Zenon DEF IInv, Types, Moves
<1>2. Queues'
  BY <1>a, <1>b, SameQueues, Zenon DEF IInv, Queues, Moves
<1>3. \A f \in Fds : \/ table'[f] = table[f] /\ file'[f] = file[f]
                     \/ /\ table[f] = NoFile /\ table'[f] = o /\ file'[f] = file[f]
                        /\ op'[o].result = f
                     \/ /\ Closing(o) /\ f = op[o].fd /\ file[f] = "closing"
                        /\ file'[f] = "none"
  BY <1>a, <1>e, Zenon DEF IInv, Types
<1>4. FilesOpen'
  BY <1>3, <1>f, Zenon DEF IInv, FilesOpen
<1>5. ASSUME NEW p \in Ops
      PROVE  StageShape(p)' /\ NumberShape(p)' /\ NumberKept(p)' /\ HitsMeant(p)'
  <2>1. StageShape(p)' /\ NumberShape(p)' /\ HitsMeant(p)'
    <3>1. CASE p = o
      <4>1. op'[o].result \in Fds => op[o].kind = "open"
        BY <1>a, <1>d, Zenon
      <4>2. /\ Fixed(o) /\ op'[o].stage = "cq" /\ op'[o].slab = op[o].slab
            /\ op'[o].buf = op[o].buf /\ op'[o].fut = op[o].fut
        BY <1>a, Zenon DEF Moves
      <4>3. StageShape(o) /\ NumberShape(o) /\ InFlight(o)
        BY <1>b, <1>c, Zenon DEF InFlight
      <4> QED BY <3>1, <4>1, <4>2, <4>3,
                 Zenon DEF StageShape, NumberShape, HitsMeant, InFlight, Fixed
    <3>2. CASE p # o
      <4>1. op'[p] = op[p]
        BY <1>a, <3>2, Zenon DEF Moves
      <4> QED BY <1>c, <4>1, ZenonT(40) DEF StageShape, NumberShape, HitsMeant, InFlight
    <3> QED BY <3>1, <3>2, Zenon
  <2>2. \A q \in Ops : /\ Closing(q)' <=> Closing(q) /\ q # o
                       /\ op'[q].fd = op[q].fd /\ op'[q].meant = op[q].meant
                       /\ op'[q].kind = op[q].kind
                       /\ Alive(q)' <=> Alive(q)
    BY <1>a, Zenon DEF Closing, Moves, Fixed, Alive
  <2>3. op[p].kind \in {"io", "close"} => op[p].fd \in Fds /\ op[p].meant \in Ops
    BY <1>c, Zenon DEF NumberShape
  <2>4. (op[p].kind = "io" /\ Alive(p) =>
            file[op[p].fd] = "live" /\ table[op[p].fd] = op[p].meant)'
    BY <1>3, <1>c, <1>f, <2>2, <2>3 DEF NumberKept
  <2>5. Closing(p)' => file'[op[p].fd] = "closing" /\ table'[op[p].fd] = op[p].meant
    <3>1. SUFFICES ASSUME Closing(p)'
                   PROVE  file'[op[p].fd] = "closing" /\ table'[op[p].fd] = op[p].meant
      BY Zenon
    <3>2. Closing(p) /\ p # o
      BY <2>2, <3>1, Zenon
    <3>3. op[p].fd \in Fds /\ op[p].meant \in Ops
      BY <2>3, <3>2, Zenon DEF Closing
    <3>4. Closing(o) => op[p].fd # op[o].fd
      BY <1>c, <3>2, Zenon DEF NumberKept
    <3>5. file[op[p].fd] = "closing" /\ table[op[p].fd] = op[p].meant
      BY <1>c, <3>2, Zenon DEF NumberKept
    <3> QED BY <1>3, <1>f, <3>3, <3>4, <3>5, Zenon
  <2>6. \A q \in Ops : Closing(p)' /\ Closing(q)' /\ op'[p].fd = op'[q].fd => p = q
    BY <1>c, <2>2 DEF NumberKept
  <2>7. op'[p].result \in Fds /\ Alive(p)' =>
            table'[op'[p].result] = p /\ file'[op'[p].result] = "none"
    <3>1. CASE p = o
      <4>1. SUFFICES ASSUME op'[o].result \in Fds
                     PROVE  table'[op'[o].result] = o /\ file'[op'[o].result] = "none"
        BY <3>1, Zenon
      <4>2. /\ r = op'[o].result /\ r \in Fds /\ table[r] = NoFile
            /\ table' = [table EXCEPT ![r] = o] /\ file' = file
        BY <1>a, <1>d, <4>1, Zenon
      <4> QED BY <1>f, <4>2, Zenon DEF IInv, Types, FilesOpen
    <3>2. CASE p # o
      <4>1. op'[p].result = op[p].result
        BY <1>a, <3>2, Zenon DEF Moves
      <4>2. SUFFICES ASSUME op[p].result \in Fds, Alive(p)
                     PROVE  table'[op[p].result] = p /\ file'[op[p].result] = "none"
        BY <2>2, <4>1, Zenon
      <4>3. table[op[p].result] = p /\ file[op[p].result] = "none"
        BY <1>c, <4>2, Zenon DEF NumberKept
      <4> QED BY <1>3, <1>f, <4>2, <4>3, Zenon
    <3> QED BY <3>1, <3>2, Zenon
  <2>8. NumberKept(p)'
    BY <2>2, <2>4, <2>5, <2>6, <2>7, Zenon DEF NumberKept
  <2> QED BY <2>1, <2>8, Zenon
<1> QED BY <1>1, <1>2, <1>4, <1>5, Zenon DEF IInv

\* A full queue that cannot be submitted: the entry is dropped.
LEMMA LostStep ==
    ASSUME IInv, batch # <<>>, batch' = Tail(batch),
           op' = [op EXCEPT ![Head(batch)].stage = "lost"],
           UNCHANGED <<table, file, pending, sq, cq, lpc, held, cur>>
    PROVE  IInv'
<1> DEFINE o == Head(batch)
<1>a. /\ o \in Ops /\ Tail(batch) \in Seq(Ops)
      /\ \A p \in Ops : In(p, batch) <=> p = o \/ In(p, Tail(batch))
      /\ Distinct(Tail(batch)) /\ ~In(o, Tail(batch))
  BY PopFacts, Zenon DEF IInv, Types, Queues
<1> HIDE DEF o
<1>b. op[o].stage = "queued" /\ ~In(o, pending) /\ ~In(o, sq)
  BY <1>a, Zenon DEF IInv, Queues
<1>c. op \in OpStates /\ op' = [op EXCEPT ![o].stage = "lost"]
  BY Zenon DEF IInv, Types, o
<1>d. op' \in OpStates
  <2> DEFINE g == [op EXCEPT ![o].stage = "lost"]
  <2>1. g \in OpStates
    BY <1>a, <1>c, Updates, Zenon
  <2>2. op' = g
    BY <1>c, Zenon
  <2> QED BY <2>1, <2>2, Zenon
<1>e. /\ Moves(o) /\ op'[o].stage = "lost" /\ op'[o].result = op[o].result
      /\ op'[o].fut = op[o].fut
  BY <1>a, <1>c, <1>d DEF Moves, Fixed, OpStates, OpRecord
<1>1. Types'
  BY <1>a, <1>d, Zenon DEF IInv, Types
<1>2. Queues'
  <2>1. \A p \in Ops : /\ In(p, pending)' <=> In(p, pending)
                       /\ In(p, batch)' <=> In(p, batch) /\ p # o
                       /\ In(p, sq)' <=> In(p, sq)
    BY <1>a, Zenon DEF In
  <2>2. Distinct(pending)' /\ Distinct(batch)' /\ Distinct(sq)'
    BY <1>a, Zenon DEF IInv, Queues, Distinct
  <2>3. ASSUME NEW p \in Ops
        PROVE  /\ In(p, pending)' \/ In(p, batch)' \/ In(p, sq)' => op'[p].stage = "queued"
               /\ ~(In(p, pending)' /\ In(p, batch)') /\ ~(In(p, pending)' /\ In(p, sq)')
               /\ ~(In(p, batch)' /\ In(p, sq)')
               /\ p \in cq' \/ p \in held' => op'[p].stage = "cq"
               /\ ~(p \in cq' /\ p \in held')
    BY <1>b, <1>e, <2>1, Zenon DEF IInv, Queues, Moves
  <2> QED BY <2>2, <2>3, Zenon DEF Queues
<1>3. FilesOpen'
  BY Zenon DEF IInv, FilesOpen
<1>4. ASSUME NEW p \in Ops
      PROVE  StageShape(p)' /\ NumberShape(p)' /\ NumberKept(p)' /\ HitsMeant(p)'
  <2>1. StageShape(p) /\ NumberShape(p) /\ NumberKept(p) /\ HitsMeant(p)
    BY Zenon DEF IInv
  <2>2. StageShape(p)' /\ NumberShape(p)' /\ HitsMeant(p)'
    BY <1>b, <1>e, <2>1 DEF StageShape, NumberShape, HitsMeant, InFlight, Moves, Fixed
  <2>3. \A q \in Ops : /\ Closing(q)' => Closing(q)
                       /\ op'[q].fd = op[q].fd /\ op'[q].meant = op[q].meant
                       /\ op'[q].kind = op[q].kind /\ op'[q].result = op[q].result
                       /\ Alive(q)' <=> Alive(q)
    BY <1>b, <1>e, Zenon DEF Closing, Moves, Fixed, Alive
  <2>4. NumberKept(p)'
    BY <2>1, <2>3, Zenon DEF NumberKept
  <2> QED BY <2>2, <2>4, Zenon
<1> QED BY <1>1, <1>2, <1>3, <1>4, Zenon DEF IInv

\* Descriptors come and go outside the driver, none that an operation uses.
LEMMA DescriptorStep ==
    ASSUME IInv, NamesDiffer, NEW f \in Fds, DropFile(f) \/ OtherOpen(f) \/ OtherClose(f)
    PROVE  IInv'
<1>a. UNCHANGED <<op, pending, batch, sq, cq, lpc, held, cur>>
  BY Zenon DEF DropFile, OtherOpen, OtherClose
<1>b. /\ \A g \in Fds \ {f} : table'[g] = table[g] /\ file'[g] = file[g]
      /\ \/ file[f] = "live" /\ ~Busy(f) /\ file'[f] = "none"
         \/ table[f] \notin Ops /\ file'[f] = file[f]
  BY Zenon DEF DropFile, OtherOpen, OtherClose, NamesDiffer, IInv, Types
<1>1. Types'
  <2>1. table' \in [Fds -> Files] /\ file' \in [Fds -> {"none", "live", "closing"}]
    BY Zenon DEF DropFile, OtherOpen, OtherClose, IInv, Types, Files
  <2> QED BY <1>a, <2>1, Zenon DEF IInv, Types
<1>2. Queues'
  BY <1>a, Zenon DEF IInv, Queues, In, Distinct
<1>3. FilesOpen'
  BY <1>b, Zenon DEF IInv, FilesOpen
<1>4. ASSUME NEW p \in Ops
      PROVE  StageShape(p)' /\ NumberShape(p)' /\ NumberKept(p)' /\ HitsMeant(p)'
  <2>1. StageShape(p) /\ NumberShape(p) /\ NumberKept(p) /\ HitsMeant(p)
    BY Zenon DEF IInv
  <2>2. StageShape(p)' /\ NumberShape(p)' /\ HitsMeant(p)'
    BY <1>a, <2>1, Zenon DEF StageShape, NumberShape, HitsMeant, InFlight
  <2>3. \A q \in Ops : (Closing(q)' <=> Closing(q)) /\ (Alive(q)' <=> Alive(q))
    BY <1>a, Zenon DEF Closing, Alive
  <2>4. op[p].kind \in {"io", "close"} => op[p].fd \in Fds /\ op[p].meant \in Ops
    BY <2>1, Zenon DEF NumberShape
  <2>5. op[p].fd = f /\ Alive(p) => Busy(f)
    BY Zenon DEF Busy
  <2>6. op[p].kind = "io" /\ Alive(p) =>
            file'[op[p].fd] = "live" /\ table'[op[p].fd] = op[p].meant
    BY <1>b, <2>1, <2>4, <2>5, Zenon DEF NumberKept
  <2>7. Closing(p) => file'[op[p].fd] = "closing" /\ table'[op[p].fd] = op[p].meant
    BY <1>b, <2>1, <2>4, Zenon DEF NumberKept, Closing
  <2>8. op[p].result \in Fds /\ Alive(p) =>
            table'[op[p].result] = p /\ file'[op[p].result] = "none"
    BY <1>b, <2>1, Zenon DEF NumberKept
  <2>9. NumberKept(p)'
    BY <1>a, <2>1, <2>3, <2>6, <2>7, <2>8, Zenon DEF NumberKept
  <2> QED BY <2>2, <2>9, Zenon
<1> QED BY <1>1, <1>2, <1>3, <1>4, Zenon DEF IInv

\* The driver moves entries and completions between its queues.
LEMMA QueueStep ==
    ASSUME IInv, UNCHANGED <<op, table, file>>, Queues',
           pending' \in Seq(Ops), batch' \in Seq(Ops), sq' \in Seq(Ops),
           cq' \subseteq Ops, held' \subseteq Ops, lpc' # "wake"
    PROVE  IInv'
<1>1. Types' /\ FilesOpen'
  BY Zenon DEF IInv, Types, FilesOpen
<1>2. ASSUME NEW p \in Ops
      PROVE  StageShape(p)' /\ NumberShape(p)' /\ NumberKept(p)' /\ HitsMeant(p)'
  BY Zenon DEF IInv, StageShape, NumberShape, NumberKept, HitsMeant, InFlight, Closing, Alive
<1> QED BY <1>1, <1>2, Zenon DEF IInv

\* drain_pending moves the queue, submit_and_wait hands out the completions.
LEMMA DrainStep ==
    ASSUME IInv, Drain \/ Waited \/ LoopFails
    PROVE  IInv'
<1>1. CASE Drain
  <2>1. /\ UNCHANGED <<op, table, file>> /\ batch = <<>> /\ batch' = pending /\ pending' = <<>>
        /\ UNCHANGED <<sq, cq, held>> /\ lpc' # "wake"
    BY <1>1, Zenon DEF Drain
  <2>2. /\ \A p \in Ops : /\ ~In(p, pending)' /\ (In(p, sq)' <=> In(p, sq))
                          /\ In(p, batch)' <=> In(p, pending)
        /\ Distinct(pending)' /\ (Distinct(batch)' <=> Distinct(pending))
        /\ Distinct(sq)' <=> Distinct(sq)
    BY <2>1 DEF In, Distinct
  <2>3. Queues'
    BY <2>1, <2>2, Zenon DEF IInv, Queues
  <2> QED BY <2>1, <2>3, QueueStep, Zenon DEF IInv, Types
<1>2. CASE Waited
  <2>1. /\ UNCHANGED <<op, table, file, pending, batch, sq>> /\ lpc' # "wake"
        /\ held' = cq /\ cq' = {}
    BY <1>2, Zenon DEF Waited
  <2>2. Queues'
    BY <2>1, Zenon DEF IInv, Queues, In, Distinct
  <2> QED BY <2>1, <2>2, QueueStep, Zenon DEF IInv, Types
<1>3. CASE LoopFails
  <2>1. UNCHANGED <<op, table, file, pending, batch, sq, cq, held>> /\ lpc' # "wake"
    BY <1>3, Zenon DEF LoopFails
  <2>2. Queues'
    BY <2>1, Zenon DEF IInv, Queues, In, Distinct
  <2> QED BY <2>1, <2>2, QueueStep, Zenon DEF IInv, Types
<1> QED BY <1>1, <1>2, <1>3, Zenon

\* One entry of the batch goes into the queue, into the freshly submitted queue,
\* or nowhere.
LEMMA PushStep ==
    ASSUME IInv, NamesDiffer, Push
    PROVE  IInv'
<1> DEFINE h == Head(batch)
           b == Tail(batch)
<1>a. /\ batch \in Seq(Ops) /\ batch # <<>> /\ batch' = b /\ sq \in Seq(Ops)
      /\ UNCHANGED <<table, file, pending, cq, lpc, held, cur>> /\ lpc' # "wake"
  BY Zenon DEF Push, IInv, Types
<1>b. /\ h \in Ops /\ b \in Seq(Ops) /\ In(h, batch)
      /\ \A p \in Ops : In(p, batch) <=> p = h \/ In(p, b)
      /\ Distinct(b) /\ ~In(h, b)
  BY <1>a, PopFacts, Zenon DEF IInv, Queues
<1>1. CASE sq' = Append(sq, h) /\ op' = op
  <2> HIDE DEF h, b
  <2>1. ~In(h, sq) /\ ~In(h, pending) /\ op[h].stage = "queued"
    BY <1>b, Zenon DEF IInv, Queues
  <2>2. /\ Append(sq, h) \in Seq(Ops) /\ Distinct(Append(sq, h))
        /\ \A p \in Ops : In(p, Append(sq, h)) <=> In(p, sq) \/ p = h
    BY <1>a, <1>b, <2>1, PushFacts, Zenon DEF IInv, Queues
  <2>3. /\ \A p \in Ops : /\ In(p, pending)' <=> In(p, pending)
                          /\ In(p, batch)' <=> In(p, b)
                          /\ In(p, sq)' <=> In(p, Append(sq, h))
        /\ Distinct(pending)' <=> Distinct(pending)
        /\ Distinct(batch)' <=> Distinct(b)
        /\ Distinct(sq)' <=> Distinct(Append(sq, h))
    BY <1>1, <1>a, Zenon DEF In, Distinct
  <2>4. Queues'
    BY <1>1, <1>a, <1>b, <2>1, <2>2, <2>3, Zenon DEF IInv, Queues
  <2>5. sq' \in Seq(Ops) /\ batch' \in Seq(Ops)
    BY <1>1, <1>a, <1>b, <2>2, Zenon
  <2> QED BY <1>1, <1>a, <2>4, <2>5, QueueStep, Zenon DEF IInv, Types
<1>2. CASE sq' = <<h>> /\ op' = Submitted(sq)
  <2> HIDE DEF h, b
  <2>1. <<h>> \in Seq(Ops) /\ Distinct(<<h>>) /\ \A p \in Ops : In(p, <<h>>) <=> p = h
    BY <1>b DEF In, Distinct
  <2> QED BY <1>2, <1>a, <1>b, <2>1, SubmittedStep, Zenon
<1>3. CASE op' = [op EXCEPT ![h].stage = "lost"] /\ sq' = sq
  BY <1>3, <1>a, LostStep, Zenon
<1> QED BY <1>1, <1>2, <1>3, Zenon DEF Push

\* A poll, the drop of a future, and the waker.
LEMMA PollStep ==
    ASSUME IInv, NEW o \in Ops,
           PollCheck(o) \/ PollInstall(o) \/ PollRecheck(o) \/ DropFuture(o)
    PROVE  IInv'
<1>a. /\ UNCHANGED <<table, pending, batch, sq, cq, lpc, held, cur>>
      /\ Alive(o) /\ Types /\ (lpc = "wake" => cur \in Ops)'
  BY Zenon DEF PollCheck, PollInstall, PollRecheck, DropFuture, Dropped, Alive, IInv, Types
<1>b. op[o].buf \in {"none", "state", "caller", "freed"}
  BY Zenon DEF IInv, Types, OpStates, OpRecord
<1>1. CASE op[o].stage = "done" /\ Take(o)
  BY <1>1, <1>a, TakeStep, Zenon
<1>2. CASE file' = file /\ \E v \in {"install", "parked"} : op' = [op EXCEPT ![o].fut = v]
  <2>1. PICK v \in {"install", "parked"} : op' = [op EXCEPT ![o].fut = v]
    BY <1>2, Zenon
  <2>2. v \in {"none", "idle", "install", "recheck", "parked", "dropped", "finished"}
    BY Zenon
  <2>3. /\ Moves(o) /\ op'[o].fut = v /\ op'[o].buf = op[o].buf
        /\ op'[o].stage = op[o].stage /\ op'[o].slab = op[o].slab
        /\ op'[o].hit = op[o].hit /\ op'[o].result = op[o].result
    BY <1>a, <2>1, <2>2, FutureAlone, Zenon
  <2> QED BY <1>2, <1>a, <2>3, FutureStep, Zenon
<1>3. CASE file' = file /\ op' = [op EXCEPT ![o].fut = "recheck", ![o].waker = TRUE]
  <2>1. /\ Moves(o) /\ op'[o].fut = "recheck" /\ op'[o].buf = op[o].buf
        /\ op'[o].stage = op[o].stage /\ op'[o].slab = op[o].slab
        /\ op'[o].hit = op[o].hit /\ op'[o].result = op[o].result
    BY <1>3, <1>a, <1>b, FutureMoves, ZenonT(40)
  <2> QED BY <1>3, <1>a, <2>1, FutureStep, Zenon
<1>4. CASE DropFuture(o)
  <2> DEFINE b == IF op[o].slab THEN "state" ELSE "freed"
  <2>1. b \in {"state", "freed"} /\ file' = file /\ op' = [op EXCEPT ![o].fut = "dropped", ![o].buf = b]
    BY <1>4, Zenon DEF DropFuture, Dropped
  <2>2. InFlight(o) => b = op[o].buf
    BY Zenon DEF IInv, StageShape
  <2> HIDE DEF b
  <2>3. /\ Moves(o) /\ op'[o].fut = "dropped" /\ op'[o].buf = b
        /\ op'[o].stage = op[o].stage /\ op'[o].slab = op[o].slab
        /\ op'[o].hit = op[o].hit /\ op'[o].result = op[o].result
    BY <1>a, <2>1, FutureMoves, Zenon
  <2> QED BY <1>a, <2>1, <2>2, <2>3, FutureStep, Zenon
<1> QED BY <1>1, <1>2, <1>3, <1>4, Zenon DEF PollCheck, PollInstall, PollRecheck

\* The waker is taken and fired.
LEMMA WakeStep ==
    ASSUME IInv, Wake
    PROVE  IInv'
<1>1. PICK c \in Ops : c = cur
  BY Zenon DEF Wake, IInv, Types
<1> DEFINE v == IF op[c].waker /\ op[c].fut = "parked" THEN "idle" ELSE op[c].fut
<1>2. Types /\ op \in OpStates /\ op[c] \in OpRecord
  BY Zenon DEF IInv, Types, OpStates
<1>3. op' = [op EXCEPT ![c].waker = FALSE, ![c].fut = v]
  BY <1>1, <1>2, Zenon DEF Wake, OpStates, OpRecord
<1>4. /\ op[c].buf \in {"none", "state", "caller", "freed"}
      /\ v \in {"none", "idle", "install", "recheck", "parked", "dropped", "finished"}
      /\ v = op[c].fut \/ (Alive(c) /\ v = "idle")
  BY <1>2, Zenon DEF OpRecord, Alive
<1> HIDE DEF v
<1>5. /\ Moves(c) /\ op'[c].fut = v /\ op'[c].buf = op[c].buf
      /\ op'[c].stage = op[c].stage /\ op'[c].slab = op[c].slab
      /\ op'[c].hit = op[c].hit /\ op'[c].result = op[c].result
  <2> DEFINE g1 == [op EXCEPT ![c].waker = FALSE]
             g2 == [g1 EXCEPT ![c].fut = v]
  <2>1. g1 \in OpStates
    BY <1>2, Updates, Zenon
  <2>2. g2 \in OpStates
    BY <1>4, <2>1, Updates, Zenon
  <2>3. op' = g2
    BY <1>3, Zenon
  <2>4. op' \in OpStates
    BY <2>2, <2>3, Zenon
  <2> QED BY <1>2, <1>3, <2>4 DEF Moves, Fixed, OpStates, OpRecord
<1>6. UNCHANGED <<table, file, pending, batch, sq, cq, held>> /\ lpc' # "wake"
  BY Zenon DEF Wake
<1> QED BY <1>4, <1>5, <1>6, FutureStep, Zenon

\* Nothing is open or queued at the start.
LEMMA InitInv ==
    ASSUME NamesDiffer, Init
    PROVE  IInv
<1>1. \A o \in Ops : /\ op[o] = Blank /\ Blank \in OpRecord
                     /\ Blank.kind = "unused" /\ Blank.stage = "none" /\ Blank.fut = "none"
                     /\ Blank.result = NoFile
  BY Zenon DEF Init, Blank, OpRecord, Files
<1>2. Types
  BY <1>1 DEF Init, Types, OpStates, Files
<1>3. Queues
  BY <1>1 DEF Init, Queues, In, Distinct
<1>4. FilesOpen
  BY Zenon DEF Init, FilesOpen
<1>5. NoFile \notin Fds
  BY Zenon DEF NamesDiffer
<1>6. ASSUME NEW o \in Ops
      PROVE  StageShape(o) /\ NumberShape(o) /\ NumberKept(o) /\ HitsMeant(o)
  BY <1>1, <1>5,
     Zenon DEF StageShape, NumberShape, NumberKept, HitsMeant, InFlight, Closing
<1> QED BY <1>2, <1>3, <1>4, <1>6, Zenon DEF IInv

\* Every step keeps the invariant.
LEMMA NextInv ==
    ASSUME NamesDiffer, IInv, [Next]_vars
    PROVE  IInv'
<1>1. CASE \E o \in Ops : Open(o)
  BY <1>1, SubmitStep, Zenon DEF Open
<1>2. CASE \E o \in Ops, f \in Fds : Io(o, f)
  BY <1>2, SubmitStep, Zenon DEF Io
<1>3. CASE \E o \in Ops, f \in Fds : Close(o, f)
  BY <1>3, SubmitStep, Zenon DEF Close
<1>4. CASE \E o \in Ops : PollCheck(o) \/ PollInstall(o) \/ PollRecheck(o) \/ DropFuture(o)
  BY <1>4, PollStep, Zenon
<1>5. CASE \E o \in Ops : Finish(o)
  BY <1>5, FinishStep, Zenon
<1>6. CASE \E f \in Fds : DropFile(f) \/ OtherOpen(f) \/ OtherClose(f)
  BY <1>6, DescriptorStep, Zenon
<1>7. CASE Drain \/ Waited \/ LoopFails
  BY <1>7, DrainStep, Zenon
<1>8. CASE Push
  BY <1>8, PushStep, Zenon
<1>9. CASE Submit
  <2>1. /\ batch \in Seq(Ops) /\ batch' = batch /\ sq' = <<>> /\ op' = Submitted(sq)
        /\ UNCHANGED <<table, file, pending, cq, held, lpc, cur>>
    BY <1>9, Zenon DEF Submit, IInv, Types
  <2>2. <<>> \in Seq(Ops) /\ Distinct(<<>>) /\ \A p \in Ops : ~In(p, <<>>)
    BY DEF Distinct, In
  <2>3. Distinct(batch)
    BY Zenon DEF IInv, Queues
  <2> QED BY <2>1, <2>2, <2>3, SubmittedStep, Zenon
<1>10. CASE Complete
  BY <1>10, CompleteStep, Zenon
<1>11. CASE Wake
  BY <1>11, WakeStep, Zenon
<1>12. CASE UNCHANGED vars
  <2>1. UNCHANGED <<op, table, file, pending, batch, sq, cq, lpc, held, cur>>
    BY <1>12, Zenon DEF vars
  <2>2. Types' /\ FilesOpen'
    BY <2>1, Zenon DEF IInv, Types, FilesOpen
  <2>3. Queues'
    BY <2>1, Zenon DEF IInv, Queues, In, Distinct
  <2>4. ASSUME NEW o \in Ops
        PROVE  StageShape(o)' /\ NumberShape(o)' /\ NumberKept(o)' /\ HitsMeant(o)'
    BY <2>1,
       Zenon DEF IInv, StageShape, NumberShape, NumberKept, HitsMeant, InFlight, Closing, Alive
  <2> QED BY <2>2, <2>3, <2>4, Zenon DEF IInv
<1> QED BY <1>1, <1>2, <1>3, <1>4, <1>5, <1>6, <1>7, <1>8, <1>9, <1>10, <1>11, <1>12,
           Zenon DEF Next

\* The rule at the head of io/uring_fs.rs, whatever the number of operations and
\* descriptors and the size of the ring: a buffer is the OpState's from submit until
\* the completion has been posted, though its future be dropped, and an operation
\* still awaited, or a close, works on the file it was called on.
THEOREM CancellationSafe ==
    ASSUME NamesDiffer
    PROVE  Spec => []BuffersKept
<1>1. Init => IInv
  BY InitInv, Zenon
<1>2. IInv /\ [Next]_vars => IInv'
  BY NextInv, Zenon
<1>3. IInv => BuffersKept
  BY Zenon DEF IInv, BuffersKept, StageShape, InFlight, HitsMeant
<1> QED BY <1>1, <1>2, <1>3, PTL DEF Spec
=============================================================================
