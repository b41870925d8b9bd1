--------------------------- MODULE SchedulerProofs ---------------------------
(***************************************************************************)
(* Proofs about Scheduler, for any number of tasks, worker indices and     *)
(* threads: the queues neither lose nor duplicate a task.                  *)
(***************************************************************************)
EXTENDS Scheduler, TLAPS

------------------------------------------------------------------------------
(* What the queue operations do to the set of tasks of a queue *)

\* Nothing is in an empty queue.
LEMMA InEmpty == ASSUME NEW t PROVE ~In(t, <<>>) /\ Distinct(<<>>)
  BY DEF In, Distinct

\* A push (push_local, Injector::push) adds one task at the end.
LEMMA PushFacts ==
    ASSUME NEW q \in Seq(Tasks), NEW t \in Tasks, Distinct(q), ~In(t, q)
    PROVE  /\ Append(q, t) \in Seq(Tasks)
           /\ Distinct(Append(q, t))
           /\ \A u : In(u, Append(q, t)) <=> In(u, q) \/ u = t
<1>1. Append(q, t) \in Seq(Tasks) /\ Len(Append(q, t)) = Len(q) + 1
  OBVIOUS
<1>2. \A k \in 1 .. Len(q) : Append(q, t)[k] = q[k]
  OBVIOUS
<1>3. Append(q, t)[Len(q) + 1] = t
  OBVIOUS
<1>4. DOMAIN q = 1 .. Len(q) /\ DOMAIN Append(q, t) = 1 .. (Len(q) + 1) /\ Len(q) \in Nat
  BY <1>1
<1>5. Distinct(Append(q, t))
  BY <1>2, <1>3, <1>4 DEF Distinct, In
<1>6. ASSUME NEW u PROVE In(u, Append(q, t)) <=> In(u, q) \/ u = t
  <2>1. In(u, Append(q, t)) => In(u, q) \/ u = t
    BY <1>2, <1>3, <1>4 DEF In
  <2>2. In(u, q) => In(u, Append(q, t))
    BY <1>2, <1>4 DEF In
  <2>3. u = t => In(u, Append(q, t))
    BY <1>3, <1>4 DEF In
  <2> QED BY <2>1, <2>2, <2>3, Zenon
<1> QED BY <1>1, <1>5, <1>6, Zenon

\* A pop removes the head.
LEMMA PopFacts ==
    ASSUME NEW q \in Seq(Tasks), q # <<>>, Distinct(q)
    PROVE  /\ Head(q) \in Tasks /\ In(Head(q), q)
           /\ Tail(q) \in Seq(Tasks) /\ Distinct(Tail(q))
           /\ \A u : In(u, Tail(q)) <=> In(u, q) /\ u # Head(q)
<1>1. Tail(q) \in Seq(Tasks) /\ Len(Tail(q)) = Len(q) - 1 /\ Len(q) \in Nat \ {0}
  OBVIOUS
<1>2. Head(q) = q[1] /\ Head(q) \in Tasks
  BY <1>1
<1>3. \A k \in 1 .. (Len(q) - 1) : Tail(q)[k] = q[k + 1]
  BY <1>1
<1>4. DOMAIN q = 1 .. Len(q) /\ DOMAIN Tail(q) = 1 .. (Len(q) - 1)
  BY <1>1
<1>5. Distinct(Tail(q))
  <2> SUFFICES ASSUME NEW j \in 1 .. (Len(q) - 1), NEW k \in 1 .. (Len(q) - 1),
                      Tail(q)[j] = Tail(q)[k]
               PROVE  j = k
    BY <1>4, Zenon DEF Distinct
  <2>1. q[j + 1] = q[k + 1] /\ j + 1 \in DOMAIN q /\ k + 1 \in DOMAIN q
    BY <1>1, <1>3, <1>4
  <2> QED BY <2>1 DEF Distinct
<1>6. In(Head(q), q)
  BY <1>1, <1>2, <1>4 DEF In
<1>7. ASSUME NEW u PROVE In(u, Tail(q)) <=> In(u, q) /\ u # Head(q)
  <2>1. ASSUME In(u, Tail(q)) PROVE In(u, q) /\ u # Head(q)
    <3>1. PICK k \in 1 .. (Len(q) - 1) : Tail(q)[k] = u
      BY <2>1, <1>4, Zenon DEF In
    <3>2. q[k + 1] = u /\ k + 1 \in DOMAIN q /\ k + 1 # 1 /\ 1 \in DOMAIN q
      BY <3>1, <1>1, <1>3, <1>4
    <3> QED BY <3>2, <1>2, Zenon DEF In, Distinct
  <2>2. ASSUME In(u, q), u # Head(q) PROVE In(u, Tail(q))
    <3>1. PICK k \in 1 .. Len(q) : q[k] = u
      BY <2>2, <1>4, Zenon DEF In
    <3>2. k # 1
      BY <3>1, <2>2, <1>2, Zenon
    <3>3. k - 1 \in 1 .. (Len(q) - 1) /\ Tail(q)[k - 1] = q[(k - 1) + 1]
      BY <3>2, <1>1, <1>3
    <3>4. Tail(q)[k - 1] = u
      BY <3>1, <3>3
    <3> QED BY <3>3, <3>4, <1>4, Zenon DEF In
  <2> QED BY <2>1, <2>2, Zenon
<1> QED BY <1>1, <1>2, <1>5, <1>6, <1>7, Zenon

\* A slice of a queue is a queue of some of its tasks.
LEMMA SliceFacts ==
    ASSUME NEW q \in Seq(Tasks), NEW a \in Nat \ {0}, NEW b \in Nat, b <= Len(q),
           Distinct(q)
    PROVE  /\ SubSeq(q, a, b) \in Seq(Tasks)
           /\ Distinct(SubSeq(q, a, b))
           /\ \A u : In(u, SubSeq(q, a, b)) <=> \E k \in a .. b : q[k] = u
<1> DEFINE s == SubSeq(q, a, b)
           n == IF a <= b THEN (b - a) + 1 ELSE 0
<1>1. s \in Seq(Tasks) /\ Len(s) = n /\ n \in Nat
  OBVIOUS
<1>2. DOMAIN s = 1 .. n /\ DOMAIN q = 1 .. Len(q) /\ Len(q) \in Nat
  BY <1>1
<1>3. \A k \in 1 .. n : s[k] = q[(a + k) - 1] /\ (a + k) - 1 \in a .. b
  BY <1>1
<1>4. Distinct(s)
  <2> SUFFICES ASSUME NEW j \in 1 .. n, NEW k \in 1 .. n, s[j] = s[k]
               PROVE  j = k
    BY <1>2, Zenon DEF Distinct
  <2>1. q[(a + j) - 1] = q[(a + k) - 1]
    BY <1>3, Zenon
  <2>2. (a + j) - 1 \in DOMAIN q /\ (a + k) - 1 \in DOMAIN q
    BY <1>2, <1>3
  <2>3. (a + j) - 1 = (a + k) - 1
    BY <2>1, <2>2, Zenon DEF Distinct
  <2> QED BY <2>3
<1>5. ASSUME NEW u PROVE In(u, s) <=> \E k \in a .. b : q[k] = u
  <2>1. ASSUME In(u, s) PROVE \E k \in a .. b : q[k] = u
    <3>1. PICK k \in 1 .. n : s[k] = u
      BY <2>1, <1>2, Zenon DEF In
    <3> QED BY <3>1, <1>3, Zenon
  <2>2. ASSUME NEW k \in a .. b, q[k] = u PROVE In(u, s)
    <3>1. (k - a) + 1 \in 1 .. n
      OBVIOUS
    <3>2. s[(k - a) + 1] = q[(a + ((k - a) + 1)) - 1]
      BY <3>1, <1>3, Zenon
    <3>3. (a + ((k - a) + 1)) - 1 = k
      OBVIOUS
    <3>4. s[(k - a) + 1] = u
      BY <3>2, <3>3, <2>2, Zenon
    <3> HIDE DEF s, n
    <3> QED BY <3>1, <3>4, <1>2, Zenon DEF In
  <2> QED BY <2>1, <2>2, Zenon
<1> QED BY <1>1, <1>4, <1>5, Zenon

\* A batch steal splits the victim's queue into the task that is popped, the
\* part that moves and the part that stays.
LEMMA BatchFacts ==
    ASSUME NEW q \in Seq(Tasks), NEW k \in Batch(q), Distinct(q)
    PROVE  /\ q # <<>> /\ Head(q) \in Tasks /\ In(Head(q), q)
           /\ SubSeq(q, 2, k) \in Seq(Tasks) /\ Distinct(SubSeq(q, 2, k))
           /\ SubSeq(q, k + 1, Len(q)) \in Seq(Tasks)
           /\ Distinct(SubSeq(q, k + 1, Len(q)))
           /\ \A u : /\ In(u, SubSeq(q, 2, k)) =>
                           In(u, q) /\ u # Head(q) /\ ~In(u, SubSeq(q, k + 1, Len(q)))
                     /\ In(u, SubSeq(q, k + 1, Len(q))) => In(u, q) /\ u # Head(q)
                     /\ In(u, q) => \/ u = Head(q) \/ In(u, SubSeq(q, 2, k))
                                    \/ In(u, SubSeq(q, k + 1, Len(q)))
<1>1. Len(q) \in Nat /\ k \in 1 .. Len(q) /\ DOMAIN q = 1 .. Len(q) /\ q # <<>>
  BY DEF Batch
<1>2. Head(q) = q[1] /\ Head(q) \in Tasks /\ In(Head(q), q)
  BY <1>1 DEF In
<1>3. /\ SubSeq(q, 2, k) \in Seq(Tasks) /\ Distinct(SubSeq(q, 2, k))
      /\ \A u : In(u, SubSeq(q, 2, k)) <=> \E j \in 2 .. k : q[j] = u
  <2>1. 2 \in Nat \ {0} /\ k \in Nat /\ k <= Len(q)
    BY <1>1
  <2> QED BY <2>1, SliceFacts, Zenon
<1>4. /\ SubSeq(q, k + 1, Len(q)) \in Seq(Tasks)
      /\ Distinct(SubSeq(q, k + 1, Len(q)))
      /\ \A u : In(u, SubSeq(q, k + 1, Len(q))) <=> \E j \in (k + 1) .. Len(q) : q[j] = u
  <2>1. k + 1 \in Nat \ {0} /\ Len(q) \in Nat /\ Len(q) <= Len(q)
    BY <1>1
  <2> QED BY <2>1, SliceFacts, Zenon
<1>5. ASSUME NEW u, In(u, SubSeq(q, 2, k))
      PROVE  In(u, q) /\ u # Head(q) /\ ~In(u, SubSeq(q, k + 1, Len(q)))
  <2>1. PICK j \in 2 .. k : q[j] = u
    BY <1>3, <1>5, Zenon
  <2>2. j \in DOMAIN q /\ 1 \in DOMAIN q
    BY <1>1
  <2>3. ASSUME NEW i \in (k + 1) .. Len(q), q[i] = u PROVE FALSE
    <3>1. i \in DOMAIN q /\ i # j
      BY <1>1
    <3> QED BY <2>1, <2>2, <2>3, <3>1, Zenon DEF Distinct
  <2>4. ~In(u, SubSeq(q, k + 1, Len(q)))
    BY <1>4, <2>3, Zenon
  <2>5. j # 1
    BY <1>1
  <2>6. u # Head(q)
    BY <1>2, <2>1, <2>2, <2>5, Zenon DEF Distinct
  <2> QED BY <2>1, <2>2, <2>4, <2>6, Zenon DEF In
<1>6. ASSUME NEW u, In(u, SubSeq(q, k + 1, Len(q))) PROVE In(u, q) /\ u # Head(q)
  <2>1. PICK j \in (k + 1) .. Len(q) : q[j] = u
    BY <1>4, <1>6, Zenon
  <2>2. j \in DOMAIN q /\ 1 \in DOMAIN q /\ j # 1
    BY <1>1
  <2> QED BY <1>2, <2>1, <2>2, Zenon DEF In, Distinct
<1>7. ASSUME NEW u, In(u, q)
      PROVE  u = Head(q) \/ In(u, SubSeq(q, 2, k)) \/ In(u, SubSeq(q, k + 1, Len(q)))
  <2>1. PICK j \in 1 .. Len(q) : q[j] = u
    BY <1>1, <1>7, Zenon DEF In
  <2>2. j = 1 \/ j \in 2 .. k \/ j \in (k + 1) .. Len(q)
    BY <1>1
  <2> QED BY <1>2, <1>3, <1>4, <2>1, <2>2, Zenon
<1> QED BY <1>1, <1>2, <1>3, <1>4, <1>5, <1>6, <1>7, Zenon

\* The stolen tasks go to the end of the thief's queue.
LEMMA JoinFacts ==
    ASSUME NEW p \in Seq(Tasks), NEW q \in Seq(Tasks), Distinct(p), Distinct(q),
           \A u : ~(In(u, p) /\ In(u, q))
    PROVE  /\ p \o q \in Seq(Tasks) /\ Distinct(p \o q)
           /\ \A u : In(u, p \o q) <=> In(u, p) \/ In(u, q)
<1>1. /\ p \o q \in Seq(Tasks) /\ Len(p \o q) = Len(p) + Len(q)
      /\ Len(p) \in Nat /\ Len(q) \in Nat
  OBVIOUS
<1>2. /\ DOMAIN p = 1 .. Len(p) /\ DOMAIN q = 1 .. Len(q)
      /\ DOMAIN (p \o q) = 1 .. (Len(p) + Len(q))
  BY <1>1
<1>3. \A k \in 1 .. Len(p) : (p \o q)[k] = p[k]
  BY <1>1
<1>4. \A k \in (Len(p) + 1) .. (Len(p) + Len(q)) :
          (p \o q)[k] = q[k - Len(p)] /\ k - Len(p) \in 1 .. Len(q)
  BY <1>1
<1>5. \A k \in 1 .. Len(q) :
          /\ (p \o q)[Len(p) + k] = q[k]
          /\ Len(p) + k \in 1 .. (Len(p) + Len(q))
  BY <1>1
<1>6. Distinct(p \o q)
  <2> SUFFICES ASSUME NEW j \in 1 .. (Len(p) + Len(q)), NEW k \in 1 .. (Len(p) + Len(q)),
                      (p \o q)[j] = (p \o q)[k]
               PROVE  j = k
    BY <1>2, Zenon DEF Distinct
  <2>1. CASE j <= Len(p) /\ k <= Len(p)
    BY <2>1, <1>1, <1>2, <1>3 DEF Distinct
  <2>2. CASE j > Len(p) /\ k > Len(p)
    <3>1. q[j - Len(p)] = q[k - Len(p)]
      BY <2>2, <1>1, <1>4
    <3>2. j - Len(p) \in DOMAIN q /\ k - Len(p) \in DOMAIN q
      BY <2>2, <1>1, <1>2
    <3>3. j - Len(p) = k - Len(p)
      BY <3>1, <3>2, Zenon DEF Distinct
    <3> QED BY <3>3, <1>1
  <2>3. CASE j <= Len(p) /\ k > Len(p)
    <3>1. p[j] = q[k - Len(p)] /\ j \in DOMAIN p /\ k - Len(p) \in DOMAIN q
      BY <2>3, <1>1, <1>2, <1>3, <1>4
    <3> QED BY <3>1, Zenon DEF In
  <2>4. CASE j > Len(p) /\ k <= Len(p)
    <3>1. p[k] = q[j - Len(p)] /\ k \in DOMAIN p /\ j - Len(p) \in DOMAIN q
      BY <2>4, <1>1, <1>2, <1>3, <1>4
    <3> QED BY <3>1, Zenon DEF In
  <2> QED BY <2>1, <2>2, <2>3, <2>4, <1>1
<1>7. ASSUME NEW u PROVE In(u, p \o q) <=> In(u, p) \/ In(u, q)
  <2>1. ASSUME In(u, p \o q) PROVE In(u, p) \/ In(u, q)
    <3>1. PICK k \in 1 .. (Len(p) + Len(q)) : (p \o q)[k] = u
      BY <2>1, <1>2, Zenon DEF In
    <3>2. CASE k <= Len(p)
      BY <3>1, <3>2, <1>1, <1>2, <1>3 DEF In
    <3>3. CASE k > Len(p)
      BY <3>1, <3>3, <1>1, <1>2, <1>4 DEF In
    <3> QED BY <3>2, <3>3, <1>1
  <2>2. ASSUME In(u, p) PROVE In(u, p \o q)
    <3>1. PICK k \in 1 .. Len(p) : p[k] = u
      BY <2>2, <1>2, Zenon DEF In
    <3>2. (p \o q)[k] = u /\ k \in 1 .. (Len(p) + Len(q))
      BY <3>1, <1>1, <1>3
    <3> QED BY <3>2, <1>2, Zenon DEF In
  <2>3. ASSUME In(u, q) PROVE In(u, p \o q)
    <3>1. PICK k \in 1 .. Len(q) : q[k] = u
      BY <2>3, <1>2, Zenon DEF In
    <3> QED BY <3>1, <1>2, <1>5, Zenon DEF In
  <2> QED BY <2>1, <2>2, <2>3, Zenon
<1> QED BY <1>1, <1>6, <1>7, Zenon

------------------------------------------------------------------------------
(* Where the threads are *)

\* What the program counter of a thread says about its other variables: only
\* the first threads and the replacements have an index, a retired thread never
\* returns to the top of the loop, and a thread that was not replaced leaves the
\* loop only on shutdown.
Shape ==
    /\ \A th \in Threads :
          /\ pc[th] = "unborn" <=> index[th] = -1
          /\ pc[th] = "unborn" => th \notin retired
          /\ Polling(th) => cur[th] \in Tasks
          /\ th \in retired => pc[th] \in {"poll", "blocking", "after", "drain", "exited"}
          /\ pc[th] = "drain" => th \in retired
          /\ pc[th] = "exited" => th \in retired \/ shutdown
    /\ \A i \in Indices : index[First[i]] = i

\* The sibling next_task looks at has another index than the thread.
LEMMA Victim ==
    ASSUME NEW a \in Indices, NEW o \in 1 .. (N - 1)
    PROVE  (a + o) % N \in Indices /\ (a + o) % N # a
  BY SchedulerAssumption DEF Indices

\* So the thread it steals from is another thread.
LEMMA VictimIsOther ==
    ASSUME TypeOK, Shape, NEW th \in Threads, pc[th] = "steal", offset[th] < N
    PROVE  /\ stealers[(index[th] + offset[th]) % N] \in Threads
           /\ stealers[(index[th] + offset[th]) % N] # th
<1>1. index[th] \in Indices
  <2>1. index[th] \in Indices \cup {-1} /\ index[th] # -1
    BY Zenon DEF TypeOK, Shape
  <2> QED BY <2>1, Zenon
<1>2. offset[th] \in 1 .. (N - 1)
  BY SchedulerAssumption DEF TypeOK
<1>3. PICK j \in Indices : j = (index[th] + offset[th]) % N /\ j # index[th]
  BY <1>1, <1>2, Victim, Zenon
<1>4. stealers[j] \in Threads /\ index[stealers[j]] = j
  BY SchedulerAssumption, Zenon DEF stealers, Shape
<1> QED BY <1>3, <1>4, Zenon

\* A step of one thread that moves its program counter within the loop.
LEMMA ShapeStep ==
    ASSUME TypeOK, Shape, NEW th \in Threads, NEW l \in Labels \ {"unborn"},
           pc[th] # "unborn", pc' = [pc EXCEPT ![th] = l],
           index' = index, retired' = retired, shutdown' = shutdown,
           \A x \in Threads \ {th} : cur'[x] = cur[x],
           l \in {"poll", "blocking"} => cur'[th] \in Tasks,
           th \in retired => l \in {"poll", "blocking", "after", "drain", "exited"},
           l = "drain" => th \in retired,
           l = "exited" => th \in retired \/ shutdown
    PROVE  pc' \in [Threads -> Labels] /\ Shape'
<1>1. pc \in [Threads -> Labels]
  BY Zenon DEF TypeOK
<1>2. pc' \in [Threads -> Labels] /\ pc'[th] = l /\ \A x \in Threads \ {th} : pc'[x] = pc[x]
  BY <1>1, Zenon
<1>3. ASSUME NEW x \in Threads
      PROVE  /\ pc'[x] = "unborn" <=> index'[x] = -1
             /\ pc'[x] = "unborn" => x \notin retired'
             /\ pc'[x] \in {"poll", "blocking"} => cur'[x] \in Tasks
             /\ x \in retired' => pc'[x] \in {"poll", "blocking", "after", "drain", "exited"}
             /\ pc'[x] = "drain" => x \in retired'
             /\ pc'[x] = "exited" => x \in retired' \/ shutdown'
  <2>1. CASE x = th
    BY <1>2, <2>1, Zenon DEF Shape
  <2>2. CASE x # th
    BY <1>2, <2>2, Zenon DEF Shape, Polling
  <2> QED BY <2>1, <2>2, Zenon
<1>4. \A i \in Indices : index'[First[i]] = i
  BY Zenon DEF Shape
<1> QED BY <1>2, <1>3, <1>4, Zenon DEF Shape, Polling

\* Every step of every thread keeps the variables in their types.
LEMMA TypeStep == TypeOK /\ Shape /\ [Next]_vars => TypeOK' /\ Shape'
<1> SUFFICES ASSUME TypeOK, Shape, [Next]_vars PROVE TypeOK' /\ Shape'
  BY Zenon
<1> DEFINE G == TypeOK' /\ Shape'
<1>a. /\ phase \in [Tasks -> Phases]
      /\ injector \in Seq(Tasks) /\ local \in [Threads -> Seq(Tasks)]
      /\ index \in [Threads -> Indices \cup {-1}] /\ retired \subseteq Threads
      /\ pc \in [Threads -> Labels] /\ cur \in [Threads -> Tasks \cup {NoTask}]
      /\ offset \in [Threads -> 1 .. N] /\ parity \in [Indices -> {0, 1}]
      /\ shutdown \in BOOLEAN /\ panicked \in BOOLEAN
  BY Zenon DEF TypeOK
<1>b. ASSUME NEW th \in Threads, pc[th] # "unborn" PROVE index[th] \in Indices
  BY <1>a, <1>b DEF Shape
\* A thread goes from one label to another and touches nothing else.
<1>c. ASSUME NEW th \in Threads, NEW l \in Labels \ {"unborn", "poll", "blocking"},
             pc[th] # "unborn", pc' = [pc EXCEPT ![th] = l],
             th \in retired => l \in {"after", "drain", "exited"},
             l = "drain" => th \in retired, l = "exited" => th \in retired \/ shutdown,
             index' = index, retired' = retired, shutdown' = shutdown, cur' = cur
      PROVE  pc' \in [Threads -> Labels] /\ Shape'
  BY <1>c, ShapeStep, Zenon
\* A thread starts to run a task.
<1>d. ASSUME NEW th \in Threads, NEW t \in Tasks, Start(th, t), pc[th] # "unborn",
             index' = index, retired' = retired, shutdown' = shutdown
      PROVE  /\ pc' \in [Threads -> Labels] /\ Shape'
             /\ cur' \in [Threads -> Tasks \cup {NoTask}]
             /\ phase' \in [Tasks -> Phases]
  <2>1. "poll" \in Labels \ {"unborn"}
    BY Zenon DEF Labels
  <2>2. pc' = [pc EXCEPT ![th] = "poll"] /\ cur' = [cur EXCEPT ![th] = t]
    BY <1>d, Zenon DEF Start, Goto
  <2>3. pc' \in [Threads -> Labels] /\ Shape'
    <3>1. cur'[th] \in Tasks /\ \A x \in Threads \ {th} : cur'[x] = cur[x]
      BY <1>a, <2>2, Zenon
    <3> QED BY <1>d, <2>1, <2>2, <3>1, ShapeStep, Zenon
  <2> QED BY <1>a, <1>d, <2>2, <2>3, Zenon DEF Start, Phases
<1>1. ASSUME NEW th \in Threads, Check(th) PROVE G
  BY <1>1, Zenon DEF Check, Goto, TypeOK, Shape, Labels, Polling
<1>2. ASSUME NEW th \in Threads, PopLocal(th) PROVE G
  <2>0. /\ pc[th] = "pop" /\ th \notin retired
        /\ UNCHANGED <<injector, index, retired, offset, parity, shutdown, panicked>>
    BY <1>2, Zenon DEF PopLocal, Shape
  <2>1. CASE local[th] = <<>>
    <3>1. pc' = [pc EXCEPT ![th] = "inject"] /\ UNCHANGED <<phase, local, cur>>
      BY <1>2, <2>1, Zenon DEF PopLocal, Goto
    <3>2. pc' \in [Threads -> Labels] /\ Shape'
      BY <1>c, <2>0, <3>1, Zenon DEF Labels
    <3> QED BY <1>a, <2>0, <3>1, <3>2, Zenon DEF TypeOK
  <2>2. CASE local[th] # <<>>
    <3>1. Head(local[th]) \in Tasks /\ Tail(local[th]) \in Seq(Tasks)
      BY <1>a, <2>2
    <3>2. Start(th, Head(local[th])) /\ local' = [local EXCEPT ![th] = Tail(@)]
      BY <1>2, <2>2, Zenon DEF PopLocal
    <3>3. local' \in [Threads -> Seq(Tasks)]
      BY <1>a, <3>1, <3>2, Zenon
    <3> QED BY <1>a, <1>d, <2>0, <3>1, <3>2, <3>3, Zenon DEF TypeOK
  <2> QED BY <2>1, <2>2, Zenon
<1>3. ASSUME NEW th \in Threads, StealInjector(th) PROVE G
  <2>0. /\ pc[th] = "inject" /\ th \notin retired
        /\ UNCHANGED <<index, retired, parity, shutdown, panicked>>
    BY <1>3, Zenon DEF StealInjector, Shape
  <2>1. CASE injector = <<>>
    <3>1. /\ pc' = [pc EXCEPT ![th] = "steal"] /\ offset' = [offset EXCEPT ![th] = 1]
          /\ UNCHANGED <<phase, injector, local, cur>>
      BY <1>3, <2>1, Zenon DEF StealInjector, InjectorEmpty, Goto
    <3>2. pc' \in [Threads -> Labels] /\ Shape'
      BY <1>c, <2>0, <3>1, Zenon DEF Labels
    <3>3. offset' \in [Threads -> 1 .. N]
      BY <1>a, <3>1, SchedulerAssumption
    <3> QED BY <1>a, <2>0, <3>1, <3>2, <3>3, Zenon DEF TypeOK
  <2>2. CASE injector # <<>>
    <3>1. Head(injector) \in Tasks
      BY <1>a, <2>2
    <3>2. StealBatch(th, 2) /\ offset' = offset
      BY <1>3, <2>2, Zenon DEF StealInjector, InjectorEmpty
    <3>3. PICK k \in 1 .. Len(injector) :
              /\ local' = [local EXCEPT ![th] = @ \o SubSeq(injector, 2, k)]
              /\ injector' = SubSeq(injector, k + 1, Len(injector))
      BY <3>2, ZenonT(30) DEF StealBatch, Batch
    <3>4. SubSeq(injector, 2, k) \in Seq(Tasks) /\ injector' \in Seq(Tasks)
      BY <1>a, <3>3, SMTT(30)
    <3>5. local' \in [Threads -> Seq(Tasks)]
      BY <1>a, <3>3, <3>4
    <3>6. Start(th, Head(injector))
      BY <3>2, Zenon DEF StealBatch
    <3> QED BY <1>a, <1>d, <2>0, <3>1, <3>2, <3>4, <3>5, <3>6, Zenon DEF TypeOK
  <2> QED BY <2>1, <2>2, Zenon
<1>4. ASSUME NEW th \in Threads, StealSibling(th) PROVE G
  <2> DEFINE victim == stealers[(index[th] + offset[th]) % N]
  <2>0. /\ pc[th] = "steal" /\ th \notin retired /\ offset[th] \in 1 .. N /\ N \in Nat
        /\ UNCHANGED <<injector, index, retired, parity, shutdown, panicked>>
    BY <1>4, SchedulerAssumption, Zenon DEF StealSibling, StealBelow, TypeOK, Shape
  <2>1. CASE offset[th] = N /\ Goto(th, "park") /\ UNCHANGED <<phase, local, cur, offset>>
    <3>1. pc' \in [Threads -> Labels] /\ Shape'
      BY <1>c, <2>0, <2>1, Zenon DEF Labels, Goto
    <3> QED BY <1>a, <2>0, <2>1, <3>1, Zenon DEF TypeOK
  <2>2. CASE /\ offset[th] < N /\ offset' = [offset EXCEPT ![th] = @ + 1]
             /\ UNCHANGED <<phase, local, pc, cur>>
    <3>1. offset' \in [Threads -> 1 .. N]
      BY <1>a, <2>0, <2>2
    <3>2. Shape'
      BY <2>0, <2>2, Zenon DEF Shape, Polling
    <3> QED BY <1>a, <2>0, <2>2, <3>1, <3>2, Zenon DEF TypeOK
  <2>3. CASE /\ offset[th] < N /\ local[victim] # <<>>
             /\ Start(th, Head(local[victim]))
             /\ \E k \in Batch(local[victim]) :
                   local' = [local EXCEPT ![th] = @ \o SubSeq(local[victim], 2, k),
                                          ![victim] = SubSeq(@, k + 1, Len(@))]
             /\ UNCHANGED offset
    <3>1. victim \in Threads /\ victim # th
      BY <2>0, <2>3, VictimIsOther, Zenon
    <3> HIDE DEF victim
    <3>v. PICK v \in Threads : v = victim /\ v # th
      BY <3>1, Zenon
    <3>q. /\ local[v] \in Seq(Tasks) /\ local[v] # <<>>
          /\ local[th] \in Seq(Tasks)
      BY <1>a, <2>3, <3>v, Zenon
    <3>2. Head(local[v]) \in Tasks
      BY <3>q
    <3>3. PICK k \in 1 .. Len(local[v]) :
              local' = [local EXCEPT ![th] = @ \o SubSeq(local[v], 2, k),
                                     ![v] = SubSeq(@, k + 1, Len(@))]
      BY <2>3, <3>v, Zenon DEF Batch
    <3>4. /\ SubSeq(local[v], 2, k) \in Seq(Tasks)
          /\ SubSeq(local[v], k + 1, Len(local[v])) \in Seq(Tasks)
      BY <3>q
    <3>5. local[th] \o SubSeq(local[v], 2, k) \in Seq(Tasks)
      BY <3>q, <3>4
    <3>6. local' = [x \in Threads |->
                       IF x = th THEN local[th] \o SubSeq(local[v], 2, k)
                       ELSE IF x = v THEN SubSeq(local[v], k + 1, Len(local[v]))
                                     ELSE local[x]]
      BY <1>a, <3>v, <3>3, Zenon
    <3>7. local' \in [Threads -> Seq(Tasks)]
      BY <1>a, <3>4, <3>5, <3>6, Zenon
    <3>8. Start(th, Head(local[v])) /\ UNCHANGED offset
      BY <2>3, <3>v, Zenon
    <3> QED BY <1>a, <1>d, <2>0, <3>2, <3>7, <3>8, Zenon DEF TypeOK
  <2> QED BY <1>4, <2>1, <2>2, <2>3, ZenonT(30) DEF StealSibling, StealBelow
<1>5. ASSUME NEW th \in Threads, Park(th) PROVE G
  <2>1. index[th] \in Indices
    BY <1>5, <1>b, Zenon DEF Park
  <2>2. /\ pc[th] = "park" /\ th \notin retired /\ pc' = [pc EXCEPT ![th] = "parked"]
        /\ parity' = [parity EXCEPT ![index[th]] = 1 - @]
        /\ UNCHANGED <<phase, injector, local, index, retired, cur, offset, shutdown, panicked>>
    BY <1>5, Zenon DEF Park, Goto, Shape
  <2>3. pc' \in [Threads -> Labels] /\ Shape'
    BY <1>c, <2>2, Zenon DEF Labels
  <2>4. parity' \in [Indices -> {0, 1}]
    <3>1. 1 - parity[index[th]] \in {0, 1}
      <4>1. parity[index[th]] = 0 \/ parity[index[th]] = 1
        BY <1>a, <2>1, Zenon
      <4> QED BY <4>1
    <3> QED BY <1>a, <2>1, <2>2, <3>1, Zenon
  <2> QED BY <1>a, <2>2, <2>3, <2>4, Zenon DEF TypeOK
<1>6. ASSUME NEW th \in Threads, Unpark(th) PROVE G
  <2>1. index[th] \in Indices
    BY <1>6, <1>b, Zenon DEF Unpark
  <2>2. /\ pc[th] = "parked" /\ th \notin retired /\ pc' = [pc EXCEPT ![th] = "after"]
        /\ parity' = [parity EXCEPT ![index[th]] = 1 - @]
        /\ UNCHANGED <<phase, injector, local, index, retired, cur, offset, shutdown, panicked>>
    BY <1>6, Zenon DEF Unpark, Goto, Shape
  <2>3. pc' \in [Threads -> Labels] /\ Shape'
    BY <1>c, <2>2, Zenon DEF Labels
  <2>4. parity' \in [Indices -> {0, 1}]
    <3>1. 1 - parity[index[th]] \in {0, 1}
      <4>1. parity[index[th]] = 0 \/ parity[index[th]] = 1
        BY <1>a, <2>1, Zenon
      <4> QED BY <4>1
    <3> QED BY <1>a, <2>1, <2>2, <3>1, Zenon
  <2> QED BY <1>a, <2>2, <2>3, <2>4, Zenon DEF TypeOK
<1>7. ASSUME NEW th \in Threads, After(th) PROVE G
  BY <1>7, Zenon DEF After, Goto, TypeOK, Shape, Labels, Polling
<1>8. ASSUME NEW th \in Threads, Drain(th) PROVE G
  <2>0. /\ pc[th] = "drain" /\ th \in retired
        /\ UNCHANGED <<phase, index, retired, cur, offset, parity, shutdown, panicked>>
    BY <1>8, Zenon DEF Drain, Shape
  <2>1. CASE local[th] = <<>>
    <3>1. pc' = [pc EXCEPT ![th] = "exited"] /\ UNCHANGED <<injector, local>>
      BY <1>8, <2>1, Zenon DEF Drain, Goto
    <3>2. pc' \in [Threads -> Labels] /\ Shape'
      BY <1>c, <2>0, <3>1, Zenon DEF Labels
    <3> QED BY <1>a, <2>0, <3>1, <3>2, Zenon DEF TypeOK
  <2>2. CASE local[th] # <<>>
    <3>1. Head(local[th]) \in Tasks /\ Tail(local[th]) \in Seq(Tasks)
      BY <1>a, <2>2
    <3>2. Append(injector, Head(local[th])) \in Seq(Tasks)
      BY <1>a, <3>1
    <3>3. /\ injector' = Append(injector, Head(local[th]))
          /\ local' = [local EXCEPT ![th] = Tail(@)] /\ pc' = pc
      BY <1>8, <2>2, Zenon DEF Drain
    <3>4. local' \in [Threads -> Seq(Tasks)]
      BY <1>a, <3>1, <3>3, Zenon
    <3>5. Shape'
      BY <2>0, <3>3, Zenon DEF Shape, Polling
    <3> QED BY <1>a, <2>0, <3>2, <3>3, <3>4, <3>5, Zenon DEF TypeOK
  <2> QED BY <2>1, <2>2, Zenon
<1>9. ASSUME NEW th \in Threads, NEW u \in Tasks, PollSchedule(th, u) PROVE G
  <2>1. Append(local[th], u) \in Seq(Tasks)
    BY <1>a
  <2>2. UNCHANGED <<injector, index, retired, pc, cur, offset, parity, shutdown, panicked>>
    BY <1>9, Zenon DEF PollSchedule
  <2>3. local' \in [Threads -> Seq(Tasks)]
    BY <1>9, <1>a, <2>1, Zenon DEF PollSchedule, push_local
  <2>4. phase' \in [Tasks -> Phases]
    BY <1>9, <1>a, Zenon DEF PollSchedule, Phases
  <2>5. Shape'
    BY <2>2, Zenon DEF Shape, Polling
  <2> QED BY <1>a, <2>2, <2>3, <2>4, <2>5, Zenon DEF TypeOK
<1>10. ASSUME NEW th \in Threads, PollReady(th) PROVE G
  BY <1>10, Zenon DEF PollReady, Goto, TypeOK, Shape, Labels, Phases, Polling
<1>11. ASSUME NEW th \in Threads, PollPending(th) PROVE G
  <2>1. cur[th] \in Tasks
    BY <1>11, Zenon DEF PollPending, Shape, Polling
  <2>2. Append(local[th], cur[th]) \in Seq(Tasks)
    BY <1>a, <2>1
  <2>3. /\ pc[th] = "poll" /\ pc' = [pc EXCEPT ![th] = "after"]
        /\ cur' = [cur EXCEPT ![th] = NoTask]
        /\ UNCHANGED <<injector, index, retired, offset, parity, shutdown, panicked>>
    BY <1>11, Zenon DEF PollPending, Goto
  <2>4. local' \in [Threads -> Seq(Tasks)]
    BY <1>11, <1>a, <2>2, Zenon DEF PollPending, push_local
  <2>5. phase' \in [Tasks -> Phases]
    BY <1>11, <1>a, <2>1, Zenon DEF PollPending, Phases
  <2>6. cur' \in [Threads -> Tasks \cup {NoTask}] /\ \A x \in Threads \ {th} : cur'[x] = cur[x]
    BY <1>a, <2>3, Zenon
  <2>7. pc' \in [Threads -> Labels] /\ Shape'
    <3>1. "after" \in Labels \ {"unborn"}
      BY Zenon DEF Labels
    <3> QED BY <2>3, <2>6, <3>1, ShapeStep, Zenon
  <2> QED BY <1>a, <2>3, <2>4, <2>5, <2>6, <2>7, Zenon DEF TypeOK
<1>12. ASSUME NEW th \in Threads, BlockInPlace(th) PROVE G
  <2>0. /\ pc[th] = "poll" /\ cur[th] \in Tasks
        /\ UNCHANGED <<phase, injector, local, cur, offset, parity, shutdown, panicked>>
    BY <1>12, Zenon DEF BlockInPlace, Shape, Polling
  <2>1. CASE th \in retired
    <3>1. pc' = [pc EXCEPT ![th] = "blocking"] /\ UNCHANGED <<index, retired>>
      BY <1>12, <2>1, Zenon DEF BlockInPlace, Goto
    <3>2. pc' \in [Threads -> Labels] /\ Shape'
      <4>1. "blocking" \in Labels \ {"unborn"}
        BY Zenon DEF Labels
      <4> QED BY <2>0, <3>1, <4>1, ShapeStep, Zenon
    <3> QED BY <1>a, <2>0, <3>1, <3>2, Zenon DEF TypeOK
  <2>2. CASE th \notin retired
    <3>1. PICK new \in Threads :
              /\ pc[new] = "unborn"
              /\ index' = [index EXCEPT ![new] = index[th]]
              /\ pc' = [pc EXCEPT ![th] = "blocking", ![new] = "check"]
      BY <1>12, <2>2, Zenon DEF BlockInPlace
    <3>2. index[th] \in Indices /\ new # th
      BY <1>b, <2>0, <3>1, Zenon
    <3>3. \A i \in Indices : First[i] # new /\ First[i] \in Threads
      <4>1. -1 \notin Indices /\ index[new] = -1
        BY <3>1, SchedulerAssumption DEF Shape, Indices
      <4> QED BY <4>1, SchedulerAssumption DEF Shape
    <3>4. index[th] # -1
      BY <2>0, Zenon DEF Shape
    <3>5. retired' = retired \cup {th}
      BY <1>12, <2>2, Zenon DEF BlockInPlace
    <3>6. /\ pc' \in [Threads -> Labels] /\ index' \in [Threads -> Indices \cup {-1}]
          /\ retired' \subseteq Threads
      BY <1>a, <3>1, <3>2, <3>5, Zenon DEF Labels
    <3>7. Shape'
      BY <1>a, <2>0, <2>2, <3>1, <3>2, <3>3, <3>4, <3>5, Zenon DEF Shape, Polling
    <3> QED BY <1>a, <2>0, <3>6, <3>7, Zenon DEF TypeOK
  <2> QED BY <2>1, <2>2, Zenon
<1>13. ASSUME NEW th \in Threads, Unblock(th) PROVE G
  BY <1>13, Zenon DEF Unblock, Goto, TypeOK, Shape, Labels, Polling
<1>14. ASSUME NEW u \in Tasks, ScheduleOutside(u) PROVE G
  <2>1. Append(injector, u) \in Seq(Tasks)
    BY <1>a
  <2>2. UNCHANGED <<pc, index, retired, cur, shutdown>>
    BY <1>14, Zenon DEF ScheduleOutside
  <2>3. Shape'
    BY <2>2, Zenon DEF Shape, Polling
  <2>4. TypeOK'
    BY <1>14, <2>1, Zenon DEF ScheduleOutside, TypeOK, Phases
  <2> QED BY <2>3, <2>4, Zenon
<1>15. CASE Shutdown
  BY <1>15, Zenon DEF Shutdown, TypeOK, Shape, Polling
<1>16. CASE UNCHANGED vars
  BY <1>16, Zenon DEF vars, TypeOK, Shape, Polling
<1> QED
  BY <1>1, <1>2, <1>3, <1>4, <1>5, <1>6, <1>7, <1>8, <1>9, <1>10, <1>11, <1>12,
     <1>13, <1>14, <1>15, <1>16, Zenon DEF Next, Loop, PollReturn

------------------------------------------------------------------------------
(* No task is lost or duplicated *)

\* Exactly the queued tasks are in the queues, each in one place.
QueuesConserve ==
    /\ Distinct(injector)
    /\ \A th \in Threads : Distinct(local[th])
    /\ \A t \in Tasks :
          /\ \A th \in Threads : ~(In(t, injector) /\ In(t, local[th]))
          /\ \A th1, th2 \in Threads :
                In(t, local[th1]) /\ In(t, local[th2]) => th1 = th2
          /\ phase[t] = "queued" <=>
                In(t, injector) \/ \E th \in Threads : In(t, local[th])

\* Exactly the running tasks are polled, each by one thread.
PollersConserve ==
    \A t \in Tasks :
        /\ phase[t] \in {"running", "rerun"} <=>
              \E th \in Threads : Polling(th) /\ cur[th] = t
        /\ \A th1, th2 \in Threads :
              Polling(th1) /\ Polling(th2) /\ cur[th1] = t /\ cur[th2] = t => th1 = th2

\* Only tasks are in the queues.
LEMMA InTasks == ASSUME NEW q \in Seq(Tasks), NEW u, In(u, q) PROVE u \in Tasks
  BY DEF In

\* The phases after a step, as far as the queues can tell.
LEMMA QueuesSame ==
    ASSUME QueuesConserve, injector' = injector, local' = local,
           \A t \in Tasks : phase'[t] = "queued" <=> phase[t] = "queued"
    PROVE  QueuesConserve'
  BY Zenon DEF QueuesConserve

\* A task that was not queued is pushed on the queue of a thread.
LEMMA QueuesPushLocal ==
    ASSUME TypeOK, QueuesConserve, NEW th \in Threads, NEW t \in Tasks,
           phase[t] # "queued", phase' = [phase EXCEPT ![t] = "queued"],
           push_local(th, t), injector' = injector
    PROVE  QueuesConserve'
<1>1. local \in [Threads -> Seq(Tasks)] /\ phase \in [Tasks -> Phases]
  BY Zenon DEF TypeOK
<1>2. ~In(t, injector) /\ \A x \in Threads : ~In(t, local[x])
  BY Zenon DEF QueuesConserve
<1>3. /\ Distinct(Append(local[th], t))
      /\ \A u : In(u, Append(local[th], t)) <=> In(u, local[th]) \/ u = t
  <2>1. local[th] \in Seq(Tasks) /\ Distinct(local[th])
    BY <1>1, Zenon DEF QueuesConserve
  <2> QED BY <1>2, <2>1, PushFacts, Zenon
<1>4. local'[th] = Append(local[th], t) /\ \A x \in Threads \ {th} : local'[x] = local[x]
  BY <1>1, Zenon DEF push_local
<1>5. /\ \A u : In(u, local'[th]) <=> In(u, local[th]) \/ u = t
      /\ \A u : \A x \in Threads \ {th} : In(u, local'[x]) <=> In(u, local[x])
  BY <1>3, <1>4, Zenon
<1>6. \A x \in Threads : Distinct(local'[x])
  BY <1>3, <1>4, Zenon DEF QueuesConserve
<1>7. phase'[t] = "queued" /\ \A u \in Tasks \ {t} : phase'[u] = phase[u]
  BY <1>1, Zenon
<1>8. ASSUME NEW u \in Tasks
      PROVE  /\ \A x \in Threads : ~(In(u, injector') /\ In(u, local'[x]))
             /\ \A x, y \in Threads : In(u, local'[x]) /\ In(u, local'[y]) => x = y
             /\ phase'[u] = "queued" <=>
                   In(u, injector') \/ \E x \in Threads : In(u, local'[x])
  <2>1. CASE u = t
    BY <1>2, <1>5, <1>7, <2>1, Zenon
  <2>2. CASE u # t
    <3>1. phase'[u] = phase[u] /\ \A x \in Threads : In(u, local'[x]) <=> In(u, local[x])
      BY <1>5, <1>7, <2>2, Zenon
    <3> QED BY <3>1, Zenon DEF QueuesConserve
  <2> QED BY <2>1, <2>2, Zenon
<1> QED BY <1>6, <1>8, Zenon DEF QueuesConserve

\* A task that was not queued is pushed on the injector.
LEMMA QueuesPushInjector ==
    ASSUME TypeOK, QueuesConserve, NEW t \in Tasks,
           phase[t] # "queued", phase' = [phase EXCEPT ![t] = "queued"],
           injector' = Append(injector, t), local' = local
    PROVE  QueuesConserve'
<1>1. injector \in Seq(Tasks) /\ phase \in [Tasks -> Phases]
  BY Zenon DEF TypeOK
<1>2. ~In(t, injector) /\ \A x \in Threads : ~In(t, local[x])
  BY Zenon DEF QueuesConserve
<1>3. /\ Distinct(injector')
      /\ \A u : In(u, injector') <=> In(u, injector) \/ u = t
  BY <1>1, <1>2, PushFacts, Zenon DEF QueuesConserve
<1>4. phase'[t] = "queued" /\ \A u \in Tasks \ {t} : phase'[u] = phase[u]
  BY <1>1, Zenon
<1>5. ASSUME NEW u \in Tasks
      PROVE  /\ \A x \in Threads : ~(In(u, injector') /\ In(u, local'[x]))
             /\ \A x, y \in Threads : In(u, local'[x]) /\ In(u, local'[y]) => x = y
             /\ phase'[u] = "queued" <=>
                   In(u, injector') \/ \E x \in Threads : In(u, local'[x])
  <2>1. CASE u = t
    BY <1>2, <1>3, <1>4, <2>1, Zenon
  <2>2. CASE u # t
    BY <1>3, <1>4, <2>2, Zenon DEF QueuesConserve
  <2> QED BY <2>1, <2>2, Zenon
<1> QED BY <1>3, <1>5, Zenon DEF QueuesConserve

\* A thread pops the head of its queue and starts to run it.
LEMMA QueuesPop ==
    ASSUME TypeOK, QueuesConserve, NEW th \in Threads, local[th] # <<>>,
           phase' = [phase EXCEPT ![Head(local[th])] = "running"],
           local' = [local EXCEPT ![th] = Tail(@)], injector' = injector
    PROVE  QueuesConserve'
<1>1. local \in [Threads -> Seq(Tasks)] /\ phase \in [Tasks -> Phases]
  BY Zenon DEF TypeOK
<1> DEFINE t == Head(local[th])
<1>2. /\ t \in Tasks /\ In(t, local[th]) /\ Distinct(Tail(local[th]))
      /\ \A u : In(u, Tail(local[th])) <=> In(u, local[th]) /\ u # t
  <2>1. local[th] \in Seq(Tasks) /\ Distinct(local[th])
    BY <1>1, Zenon DEF QueuesConserve
  <2> QED BY <2>1, PopFacts, Zenon
<1> HIDE DEF t
<1>3. local'[th] = Tail(local[th]) /\ \A x \in Threads \ {th} : local'[x] = local[x]
  BY <1>1, Zenon
<1>4. \A x \in Threads : Distinct(local'[x])
  BY <1>2, <1>3, Zenon DEF QueuesConserve
<1>5. phase'[t] = "running" /\ \A u \in Tasks \ {t} : phase'[u] = phase[u]
  BY <1>1, <1>2, Zenon DEF t
<1>6. ASSUME NEW u \in Tasks
      PROVE  /\ \A x \in Threads : ~(In(u, injector') /\ In(u, local'[x]))
             /\ \A x, y \in Threads : In(u, local'[x]) /\ In(u, local'[y]) => x = y
             /\ phase'[u] = "queued" <=>
                   In(u, injector') \/ \E x \in Threads : In(u, local'[x])
  <2>0. /\ In(u, local'[th]) <=> In(u, local[th]) /\ u # t
        /\ \A x \in Threads \ {th} : In(u, local'[x]) <=> In(u, local[x])
    BY <1>2, <1>3, Zenon
  <2>1. CASE u = t
    BY <1>2, <1>5, <2>0, <2>1, Zenon DEF QueuesConserve
  <2>2. CASE u # t
    BY <1>5, <2>0, <2>2, Zenon DEF QueuesConserve
  <2> QED BY <2>1, <2>2, Zenon
<1> QED BY <1>4, <1>6, Zenon DEF QueuesConserve

\* A thread steals a batch from the injector and starts to run its head.
LEMMA QueuesStealInjector ==
    ASSUME TypeOK, QueuesConserve, NEW th \in Threads, NEW k \in Batch(injector),
           phase' = [phase EXCEPT ![Head(injector)] = "running"],
           local' = [local EXCEPT ![th] = @ \o SubSeq(injector, 2, k)],
           injector' = SubSeq(injector, k + 1, Len(injector))
    PROVE  QueuesConserve'
<1> DEFINE t == Head(injector)
           moved == SubSeq(injector, 2, k)
<1>1. /\ local \in [Threads -> Seq(Tasks)] /\ phase \in [Tasks -> Phases]
      /\ injector \in Seq(Tasks) /\ Distinct(injector) /\ Distinct(local[th])
  BY Zenon DEF TypeOK, QueuesConserve
<1>2. /\ t \in Tasks /\ In(t, injector)
      /\ moved \in Seq(Tasks) /\ Distinct(moved) /\ Distinct(injector')
      /\ \A u : /\ In(u, moved) => In(u, injector) /\ u # t /\ ~In(u, injector')
                /\ In(u, injector') => In(u, injector) /\ u # t
                /\ In(u, injector) => u = t \/ In(u, moved) \/ In(u, injector')
  BY <1>1, BatchFacts, Zenon
<1>3. local' = [local EXCEPT ![th] = @ \o moved]
  BY Zenon
<1>4. phase'[t] = "running" /\ \A u \in Tasks \ {t} : phase'[u] = phase[u]
  BY <1>1, <1>2, Zenon
<1> HIDE DEF t, moved
<1>5. \A u : ~(In(u, local[th]) /\ In(u, moved))
  <2>1. ASSUME NEW u, In(u, local[th]), In(u, moved) PROVE FALSE
    <3>1. u \in Tasks /\ In(u, injector)
      BY <1>2, <2>1, InTasks, Zenon
    <3> QED BY <2>1, <3>1, Zenon DEF QueuesConserve
  <2> QED BY <2>1, Zenon
<1>6. /\ Distinct(local[th] \o moved)
      /\ \A u : In(u, local[th] \o moved) <=> In(u, local[th]) \/ In(u, moved)
  <2>1. local[th] \in Seq(Tasks)
    BY <1>1, Zenon
  <2> QED BY <1>1, <1>2, <1>5, <2>1, JoinFacts, Zenon
<1>7. local'[th] = local[th] \o moved /\ \A x \in Threads \ {th} : local'[x] = local[x]
  BY <1>1, <1>3, Zenon
<1>8. \A x \in Threads : Distinct(local'[x])
  BY <1>6, <1>7, Zenon DEF QueuesConserve
<1>9. ASSUME NEW u \in Tasks
      PROVE  /\ \A x \in Threads : ~(In(u, injector') /\ In(u, local'[x]))
             /\ \A x, y \in Threads : In(u, local'[x]) /\ In(u, local'[y]) => x = y
             /\ phase'[u] = "queued" <=>
                   In(u, injector') \/ \E x \in Threads : In(u, local'[x])
  <2>0. /\ In(u, local'[th]) <=> In(u, local[th]) \/ In(u, moved)
        /\ \A x \in Threads \ {th} : In(u, local'[x]) <=> In(u, local[x])
    BY <1>6, <1>7, Zenon
  <2>1. CASE u = t
    BY <1>2, <1>4, <2>0, <2>1, Zenon DEF QueuesConserve
  <2>2. CASE u # t
    <3>1. phase'[u] = phase[u]
      BY <1>4, <2>2, Zenon
    <3>2. CASE In(u, injector)
      <4>1. phase[u] = "queued" /\ \A x \in Threads : ~In(u, local[x])
        BY <3>2, Zenon DEF QueuesConserve
      <4>2. In(u, moved) \/ In(u, injector')
        BY <1>2, <2>2, <3>2, Zenon
      <4> QED BY <1>2, <2>0, <3>1, <4>1, <4>2, Zenon
    <3>3. CASE ~In(u, injector)
      <4>1. ~In(u, moved) /\ ~In(u, injector')
        BY <1>2, <3>3, Zenon
      <4>2. \A x \in Threads : In(u, local'[x]) <=> In(u, local[x])
        BY <2>0, <4>1, Zenon
      <4> QED BY <3>1, <3>3, <4>1, <4>2, Zenon DEF QueuesConserve
    <3> QED BY <3>2, <3>3, Zenon
  <2> QED BY <2>1, <2>2, Zenon
<1> QED BY <1>2, <1>8, <1>9, Zenon DEF QueuesConserve

\* A thread steals a batch from the queue of another and starts to run its head.
LEMMA QueuesStealSibling ==
    ASSUME TypeOK, QueuesConserve, NEW th \in Threads, NEW victim \in Threads,
           victim # th, NEW k \in Batch(local[victim]),
           phase' = [phase EXCEPT ![Head(local[victim])] = "running"],
           local' = [local EXCEPT ![th] = @ \o SubSeq(local[victim], 2, k),
                                  ![victim] = SubSeq(@, k + 1, Len(@))],
           injector' = injector
    PROVE  QueuesConserve'
<1> DEFINE t == Head(local[victim])
           moved == SubSeq(local[victim], 2, k)
           rest == SubSeq(local[victim], k + 1, Len(local[victim]))
<1>1. /\ local \in [Threads -> Seq(Tasks)] /\ phase \in [Tasks -> Phases]
      /\ Distinct(local[victim]) /\ Distinct(local[th])
  BY Zenon DEF TypeOK, QueuesConserve
<1>2. /\ t \in Tasks /\ In(t, local[victim])
      /\ moved \in Seq(Tasks) /\ Distinct(moved) /\ Distinct(rest)
      /\ \A u : /\ In(u, moved) => In(u, local[victim]) /\ u # t /\ ~In(u, rest)
                /\ In(u, rest) => In(u, local[victim]) /\ u # t
                /\ In(u, local[victim]) => u = t \/ In(u, moved) \/ In(u, rest)
  <2>1. local[victim] \in Seq(Tasks)
    BY <1>1, Zenon
  <2> QED BY <1>1, <2>1, BatchFacts, Zenon
<1>3. local' = [local EXCEPT ![th] = @ \o moved, ![victim] = rest]
  BY <1>1, Zenon
<1>4. phase'[t] = "running" /\ \A u \in Tasks \ {t} : phase'[u] = phase[u]
  BY <1>1, <1>2, Zenon
<1> HIDE DEF t, moved, rest
<1>5. \A u : ~(In(u, local[th]) /\ In(u, moved))
  <2>1. ASSUME NEW u, In(u, local[th]), In(u, moved) PROVE FALSE
    <3>1. u \in Tasks /\ In(u, local[victim])
      BY <1>2, <2>1, InTasks, Zenon
    <3> QED BY <2>1, <3>1, Zenon DEF QueuesConserve
  <2> QED BY <2>1, Zenon
<1>6. /\ Distinct(local[th] \o moved)
      /\ \A u : In(u, local[th] \o moved) <=> In(u, local[th]) \/ In(u, moved)
  <2>1. local[th] \in Seq(Tasks)
    BY <1>1, Zenon
  <2> QED BY <1>1, <1>2, <1>5, <2>1, JoinFacts, Zenon
<1>7. /\ local'[th] = local[th] \o moved /\ local'[victim] = rest
      /\ \A x \in Threads \ {th, victim} : local'[x] = local[x]
  BY <1>1, <1>3, Zenon
<1>8. \A x \in Threads : Distinct(local'[x])
  BY <1>2, <1>6, <1>7, Zenon DEF QueuesConserve
<1>9. ASSUME NEW u \in Tasks
      PROVE  /\ \A x \in Threads : ~(In(u, injector') /\ In(u, local'[x]))
             /\ \A x, y \in Threads : In(u, local'[x]) /\ In(u, local'[y]) => x = y
             /\ phase'[u] = "queued" <=>
                   In(u, injector') \/ \E x \in Threads : In(u, local'[x])
  <2>0. /\ In(u, local'[th]) <=> In(u, local[th]) \/ In(u, moved)
        /\ In(u, local'[victim]) <=> In(u, rest)
        /\ \A x \in Threads \ {th, victim} : In(u, local'[x]) <=> In(u, local[x])
    BY <1>6, <1>7, Zenon
  <2>1. CASE u = t
    <3>1. ~In(u, injector) /\ \A x \in Threads \ {victim} : ~In(u, local[x])
      BY <1>2, <2>1, Zenon DEF QueuesConserve
    <3>2. ~In(u, moved) /\ ~In(u, rest)
      BY <1>2, <2>1, Zenon
    <3>3. \A x \in Threads : ~In(u, local'[x])
      BY <2>0, <3>1, <3>2, Zenon
    <3> QED BY <1>4, <2>1, <3>1, <3>3, Zenon
  <2>2. CASE u # t
    <3>1. phase'[u] = phase[u]
      BY <1>4, <2>2, Zenon
    <3>2. CASE In(u, local[victim])
      <4>1. /\ phase[u] = "queued" /\ ~In(u, injector)
            /\ \A x \in Threads \ {victim} : ~In(u, local[x])
        BY <3>2, Zenon DEF QueuesConserve
      <4>2. In(u, moved) \/ In(u, rest)
        BY <1>2, <2>2, <3>2, Zenon
      <4> QED BY <1>2, <2>0, <3>1, <4>1, <4>2, Zenon
    <3>3. CASE ~In(u, local[victim])
      <4>1. ~In(u, moved) /\ ~In(u, rest)
        BY <1>2, <3>3, Zenon
      <4>2. \A x \in Threads : In(u, local'[x]) <=> In(u, local[x])
        BY <2>0, <3>3, <4>1, Zenon
      <4> QED BY <3>1, <4>2, Zenon DEF QueuesConserve
    <3> QED BY <3>2, <3>3, Zenon
  <2> QED BY <2>1, <2>2, Zenon
<1> QED BY <1>8, <1>9, Zenon DEF QueuesConserve

\* A retiring thread hands the head of its queue to the injector.
LEMMA QueuesDrain ==
    ASSUME TypeOK, QueuesConserve, NEW th \in Threads, local[th] # <<>>,
           phase' = phase, local' = [local EXCEPT ![th] = Tail(@)],
           injector' = Append(injector, Head(local[th]))
    PROVE  QueuesConserve'
<1> DEFINE t == Head(local[th])
<1>1. /\ local \in [Threads -> Seq(Tasks)] /\ injector \in Seq(Tasks)
      /\ Distinct(local[th]) /\ Distinct(injector)
  BY Zenon DEF TypeOK, QueuesConserve
<1>2. /\ t \in Tasks /\ In(t, local[th]) /\ Distinct(Tail(local[th]))
      /\ \A u : In(u, Tail(local[th])) <=> In(u, local[th]) /\ u # t
  <2>1. local[th] \in Seq(Tasks)
    BY <1>1, Zenon
  <2> QED BY <1>1, <2>1, PopFacts, Zenon
<1>3. ~In(t, injector) /\ \A x \in Threads \ {th} : ~In(t, local[x])
  BY <1>2, Zenon DEF QueuesConserve
<1>4. Distinct(injector') /\ \A u : In(u, injector') <=> In(u, injector) \/ u = t
  BY <1>1, <1>2, <1>3, PushFacts, Zenon
<1> HIDE DEF t
<1>5. local'[th] = Tail(local[th]) /\ \A x \in Threads \ {th} : local'[x] = local[x]
  BY <1>1, Zenon
<1>6. \A x \in Threads : Distinct(local'[x])
  BY <1>2, <1>5, Zenon DEF QueuesConserve
<1>7. ASSUME NEW u \in Tasks
      PROVE  /\ \A x \in Threads : ~(In(u, injector') /\ In(u, local'[x]))
             /\ \A x, y \in Threads : In(u, local'[x]) /\ In(u, local'[y]) => x = y
             /\ phase'[u] = "queued" <=>
                   In(u, injector') \/ \E x \in Threads : In(u, local'[x])
  <2>0. /\ In(u, local'[th]) <=> In(u, local[th]) /\ u # t
        /\ \A x \in Threads \ {th} : In(u, local'[x]) <=> In(u, local[x])
    BY <1>2, <1>5, Zenon
  <2>1. CASE u = t
    <3>1. phase[u] = "queued"
      BY <1>2, <2>1, Zenon DEF QueuesConserve
    <3>2. \A x \in Threads : ~In(u, local'[x])
      BY <1>3, <2>0, <2>1, Zenon
    <3> QED BY <1>4, <2>1, <3>1, <3>2, Zenon
  <2>2. CASE u # t
    BY <1>4, <2>0, <2>2, Zenon DEF QueuesConserve
  <2> QED BY <2>1, <2>2, Zenon
<1> QED BY <1>4, <1>6, <1>7, Zenon DEF QueuesConserve

\* A thread that polls nothing starts to run a queued task.
LEMMA PollersStart ==
    ASSUME TypeOK, PollersConserve, NEW th \in Threads, NEW t \in Tasks,
           ~Polling(th), phase[t] = "queued", Start(th, t)
    PROVE  PollersConserve'
<1>1. /\ phase \in [Tasks -> Phases] /\ pc \in [Threads -> Labels]
      /\ cur \in [Threads -> Tasks \cup {NoTask}]
  BY Zenon DEF TypeOK
<1>2. phase'[t] = "running" /\ \A u \in Tasks \ {t} : phase'[u] = phase[u]
  BY <1>1, Zenon DEF Start
<1>3. /\ Polling(th)' /\ cur'[th] = t
      /\ \A x \in Threads \ {th} : (Polling(x)' <=> Polling(x)) /\ cur'[x] = cur[x]
  BY <1>1, Zenon DEF Start, Goto, Polling
<1>4. \A x \in Threads : ~(Polling(x) /\ cur[x] = t)
  BY Zenon DEF PollersConserve
<1>5. ASSUME NEW u \in Tasks
      PROVE  /\ phase'[u] \in {"running", "rerun"} <=>
                   \E x \in Threads : Polling(x)' /\ cur'[x] = u
             /\ \A x, y \in Threads :
                   Polling(x)' /\ Polling(y)' /\ cur'[x] = u /\ cur'[y] = u => x = y
  <2>1. CASE u = t
    BY <1>2, <1>3, <1>4, <2>1, Zenon
  <2>2. CASE u # t
    <3>1. \A x \in Threads : Polling(x)' /\ cur'[x] = u <=> Polling(x) /\ cur[x] = u
      BY <1>3, <2>2, Zenon
    <3> QED BY <1>2, <2>2, <3>1, Zenon DEF PollersConserve
  <2> QED BY <2>1, <2>2, Zenon
<1> QED BY <1>5, Zenon DEF PollersConserve

\* A poll returns, and the task is no longer running.
LEMMA PollersReturn ==
    ASSUME TypeOK, PollersConserve, NEW th \in Threads, NEW p \in {"queued", "idle", "done"},
           pc[th] = "poll", cur[th] \in Tasks, phase' = [phase EXCEPT ![cur[th]] = p],
           pc' = [pc EXCEPT ![th] = "after"], cur' = [cur EXCEPT ![th] = NoTask]
    PROVE  PollersConserve'
<1>1. /\ phase \in [Tasks -> Phases] /\ pc \in [Threads -> Labels]
      /\ cur \in [Threads -> Tasks \cup {NoTask}]
  BY Zenon DEF TypeOK
<1>2. phase'[cur[th]] = p /\ \A u \in Tasks \ {cur[th]} : phase'[u] = phase[u]
  BY <1>1, Zenon
<1>3. /\ Polling(th) /\ ~Polling(th)'
      /\ \A x \in Threads \ {th} : (Polling(x)' <=> Polling(x)) /\ cur'[x] = cur[x]
  BY <1>1, Zenon DEF Polling
<1>4. \A x \in Threads \ {th} : ~(Polling(x) /\ cur[x] = cur[th])
  BY <1>3, Zenon DEF PollersConserve
<1>5. ASSUME NEW u \in Tasks
      PROVE  /\ phase'[u] \in {"running", "rerun"} <=>
                   \E x \in Threads : Polling(x)' /\ cur'[x] = u
             /\ \A x, y \in Threads :
                   Polling(x)' /\ Polling(y)' /\ cur'[x] = u /\ cur'[y] = u => x = y
  <2>1. CASE u = cur[th]
    BY <1>2, <1>3, <1>4, <2>1, Zenon
  <2>2. CASE u # cur[th]
    <3>1. \A x \in Threads : Polling(x)' /\ cur'[x] = u <=> Polling(x) /\ cur[x] = u
      BY <1>3, <2>2, Zenon
    <3> QED BY <1>2, <2>2, <3>1, ZenonT(40) DEF PollersConserve
  <2> QED BY <2>1, <2>2, Zenon
<1> QED BY <1>5, Zenon DEF PollersConserve

\* No thread starts or ends a poll.
LEMMA PollersSame ==
    ASSUME PollersConserve, cur' = cur, \A x \in Threads : Polling(x)' <=> Polling(x),
           \A u \in Tasks : phase'[u] \in {"running", "rerun"} <=> phase[u] \in {"running", "rerun"}
    PROVE  PollersConserve'
  BY Zenon DEF PollersConserve

\* Every step moves the tasks between the queues and the threads without losing
\* or duplicating one.
LEMMA ConserveStep ==
    ASSUME TypeOK, Shape, QueuesConserve, PollersConserve, [Next]_vars
    PROVE  QueuesConserve' /\ PollersConserve'
<1> DEFINE G == QueuesConserve' /\ PollersConserve'
<1>a. /\ phase \in [Tasks -> Phases] /\ pc \in [Threads -> Labels]
      /\ injector \in Seq(Tasks) /\ local \in [Threads -> Seq(Tasks)]
      /\ cur \in [Threads -> Tasks \cup {NoTask}]
  BY Zenon DEF TypeOK
\* A step that moves no task.
<1>b. ASSUME phase' = phase, injector' = injector, local' = local, cur' = cur,
             \A x \in Threads : Polling(x)' <=> Polling(x)
      PROVE  G
  BY <1>b, QueuesSame, PollersSame, Zenon
<1>c. ASSUME NEW th \in Threads, NEW l \in Labels, pc' = [pc EXCEPT ![th] = l],
             ~Polling(th), l \notin {"poll", "blocking"}
      PROVE  \A x \in Threads : Polling(x)' <=> Polling(x)
  BY <1>a, <1>c, Zenon DEF Polling
<1>1. ASSUME NEW th \in Threads, Check(th) PROVE G
  BY <1>1, <1>a, <1>b, Zenon DEF Check, Goto, Polling
<1>2. ASSUME NEW th \in Threads, PopLocal(th) PROVE G
  <2>0. pc[th] = "pop" /\ ~Polling(th) /\ injector' = injector
    BY <1>2, Zenon DEF PopLocal, Polling
  <2>1. CASE local[th] = <<>>
    <3>1. pc' = [pc EXCEPT ![th] = "inject"] /\ UNCHANGED <<phase, local, cur>>
      BY <1>2, <2>1, Zenon DEF PopLocal, Goto
    <3> QED BY <1>b, <1>c, <2>0, <3>1, Zenon DEF Labels
  <2>2. CASE local[th] # <<>>
    <3>1. Start(th, Head(local[th])) /\ local' = [local EXCEPT ![th] = Tail(@)]
      BY <1>2, <2>2, Zenon DEF PopLocal
    <3>2. QueuesConserve'
      BY <2>0, <2>2, <3>1, QueuesPop, Zenon DEF Start
    <3>3. Head(local[th]) \in Tasks /\ phase[Head(local[th])] = "queued"
      <4>1. Head(local[th]) \in Tasks /\ In(Head(local[th]), local[th])
        <5>1. local[th] \in Seq(Tasks) /\ Distinct(local[th])
          BY <1>a, Zenon DEF QueuesConserve
        <5> QED BY <2>2, <5>1, PopFacts, Zenon
      <4> QED BY <4>1, Zenon DEF QueuesConserve
    <3> QED BY <2>0, <3>1, <3>2, <3>3, PollersStart, Zenon
  <2> QED BY <2>1, <2>2, Zenon
<1>3. ASSUME NEW th \in Threads, StealInjector(th) PROVE G
  <2>0. pc[th] = "inject" /\ ~Polling(th)
    BY <1>3, Zenon DEF StealInjector, Polling
  <2>1. CASE InjectorEmpty(th)
    BY <1>b, <1>c, <2>0, <2>1, Zenon DEF InjectorEmpty, Goto, Labels
  <2>2. CASE injector # <<>> /\ StealBatch(th, 2)
    <3>1. PICK k \in Batch(injector) :
              /\ local' = [local EXCEPT ![th] = @ \o SubSeq(injector, 2, k)]
              /\ injector' = SubSeq(injector, k + 1, Len(injector))
      BY <2>2, Zenon DEF StealBatch
    <3>2. Start(th, Head(injector))
      BY <2>2, Zenon DEF StealBatch
    <3>3. QueuesConserve'
      BY <3>1, <3>2, QueuesStealInjector, ZenonT(30) DEF Start
    <3>4. Head(injector) \in Tasks /\ phase[Head(injector)] = "queued"
      <4>1. Head(injector) \in Tasks /\ In(Head(injector), injector)
        BY <1>a, <2>2, PopFacts, Zenon DEF QueuesConserve
      <4> QED BY <4>1, Zenon DEF QueuesConserve
    <3> QED BY <2>0, <3>2, <3>3, <3>4, PollersStart, Zenon
  <2> QED BY <1>3, <2>1, <2>2, Zenon DEF StealInjector
<1>4. ASSUME NEW th \in Threads, StealSibling(th) PROVE G
  <2> DEFINE victim == stealers[(index[th] + offset[th]) % N]
  <2>0. pc[th] = "steal" /\ ~Polling(th) /\ injector' = injector
    BY <1>4, ZenonT(30) DEF StealSibling, StealBelow, Polling
  <2>1. CASE Goto(th, "park") /\ UNCHANGED <<phase, local, cur, offset>>
    BY <1>b, <1>c, <2>0, <2>1, Zenon DEF Goto, Labels
  <2>2. CASE UNCHANGED <<phase, local, pc, cur>>
    BY <1>b, <2>0, <2>2, Zenon DEF Polling
  <2>3. CASE /\ offset[th] < N /\ local[victim] # <<>>
             /\ Start(th, Head(local[victim]))
             /\ \E k \in Batch(local[victim]) :
                   local' = [local EXCEPT ![th] = @ \o SubSeq(local[victim], 2, k),
                                          ![victim] = SubSeq(@, k + 1, Len(@))]
    <3>1. victim \in Threads /\ victim # th
      BY <2>0, <2>3, VictimIsOther, Zenon
    <3> HIDE DEF victim
    <3>2. PICK k \in Batch(local[victim]) :
              local' = [local EXCEPT ![th] = @ \o SubSeq(local[victim], 2, k),
                                     ![victim] = SubSeq(@, k + 1, Len(@))]
      BY <2>3, Zenon
    <3>3. QueuesConserve'
      BY <2>0, <2>3, <3>1, <3>2, QueuesStealSibling, Zenon DEF Start
    <3>4. Head(local[victim]) \in Tasks /\ phase[Head(local[victim])] = "queued"
      <4>1. Head(local[victim]) \in Tasks /\ In(Head(local[victim]), local[victim])
        <5>1. local[victim] \in Seq(Tasks) /\ Distinct(local[victim])
          BY <1>a, <3>1, Zenon DEF QueuesConserve
        <5> QED BY <2>3, <5>1, PopFacts, Zenon
      <4> QED BY <3>1, <4>1, Zenon DEF QueuesConserve
    <3> QED BY <2>0, <2>3, <3>3, <3>4, PollersStart, Zenon
  <2> QED BY <1>4, <2>1, <2>2, <2>3, Zenon DEF StealSibling, StealBelow
<1>5. ASSUME NEW th \in Threads, Park(th) PROVE G
  BY <1>5, <1>a, <1>b, Zenon DEF Park, Goto, Polling
<1>6. ASSUME NEW th \in Threads, Unpark(th) PROVE G
  BY <1>6, <1>a, <1>b, Zenon DEF Unpark, Goto, Polling
<1>7. ASSUME NEW th \in Threads, After(th) PROVE G
  BY <1>7, <1>a, <1>b, Zenon DEF After, Goto, Polling
<1>8. ASSUME NEW th \in Threads, Drain(th) PROVE G
  <2>0. pc[th] = "drain" /\ ~Polling(th) /\ UNCHANGED <<phase, cur>>
    BY <1>8, Zenon DEF Drain, Polling
  <2>1. CASE local[th] = <<>>
    <3>1. pc' = [pc EXCEPT ![th] = "exited"] /\ UNCHANGED <<injector, local>>
      BY <1>8, <2>1, Zenon DEF Drain, Goto
    <3> QED BY <1>b, <1>c, <2>0, <3>1, Zenon DEF Labels
  <2>2. CASE local[th] # <<>>
    <3>1. /\ injector' = Append(injector, Head(local[th]))
          /\ local' = [local EXCEPT ![th] = Tail(@)] /\ pc' = pc
      BY <1>8, <2>2, Zenon DEF Drain
    <3>2. QueuesConserve'
      BY <2>0, <2>2, <3>1, QueuesDrain, Zenon
    <3> QED BY <2>0, <3>1, <3>2, PollersSame, Zenon DEF Polling
  <2> QED BY <2>1, <2>2, Zenon
<1>9. ASSUME NEW th \in Threads, NEW u \in Tasks, PollSchedule(th, u) PROVE G
  <2>0. injector' = injector /\ cur' = cur /\ \A x \in Threads : Polling(x)' <=> Polling(x)
    BY <1>9, Zenon DEF PollSchedule, Polling
  <2>1. CASE /\ phase[u] \in {"fresh", "idle"} /\ push_local(th, u)
             /\ phase' = [phase EXCEPT ![u] = "queued"]
    BY <1>a, <2>0, <2>1, QueuesPushLocal, PollersSame, Zenon
  <2>2. CASE /\ phase[u] = "running" /\ local' = local
             /\ phase' = [phase EXCEPT ![u] = "rerun"]
    BY <1>a, <2>0, <2>2, QueuesSame, PollersSame, Zenon
  <2> QED BY <1>9, <2>1, <2>2, Zenon DEF PollSchedule
<1>10. ASSUME NEW th \in Threads, PollReady(th) PROVE G
  <2>1. /\ pc[th] = "poll" /\ phase' = [phase EXCEPT ![cur[th]] = "done"]
        /\ cur' = [cur EXCEPT ![th] = NoTask] /\ pc' = [pc EXCEPT ![th] = "after"]
        /\ UNCHANGED <<injector, local>>
    BY <1>10, Zenon DEF PollReady, Goto
  <2>2. cur[th] \in Tasks /\ phase[cur[th]] \in {"running", "rerun"}
    BY <2>1, Zenon DEF Shape, Polling, PollersConserve
  <2>3. \A u \in Tasks : phase'[u] = "queued" <=> phase[u] = "queued"
    BY <1>a, <2>1, <2>2, Zenon
  <2> QED BY <2>1, <2>2, <2>3, QueuesSame, PollersReturn, Zenon
<1>11. ASSUME NEW th \in Threads, PollPending(th) PROVE G
  <2>1. /\ pc[th] = "poll" /\ injector' = injector
        /\ cur' = [cur EXCEPT ![th] = NoTask] /\ pc' = [pc EXCEPT ![th] = "after"]
    BY <1>11, Zenon DEF PollPending, Goto
  <2>2. cur[th] \in Tasks
    BY <2>1, Zenon DEF Shape, Polling
  <2>3. CASE /\ phase[cur[th]] = "running" /\ local' = local
             /\ phase' = [phase EXCEPT ![cur[th]] = "idle"]
    <3>1. \A u \in Tasks : phase'[u] = "queued" <=> phase[u] = "queued"
      BY <1>a, <2>2, <2>3, Zenon
    <3> QED BY <2>1, <2>2, <2>3, <3>1, QueuesSame, PollersReturn, Zenon
  <2>4. CASE /\ phase[cur[th]] = "rerun" /\ push_local(th, cur[th])
             /\ phase' = [phase EXCEPT ![cur[th]] = "queued"]
    <3>1. QueuesConserve'
      BY <2>1, <2>2, <2>4, QueuesPushLocal, Zenon
    <3> QED BY <2>1, <2>2, <2>4, <3>1, PollersReturn, Zenon
  <2> QED BY <1>11, <2>3, <2>4, Zenon DEF PollPending
<1>12. ASSUME NEW th \in Threads, BlockInPlace(th) PROVE G
  <2>0. pc[th] = "poll" /\ UNCHANGED <<phase, injector, local, cur>>
    BY <1>12, Zenon DEF BlockInPlace
  <2>1. \A x \in Threads : Polling(x)' <=> Polling(x)
    <3>1. CASE th \in retired
      BY <1>12, <1>a, <2>0, <3>1, Zenon DEF BlockInPlace, Goto, Polling
    <3>2. CASE th \notin retired
      <4>1. PICK new \in Threads :
                pc[new] = "unborn" /\ pc' = [pc EXCEPT ![th] = "blocking", ![new] = "check"]
        BY <1>12, <3>2, Zenon DEF BlockInPlace
      <4> QED BY <1>a, <2>0, <4>1, Zenon DEF Polling
    <3> QED BY <3>1, <3>2, Zenon
  <2> QED BY <1>b, <2>0, <2>1, Zenon
<1>13. ASSUME NEW th \in Threads, Unblock(th) PROVE G
  BY <1>13, <1>a, <1>b, Zenon DEF Unblock, Goto, Polling
<1>14. ASSUME NEW u \in Tasks, ScheduleOutside(u) PROVE G
  <2>0. local' = local /\ cur' = cur /\ \A x \in Threads : Polling(x)' <=> Polling(x)
    BY <1>14, Zenon DEF ScheduleOutside, Polling
  <2>1. CASE /\ phase[u] \in {"fresh", "idle"} /\ injector' = Append(injector, u)
             /\ phase' = [phase EXCEPT ![u] = "queued"]
    BY <1>a, <2>0, <2>1, QueuesPushInjector, PollersSame, Zenon
  <2>2. CASE /\ phase[u] = "running" /\ injector' = injector
             /\ phase' = [phase EXCEPT ![u] = "rerun"]
    BY <1>a, <2>0, <2>2, QueuesSame, PollersSame, Zenon
  <2> QED BY <1>14, <2>1, <2>2, Zenon DEF ScheduleOutside
<1>15. CASE Shutdown
  BY <1>15, <1>b, Zenon DEF Shutdown, Polling
<1>16. CASE UNCHANGED vars
  BY <1>16, <1>b, Zenon DEF vars, Polling
<1> QED
  BY <1>1, <1>2, <1>3, <1>4, <1>5, <1>6, <1>7, <1>8, <1>9, <1>10, <1>11, <1>12,
     <1>13, <1>14, <1>15, <1>16, Zenon DEF Next, Loop, PollReturn

------------------------------------------------------------------------------
(* Replacement and retirement *)

\* A step of a thread within the loop leaves its index to whoever serves it.
LEMMA ServersSame ==
    ASSUME TypeOK, OneServerPerIndex, NEW th \in Threads, NEW l \in Labels \ {"unborn"},
           pc[th] # "unborn", pc' = [pc EXCEPT ![th] = l], index' = index,
           retired' = retired, shutdown' = shutdown,
           l = "exited" => th \in retired \/ shutdown
    PROVE  OneServerPerIndex'
<1>1. pc \in [Threads -> Labels]
  BY Zenon DEF TypeOK
<1>2. pc'[th] = l /\ \A x \in Threads \ {th} : pc'[x] = pc[x]
  BY <1>1, Zenon
<1>3. \A x \in Threads, i \in Indices : Serves(x, i)' <=> Serves(x, i)
  BY <1>2, Zenon DEF Serves
<1>4. ASSUME NEW i \in Indices
      PROVE  \E x \in Threads : Serves(x, i)' /\ (pc'[x] = "exited" => shutdown')
  <2>1. PICK x \in Threads : Serves(x, i) /\ (pc[x] = "exited" => shutdown)
    BY Zenon DEF OneServerPerIndex
  <2>2. x \notin retired
    BY <2>1, Zenon DEF Serves
  <2> QED BY <1>2, <1>3, <2>1, <2>2, Zenon
<1> QED BY <1>3, <1>4, Zenon DEF OneServerPerIndex

\* block_in_place passes the index on to the replacement.
LEMMA ServersReplace ==
    ASSUME TypeOK, Shape, OneServerPerIndex, NEW th \in Threads, NEW new \in Threads,
           th \notin retired, pc[th] = "poll", pc[new] = "unborn",
           index' = [index EXCEPT ![new] = index[th]],
           pc' = [pc EXCEPT ![th] = "blocking", ![new] = "check"],
           retired' = retired \cup {th}, shutdown' = shutdown
    PROVE  OneServerPerIndex'
<1>1. pc \in [Threads -> Labels] /\ index \in [Threads -> Indices \cup {-1}] /\ new # th
  BY Zenon DEF TypeOK
<1>2. /\ pc'[th] = "blocking" /\ pc'[new] = "check"
      /\ \A x \in Threads \ {th, new} : pc'[x] = pc[x]
  BY <1>1, Zenon
<1>3. index'[new] = index[th] /\ \A x \in Threads \ {new} : index'[x] = index[x]
  BY <1>1, Zenon
<1>4. new \notin retired /\ -1 \notin Indices /\ index[new] = -1
  BY SchedulerAssumption DEF Shape, Indices
<1>5. ASSUME NEW x \in Threads, NEW i \in Indices
      PROVE  Serves(x, i)' <=> \/ x = new /\ i = index[th]
                               \/ x \notin {th, new} /\ Serves(x, i)
  <2>1. CASE x = th
    BY <1>1, <2>1, Zenon DEF Serves
  <2>2. CASE x = new
    <3>1. pc'[x] # "unborn" /\ x \notin retired' /\ index'[x] = index[th]
      BY <1>1, <1>2, <1>3, <1>4, <2>2, Zenon
    <3>2. Serves(x, i)' <=> i = index[th]
      BY <3>1, Zenon DEF Serves
    <3> QED BY <1>1, <2>2, <3>2, Zenon
  <2>3. CASE x # th /\ x # new
    <3>1. pc'[x] = pc[x] /\ index'[x] = index[x] /\ (x \in retired' <=> x \in retired)
      BY <1>2, <1>3, <2>3, Zenon
    <3> QED BY <2>3, <3>1, Zenon DEF Serves
  <2> QED BY <2>1, <2>2, <2>3, Zenon
<1>6. Serves(th, index[th])
  BY Zenon DEF Serves
<1>7. ASSUME NEW i \in Indices
      PROVE  /\ \E x \in Threads : Serves(x, i)' /\ (pc'[x] = "exited" => shutdown')
             /\ \A x, y \in Threads : Serves(x, i)' /\ Serves(y, i)' => x = y
  <2>1. CASE i = index[th]
    <3>1. \A x \in Threads : Serves(x, i) => x = th
      BY <1>6, <2>1, Zenon DEF OneServerPerIndex
    <3>2. \A x \in Threads : Serves(x, i)' <=> x = new
      <4>1. ASSUME NEW x \in Threads, Serves(x, i)' PROVE x = new
        <5>1. x = new \/ (x # th /\ Serves(x, i))
          BY <1>5, <4>1, Zenon
        <5> QED BY <3>1, <5>1, Zenon
      <4>2. Serves(new, i)'
        BY <1>5, <2>1, Zenon
      <4> QED BY <4>1, <4>2, Zenon
    <3>3. Serves(new, i)' /\ pc'[new] # "exited"
      BY <1>2, <3>2, Zenon
    <3> QED BY <3>2, <3>3, Zenon
  <2>2. CASE i # index[th]
    <3>1. PICK x \in Threads : Serves(x, i) /\ (pc[x] = "exited" => shutdown)
      BY Zenon DEF OneServerPerIndex
    <3>2. x # th /\ x # new
      BY <2>2, <3>1, <1>4, Zenon DEF Serves
    <3>3. Serves(x, i)' /\ (pc'[x] = "exited" => shutdown')
      BY <1>2, <1>5, <3>1, <3>2, Zenon
    <3>4. \A y, z \in Threads : Serves(y, i)' /\ Serves(z, i)' => y = z
      BY <1>5, <2>2, Zenon DEF OneServerPerIndex
    <3> QED BY <3>3, <3>4, Zenon
  <2> QED BY <2>1, <2>2, Zenon
<1> QED BY <1>7, Zenon DEF OneServerPerIndex

\* The count of an index changes only with its own server.
LEMMA ParitySame ==
    ASSUME TypeOK, ParkParity, NEW th \in Threads, NEW l \in Labels \ {"parked"},
           pc[th] # "parked", pc' = [pc EXCEPT ![th] = l], index' = index,
           parity' = parity
    PROVE  ParkParity'
<1>1. \A x \in Threads : pc'[x] = "parked" <=> pc[x] = "parked"
  BY Zenon DEF TypeOK
<1> QED BY <1>1, Zenon DEF ParkParity

\* A thread that parks or goes on is alone at its index.
LEMMA ParityFlip ==
    ASSUME TypeOK, Shape, OneServerPerIndex, ParkParity, NEW th \in Threads,
           \/ pc[th] = "park" /\ pc' = [pc EXCEPT ![th] = "parked"]
           \/ pc[th] = "parked" /\ pc' = [pc EXCEPT ![th] = "after"],
           parity' = [parity EXCEPT ![index[th]] = 1 - @], index' = index
    PROVE  ParkParity'
<1>1. /\ pc \in [Threads -> Labels] /\ parity \in [Indices -> {0, 1}]
      /\ index[th] \in Indices /\ th \notin retired
  <2>1. pc \in [Threads -> Labels] /\ parity \in [Indices -> {0, 1}]
    BY Zenon DEF TypeOK
  <2>2. index[th] \in Indices \cup {-1} /\ index[th] # -1
    BY Zenon DEF TypeOK, Shape
  <2>3. th \notin retired
    BY Zenon DEF Shape
  <2> QED BY <2>1, <2>2, <2>3, Zenon
<1>2. \A x \in Threads \ {th} : pc'[x] = pc[x]
  BY <1>1, Zenon
<1>3. \A x \in Threads : index[x] = index[th] /\ pc[x] = "parked" => x = th
  <2>1. Serves(th, index[th])
    BY <1>1, Zenon DEF Serves
  <2>2. ASSUME NEW x \in Threads, index[x] = index[th], pc[x] = "parked" PROVE x = th
    <3>1. Serves(x, index[th])
      BY <2>2, Zenon DEF Serves, Shape
    <3> QED BY <1>1, <2>1, <3>1, Zenon DEF OneServerPerIndex
  <2> QED BY <2>2, Zenon
<1>4. ASSUME NEW i \in Indices
      PROVE  parity'[i] = 1 <=> \E x \in Threads : index'[x] = i /\ pc'[x] = "parked"
  <2>1. CASE i # index[th]
    <3>1. parity'[i] = parity[i]
      BY <1>1, <2>1, Zenon
    <3>2. \A x \in Threads : index[x] = i => x # th
      BY <2>1, Zenon
    <3> QED BY <1>2, <3>1, <3>2 DEF ParkParity
  <2>2. CASE i = index[th]
    <3>0. parity'[i] = 1 - parity[i] /\ parity[i] \in {0, 1}
      BY <1>1, <2>2, Zenon
    <3>1. CASE pc[th] = "park"
      <4>1. pc'[th] = "parked"
        BY <1>1, <3>1, Zenon
      <4>2. parity[i] # 1
        BY <1>3, <2>2, <3>1, Zenon DEF ParkParity
      <4>3. parity'[i] = 1
        BY <3>0, <4>2
      <4> QED BY <2>2, <4>1, <4>3, Zenon
    <3>2. CASE pc[th] = "parked"
      <4>1. pc'[th] = "after"
        BY <1>1, <3>2, Zenon
      <4>2. parity[i] = 1
        BY <2>2, <3>2, Zenon DEF ParkParity
      <4>3. parity'[i] = 0
        BY <3>0, <4>2
      <4>4. \A x \in Threads : ~(index'[x] = i /\ pc'[x] = "parked")
        BY <1>2, <1>3, <2>2, <4>1, Zenon
      <4> QED BY <4>3, <4>4
    <3> QED BY <3>1, <3>2, Zenon
  <2> QED BY <2>1, <2>2, Zenon
<1> QED BY <1>4, Zenon DEF ParkParity

\* Every step keeps one server per index, abandons no queue and keeps the parity.
LEMMA ServerStep ==
    ASSUME TypeOK, Shape, OneServerPerIndex, NoneAbandoned, ParkParity, [Next]_vars
    PROVE  OneServerPerIndex' /\ NoneAbandoned' /\ ParkParity'
<1> DEFINE G == OneServerPerIndex' /\ NoneAbandoned' /\ ParkParity'
<1>a. pc \in [Threads -> Labels] /\ local \in [Threads -> Seq(Tasks)]
  BY Zenon DEF TypeOK
\* A thread that neither parks nor exits moves within the loop.
<1>b. ASSUME NEW th \in Threads, NEW l \in Labels \ {"unborn", "parked", "exited"},
             pc[th] \notin {"unborn", "parked", "exited"}, pc' = [pc EXCEPT ![th] = l],
             \A x \in Threads : pc[x] \in {"unborn", "exited"} /\ local[x] = <<>> => local'[x] = <<>>,
             UNCHANGED <<index, retired, shutdown, parity>>
      PROVE  G
  <2>1. OneServerPerIndex'
    BY <1>b, ServersSame, Zenon
  <2>2. ParkParity'
    BY <1>b, ParitySame, Zenon
  <2>3. \A x \in Threads : pc'[x] \in {"unborn", "exited"} => pc[x] \in {"unborn", "exited"}
    BY <1>a, <1>b, Zenon
  <2> QED BY <1>b, <2>1, <2>2, <2>3, Zenon DEF NoneAbandoned
<1>c. ASSUME pc' = pc,
             \A x \in Threads : pc[x] \in {"unborn", "exited"} /\ local[x] = <<>> => local'[x] = <<>>,
             UNCHANGED <<index, retired, shutdown, parity>>
      PROVE  G
  BY <1>c DEF OneServerPerIndex, NoneAbandoned, ParkParity, Serves
\* A thread that exits leaves an empty queue, or the runtime was shut down.
<1>d. ASSUME NEW th \in Threads, pc[th] \notin {"unborn", "parked"},
             pc' = [pc EXCEPT ![th] = "exited"], shutdown \/ (th \in retired /\ local[th] = <<>>),
             UNCHANGED <<index, retired, shutdown, parity, local>>
      PROVE  G
  <2>0. "exited" \in Labels \ {"unborn", "parked"}
    BY Zenon DEF Labels
  <2>1. OneServerPerIndex'
    BY <1>d, <2>0, ServersSame, Zenon
  <2>2. ParkParity'
    BY <1>d, <2>0, ParitySame, Zenon
  <2> QED BY <1>a, <1>d, <2>1, <2>2, Zenon DEF NoneAbandoned
<1>e. ASSUME NEW th \in Threads, pc[th] \notin {"unborn", "exited"},
             \A x \in Threads \ {th} : local'[x] = local[x]
      PROVE  \A x \in Threads : pc[x] \in {"unborn", "exited"} /\ local[x] = <<>> => local'[x] = <<>>
  BY <1>e, Zenon
<1>1. ASSUME NEW th \in Threads, Check(th) PROVE G
  <2>1. CASE shutdown
    <3>1. /\ pc[th] = "check" /\ pc' = [pc EXCEPT ![th] = "exited"]
          /\ UNCHANGED <<index, retired, shutdown, parity, local>>
      BY <1>1, <2>1, Zenon DEF Check, Goto
    <3> QED BY <1>d, <2>1, <3>1, Zenon
  <2>2. CASE ~shutdown
    BY <1>1, <1>b, <2>2, Zenon DEF Check, Goto, Labels
  <2> QED BY <2>1, <2>2, Zenon
<1>2. ASSUME NEW th \in Threads, PopLocal(th) PROVE G
  <2>1. /\ pc[th] = "pop" /\ UNCHANGED <<index, retired, shutdown, parity>>
        /\ \E l \in {"inject", "poll"} : pc' = [pc EXCEPT ![th] = l]
        /\ \A x \in Threads \ {th} : local'[x] = local[x]
    BY <1>2, <1>a, Zenon DEF PopLocal, Start, Goto
  <2> QED BY <1>b, <1>e, <2>1, Zenon DEF Labels
<1>3. ASSUME NEW th \in Threads, StealInjector(th) PROVE G
  <2>1. /\ pc[th] = "inject" /\ UNCHANGED <<index, retired, shutdown, parity>>
        /\ \E l \in {"steal", "poll"} : pc' = [pc EXCEPT ![th] = l]
        /\ \A x \in Threads \ {th} : local'[x] = local[x]
    BY <1>3, <1>a, Zenon DEF StealInjector, InjectorEmpty, StealBatch, Start, Goto
  <2> QED BY <1>b, <1>e, <2>1, ZenonT(30) DEF Labels
<1>4. ASSUME NEW th \in Threads, StealSibling(th) PROVE G
  <2> DEFINE victim == stealers[(index[th] + offset[th]) % N]
  <2>0. pc[th] = "steal" /\ UNCHANGED <<index, retired, shutdown, parity>>
    BY <1>4, ZenonT(30) DEF StealSibling, StealBelow
  <2>1. CASE Goto(th, "park") /\ local' = local
    BY <1>b, <2>0, <2>1, Zenon DEF Goto, Labels
  <2>2. CASE pc' = pc /\ local' = local
    BY <1>c, <2>0, <2>2, Zenon
  <2>3. CASE /\ offset[th] < N /\ local[victim] # <<>>
             /\ Start(th, Head(local[victim]))
             /\ \E k \in Batch(local[victim]) :
                   local' = [local EXCEPT ![th] = @ \o SubSeq(local[victim], 2, k),
                                          ![victim] = SubSeq(@, k + 1, Len(@))]
    <3>1. victim \in Threads /\ victim # th
      BY <2>0, <2>3, VictimIsOther, Zenon
    <3> HIDE DEF victim
    <3>2. \A x \in Threads \ {th, victim} : local'[x] = local[x]
      BY <1>a, <2>3, <3>1, Zenon
    <3>3. \A x \in Threads : pc[x] \in {"unborn", "exited"} /\ local[x] = <<>> => local'[x] = <<>>
      BY <2>0, <2>3, <3>2, Zenon
    <3>4. "poll" \in Labels \ {"unborn", "parked", "exited"} /\ pc' = [pc EXCEPT ![th] = "poll"]
      BY <2>3, Zenon DEF Start, Goto, Labels
    <3> QED BY <1>b, <2>0, <3>3, <3>4, Zenon
  <2> QED BY <1>4, <2>1, <2>2, <2>3, Zenon DEF StealSibling, StealBelow
<1>5. ASSUME NEW th \in Threads, Park(th) PROVE G
  <2>1. /\ pc[th] = "park" /\ pc' = [pc EXCEPT ![th] = "parked"]
        /\ parity' = [parity EXCEPT ![index[th]] = 1 - @]
        /\ UNCHANGED <<local, index, retired, shutdown>>
    BY <1>5, Zenon DEF Park, Goto
  <2>2. "parked" \in Labels \ {"unborn"}
    BY Zenon DEF Labels
  <2>3. OneServerPerIndex'
    BY <2>1, <2>2, ServersSame, Zenon
  <2>4. ParkParity'
    BY <2>1, ParityFlip, Zenon
  <2> QED BY <1>a, <2>1, <2>3, <2>4, Zenon DEF NoneAbandoned
<1>6. ASSUME NEW th \in Threads, Unpark(th) PROVE G
  <2>1. /\ pc[th] = "parked" /\ pc' = [pc EXCEPT ![th] = "after"]
        /\ parity' = [parity EXCEPT ![index[th]] = 1 - @]
        /\ UNCHANGED <<local, index, retired, shutdown>>
    BY <1>6, Zenon DEF Unpark, Goto
  <2>2. "after" \in Labels \ {"unborn"}
    BY Zenon DEF Labels
  <2>3. OneServerPerIndex'
    BY <2>1, <2>2, ServersSame, Zenon
  <2>4. ParkParity'
    BY <2>1, ParityFlip, Zenon
  <2> QED BY <1>a, <2>1, <2>3, <2>4, Zenon DEF NoneAbandoned
<1>7. ASSUME NEW th \in Threads, After(th) PROVE G
  <2>1. /\ pc[th] = "after" /\ UNCHANGED <<local, index, retired, shutdown, parity>>
        /\ \E l \in {"drain", "check"} : pc' = [pc EXCEPT ![th] = l]
    BY <1>7, Zenon DEF After, Goto
  <2> QED BY <1>b, <2>1, Zenon DEF Labels
<1>8. ASSUME NEW th \in Threads, Drain(th) PROVE G
  <2>0. pc[th] = "drain" /\ th \in retired /\ UNCHANGED <<index, retired, shutdown, parity>>
    BY <1>8, Zenon DEF Drain, Shape
  <2>1. CASE local[th] = <<>>
    BY <1>8, <1>d, <2>0, <2>1, Zenon DEF Drain, Goto
  <2>2. CASE local[th] # <<>>
    <3>1. pc' = pc /\ \A x \in Threads \ {th} : local'[x] = local[x]
      BY <1>8, <1>a, <2>2, Zenon DEF Drain
    <3> QED BY <1>c, <1>e, <2>0, <3>1, Zenon
  <2> QED BY <2>1, <2>2, Zenon
<1>9. ASSUME NEW th \in Threads, NEW u \in Tasks, PollSchedule(th, u) PROVE G
  <2>1. /\ pc[th] \in {"poll", "blocking"} /\ pc' = pc
        /\ UNCHANGED <<index, retired, shutdown, parity>>
        /\ \A x \in Threads \ {th} : local'[x] = local[x]
    BY <1>9, <1>a, Zenon DEF PollSchedule, push_local
  <2> QED BY <1>c, <1>e, <2>1, Zenon
<1>10. ASSUME NEW th \in Threads, PollReady(th) PROVE G
  <2>1. /\ pc[th] = "poll" /\ UNCHANGED <<local, index, retired, shutdown, parity>>
        /\ pc' = [pc EXCEPT ![th] = "after"]
    BY <1>10, Zenon DEF PollReady, Goto
  <2> QED BY <1>b, <2>1, Zenon DEF Labels
<1>11. ASSUME NEW th \in Threads, PollPending(th) PROVE G
  <2>1. /\ pc[th] = "poll" /\ UNCHANGED <<index, retired, shutdown, parity>>
        /\ pc' = [pc EXCEPT ![th] = "after"]
        /\ \A x \in Threads \ {th} : local'[x] = local[x]
    BY <1>11, <1>a, Zenon DEF PollPending, push_local, Goto
  <2> QED BY <1>b, <1>e, <2>1, Zenon DEF Labels
<1>12. ASSUME NEW th \in Threads, BlockInPlace(th) PROVE G
  <2>0. pc[th] = "poll" /\ UNCHANGED <<local, shutdown, parity>>
    BY <1>12, Zenon DEF BlockInPlace
  <2>1. CASE th \in retired
    <3>1. pc' = [pc EXCEPT ![th] = "blocking"] /\ UNCHANGED <<index, retired>>
      BY <1>12, <2>1, Zenon DEF BlockInPlace, Goto
    <3> QED BY <1>b, <2>0, <3>1, Zenon DEF Labels
  <2>2. CASE th \notin retired
    <3>1. retired' = retired \cup {th}
      BY <1>12, <2>2, Zenon DEF BlockInPlace
    <3>2. PICK new \in Threads :
              /\ pc[new] = "unborn"
              /\ index' = [index EXCEPT ![new] = index[th]]
              /\ pc' = [pc EXCEPT ![th] = "blocking", ![new] = "check"]
      BY <1>12, <2>2, Zenon DEF BlockInPlace
    <3>3. OneServerPerIndex'
      BY <2>0, <2>2, <3>1, <3>2, ServersReplace, Zenon
    <3>4. /\ \A x \in Threads : pc'[x] = "parked" <=> pc[x] = "parked"
          /\ \A x \in Threads : pc[x] = "parked" => index'[x] = index[x]
          /\ \A x \in Threads : pc'[x] \in {"unborn", "exited"} => pc[x] \in {"unborn", "exited"}
      BY <1>a, <2>0, <3>2, Zenon DEF TypeOK
    <3>5. ParkParity'
      BY <2>0, <3>4 DEF ParkParity
    <3> QED BY <2>0, <3>3, <3>4, <3>5, Zenon DEF NoneAbandoned
  <2> QED BY <2>1, <2>2, Zenon
<1>13. ASSUME NEW th \in Threads, Unblock(th) PROVE G
  <2>1. /\ pc[th] = "blocking" /\ UNCHANGED <<local, index, retired, shutdown, parity>>
        /\ pc' = [pc EXCEPT ![th] = "poll"]
    BY <1>13, Zenon DEF Unblock, Goto
  <2> QED BY <1>b, <2>1, Zenon DEF Labels
<1>14. ASSUME NEW u \in Tasks, ScheduleOutside(u) PROVE G
  BY <1>14, <1>c, Zenon DEF ScheduleOutside
<1>15. CASE Shutdown
  BY <1>15, Zenon DEF Shutdown, OneServerPerIndex, NoneAbandoned, ParkParity, Serves
<1>16. CASE UNCHANGED vars
  BY <1>16, <1>c, Zenon DEF vars
<1> QED
  BY <1>1, <1>2, <1>3, <1>4, <1>5, <1>6, <1>7, <1>8, <1>9, <1>10, <1>11, <1>12,
     <1>13, <1>14, <1>15, <1>16, Zenon DEF Next, Loop, PollReturn

------------------------------------------------------------------------------
(* The inductive invariant and what follows from it *)

IInv == /\ TypeOK /\ Shape /\ QueuesConserve /\ PollersConserve
        /\ OneServerPerIndex /\ NoneAbandoned /\ ParkParity

\* The pool as Builder::build leaves it.
LEMMA InitInv == Init => IInv
<1> SUFFICES ASSUME Init PROVE IInv
  BY Zenon
<1>1. \A th \in Threads : local[th] = <<>> /\ ~Polling(th)
  BY Zenon DEF Init, Polling
<1>2. \A i \in Indices : /\ First[i] \in Threads /\ index[First[i]] = i
                         /\ pc[First[i]] = "check" /\ i # -1
  BY SchedulerAssumption DEF Init, Indices
<1>3. \A th \in Threads : \/ index[th] = -1 /\ pc[th] = "unborn"
                          \/ index[th] \in Indices /\ pc[th] = "check" /\ First[index[th]] = th
  BY Zenon DEF Init
<1>4. index \in [Threads -> Indices \cup {-1}] /\ pc \in [Threads -> Labels]
  <2>1. index = [th \in Threads |-> index[th]] /\ pc = [th \in Threads |-> pc[th]]
    BY Zenon DEF Init
  <2> QED BY <1>3, <2>1, Zenon DEF Labels
<1>5. TypeOK
  <2>1. 1 \in 1 .. N
    BY SchedulerAssumption
  <2>2. /\ phase \in [Tasks -> Phases] /\ retired \subseteq Threads
        /\ cur \in [Threads -> Tasks \cup {NoTask}] /\ parity \in [Indices -> {0, 1}]
        /\ shutdown \in BOOLEAN /\ panicked \in BOOLEAN
    BY Zenon DEF Init, Phases
  <2>3. injector \in Seq(Tasks) /\ local \in [Threads -> Seq(Tasks)]
    BY DEF Init
  <2>4. offset \in [Threads -> 1 .. N]
    BY <2>1, Zenon DEF Init
  <2> QED BY <1>4, <2>2, <2>3, <2>4, Zenon DEF TypeOK
<1>6. Shape
  <2>1. \A th \in Threads : pc[th] \in {"unborn", "check"} /\ th \notin retired
    BY Zenon DEF Init
  <2>2. \A th \in Threads : pc[th] = "unborn" <=> index[th] = -1
    BY <1>1, <1>2, <1>3, SchedulerAssumption, Zenon DEF Init, Indices
  <2>3. \A i \in Indices : index[First[i]] = i
    BY <1>2, <1>3, Zenon
  <2> QED BY <2>1, <2>2, <2>3, Zenon DEF Shape, Polling
<1>7. QueuesConserve
  BY <1>1, InEmpty, Zenon DEF Init, QueuesConserve
<1>8. PollersConserve
  BY <1>1, ZenonT(30) DEF Init, PollersConserve
<1>9. OneServerPerIndex
  <2>1. \A th \in Threads, i \in Indices : Serves(th, i) <=> th = First[i]
    BY <1>2, <1>3 DEF Serves, Init
  <2> QED BY <1>2, <2>1 DEF OneServerPerIndex
<1>10. NoneAbandoned
  BY <1>1, Zenon DEF NoneAbandoned
<1>11. ParkParity
  BY <1>3 DEF Init, ParkParity
<1> QED BY <1>5, <1>6, <1>7, <1>8, <1>9, <1>10, <1>11, Zenon DEF IInv

\* Every step of the pool preserves it.
LEMMA StepInv == IInv /\ [Next]_vars => IInv'
  BY TypeStep, ConserveStep, ServerStep, Zenon DEF IInv

\* The invariant holds for any number of tasks, worker indices and threads.
THEOREM Inductive == Spec => []IInv
  BY InitInv, StepInv, PTL DEF Spec

\* No task is lost or duplicated by stealing, replacement and retirement: it is
\* queued exactly when one place of one queue holds it, and running exactly when
\* one worker polls it.
THEOREM TasksConserved == Spec => []ConservedTasks
<1>1. IInv => ConservedTasks
  BY Zenon DEF IInv, QueuesConserve, PollersConserve, ConservedTasks
<1> QED BY <1>1, Inductive, PTL

\* Each worker index keeps exactly one thread that serves it.
THEOREM WorkersReplaced == Spec => []OneServerPerIndex
<1>1. IInv => OneServerPerIndex
  BY Zenon DEF IInv
<1> QED BY <1>1, Inductive, PTL

\* A thread that exits before the shutdown leaves its queue empty: the retirement
\* drain leaves no task behind.
THEOREM RetiringDrains == Spec => []NoneAbandoned
<1>1. IInv => NoneAbandoned
  BY Zenon DEF IInv
<1> QED BY <1>1, Inductive, PTL

\* The parity of park_unpark_counts tells whether the worker is parked.
THEOREM ParityExact == Spec => []ParkParity
<1>1. IInv => ParkParity
  BY Zenon DEF IInv
<1> QED BY <1>1, Inductive, PTL

------------------------------------------------------------------------------
(* The pool implements the life of a task *)

\* A step that takes one task from one phase to another.
LEMMA LifecycleMove ==
    ASSUME NEW t \in Tasks, NEW from, NEW to, phase[t] = from,
           phase' = [phase EXCEPT ![t] = to],
           <<from, to>> \in {<<"fresh", "queued">>, <<"idle", "queued">>,
                             <<"running", "rerun">>, <<"queued", "running">>,
                             <<"running", "idle">>, <<"rerun", "queued">>,
                             <<"running", "done">>, <<"rerun", "done">>}
    PROVE  Lifecycle!Next
  BY Zenon DEF Lifecycle!Next, Lifecycle!Spawn, Lifecycle!Wake, Lifecycle!Start,
         Lifecycle!Suspend, Lifecycle!Finish, Lifecycle!Move

\* Every step of the pool is a step of the life of one task, or of none.
LEMMA LifecycleStep == IInv /\ [Next]_vars => [Lifecycle!Next]_phase
<1> SUFFICES ASSUME IInv, [Next]_vars PROVE Lifecycle!Next \/ phase' = phase
  BY Zenon
<1> DEFINE G == Lifecycle!Next \/ phase' = phase
<1>a. TypeOK /\ Shape /\ QueuesConserve /\ PollersConserve
  BY Zenon DEF IInv
<1>b. ASSUME NEW q \in Seq(Tasks), q # <<>>, Distinct(q), NEW th \in Threads,
             \A t \in Tasks : In(t, q) => phase[t] = "queued", Start(th, Head(q))
      PROVE  G
  <2>1. Head(q) \in Tasks /\ phase[Head(q)] = "queued"
    BY <1>b, PopFacts, Zenon
  <2> QED BY <1>b, <2>1, LifecycleMove, Zenon DEF Start
<1>c. ASSUME NEW x \in Threads, NEW th \in Threads, local[x] # <<>>, Start(th, Head(local[x]))
      PROVE  G
  <2>1. /\ local[x] \in Seq(Tasks) /\ Distinct(local[x])
        /\ \A t \in Tasks : In(t, local[x]) => phase[t] = "queued"
    BY <1>a, Zenon DEF TypeOK, QueuesConserve
  <2> QED BY <1>b, <1>c, <2>1, Zenon
<1>1. ASSUME NEW th \in Threads, PopLocal(th) PROVE G
  BY <1>1, <1>c, Zenon DEF PopLocal
<1>2. ASSUME NEW th \in Threads, StealInjector(th) PROVE G
  <2>1. CASE injector # <<>> /\ Start(th, Head(injector))
    <3>1. /\ injector \in Seq(Tasks) /\ Distinct(injector)
          /\ \A t \in Tasks : In(t, injector) => phase[t] = "queued"
      BY <1>a, Zenon DEF TypeOK, QueuesConserve
    <3> QED BY <1>b, <2>1, <3>1, Zenon
  <2> QED BY <1>2, <2>1, Zenon DEF StealInjector, InjectorEmpty, StealBatch
<1>3. ASSUME NEW th \in Threads, StealSibling(th) PROVE G
  <2> DEFINE victim == stealers[(index[th] + offset[th]) % N]
  <2>1. CASE offset[th] < N /\ local[victim] # <<>> /\ Start(th, Head(local[victim]))
    <3>1. victim \in Threads
      BY <1>3, <1>a, <2>1, VictimIsOther, Zenon DEF StealSibling, StealBelow
    <3> QED BY <1>c, <2>1, <3>1, Zenon
  <2> QED BY <1>3, <2>1, Zenon DEF StealSibling, StealBelow
<1>4. ASSUME NEW th \in Threads, NEW u \in Tasks, PollSchedule(th, u) PROVE G
  BY <1>4, LifecycleMove, Zenon DEF PollSchedule
<1>5. ASSUME NEW th \in Threads, PollReturn(th) PROVE G
  <2>1. pc[th] = "poll"
    BY <1>5, Zenon DEF PollReturn, PollReady, PollPending
  <2>2. cur[th] \in Tasks /\ phase[cur[th]] \in {"running", "rerun"}
    BY <1>a, <2>1, Zenon DEF Shape, PollersConserve, Polling
  <2>3. CASE PollReady(th)
    BY <2>2, <2>3, LifecycleMove, Zenon DEF PollReady
  <2>4. CASE PollPending(th)
    BY <2>2, <2>4, LifecycleMove, Zenon DEF PollPending
  <2> QED BY <1>5, <2>3, <2>4, Zenon DEF PollReturn
<1>6. ASSUME NEW u \in Tasks, ScheduleOutside(u) PROVE G
  BY <1>6, LifecycleMove, Zenon DEF ScheduleOutside
<1>7. ASSUME NEW th \in Threads,
             \/ Check(th) \/ Park(th) \/ Unpark(th) \/ After(th) \/ Drain(th)
             \/ BlockInPlace(th) \/ Unblock(th)
      PROVE  G
  BY <1>7, Zenon DEF Check, Park, Unpark, After, Drain, BlockInPlace, Unblock
<1>8. CASE Shutdown \/ UNCHANGED vars
  BY <1>8, Zenon DEF Shutdown, vars
<1> QED
  BY <1>1, <1>2, <1>3, <1>4, <1>5, <1>6, <1>7, <1>8, Zenon DEF Next, Loop

\* The queues, the stealing and the replacement of threads implement the life of
\* a task: a task woken while it runs is queued again, and only a queued task is
\* ever started.
THEOREM PoolImplementsLifecycle == Spec => ImplementsLifecycle
<1>1. Init => Lifecycle!Init
  BY Zenon DEF Init, Lifecycle!Init
<1> QED BY <1>1, LifecycleStep, Inductive, PTL DEF Spec, ImplementsLifecycle, Lifecycle!Spec
=============================================================================
