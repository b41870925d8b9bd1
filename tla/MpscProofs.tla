------------------------------ MODULE MpscProofs ------------------------------
(***************************************************************************)
(* Proofs about mpsc, bounded and unbounded, for any senders, capacity and *)
(* requests: the channel counts its senders and reservations exactly,      *)
(* loses, makes up and reorders no message, and wakes whom it can serve.   *)
(***************************************************************************)
EXTENDS Mpsc, FiniteSetTheorems, TLAPS

------------------------------------------------------------------------------
(* Sums *)

\* A sum of naturals as a number of things: f[x] of them for every x of S.
Units(f, S) == UNION {{x} \X (1..f[x]) : x \in S}

\* V has, instead of a of the things in U, b others.
Exchanged(U, V, a, b) ==
    /\ IsFiniteSet(V) /\ Cardinality(V) \in Nat
    /\ Cardinality(V) = Cardinality(U) - a + b /\ a <= Cardinality(U)

\* The things of one x.
LEMMA UnitsOfOne ==
    ASSUME NEW x, NEW n \in Nat
    PROVE  IsFiniteSet({x} \X (1..n)) /\ Cardinality({x} \X (1..n)) = n
<1>1. IsFiniteSet({x}) /\ Cardinality({x}) = 1
  BY FS_Singleton, Zenon
<1>2. IsFiniteSet(1..n) /\ Cardinality(1..n) = n
  BY FS_Interval
<1>3. /\ IsFiniteSet({x} \X (1..n))
      /\ Cardinality({x} \X (1..n)) = Cardinality({x}) * Cardinality(1..n)
  BY <1>1, <1>2, FS_Product, Zenon
<1> QED
  BY <1>1, <1>2, <1>3

\* A change of one summand changes the sum by as much.
LEMMA UnitsExcept ==
    ASSUME NEW S, NEW f, NEW g, NEW x \in S, f[x] \in Nat, g[x] \in Nat,
           \A y \in S \ {x} : g[y] = f[y], IsFiniteSet(Units(f, S))
    PROVE  Exchanged(Units(f, S), Units(g, S), f[x], g[x])
<1> DEFINE U == Units(f, S)
           A == {x} \X (1..f[x])
           B == {x} \X (1..g[x])
           R == U \ A
<1>1. /\ IsFiniteSet(A) /\ Cardinality(A) = f[x]
      /\ IsFiniteSet(B) /\ Cardinality(B) = g[x]
  BY UnitsOfOne, Zenon
<1>2. A \subseteq U
  BY Zenon DEF Units
<1>3. Units(g, S) = R \cup B /\ R \cap B = {}
  <2>1. ASSUME NEW p \in R PROVE p \in Units(g, S) /\ p \notin B
    <3>1. PICK y \in S : p \in {y} \X (1..f[y])
      BY <2>1, Zenon DEF Units
    <3>2. y # x
      BY <2>1, <3>1, Zenon
    <3> QED
      BY <3>1, <3>2, Zenon DEF Units
  <2>2. ASSUME NEW p \in Units(g, S), p \notin B PROVE p \in R
    <3>1. PICK y \in S : p \in {y} \X (1..g[y])
      BY <2>2, Zenon DEF Units
    <3>2. y # x
      BY <2>2, <3>1, Zenon
    <3> QED
      BY <3>1, <3>2, Zenon DEF Units
  <2>3. B \subseteq Units(g, S)
    BY Zenon DEF Units
  <2> HIDE DEF R, B
  <2> QED
    BY <2>1, <2>2, <2>3, Zenon
<1> HIDE DEF U, A, B
<1>4. IsFiniteSet(U) /\ U \cap A = A
  <2>1. IsFiniteSet(U)
    BY Zenon DEF U
  <2> QED
    BY <1>2, <2>1, Zenon
<1>5. IsFiniteSet(R) /\ Cardinality(R) = Cardinality(U) - f[x]
  <2>1. IsFiniteSet(U \ A) /\ Cardinality(U \ A) = Cardinality(U) - Cardinality(U \cap A)
    BY <1>4, FS_Difference, Zenon
  <2> QED
    BY <1>1, <1>4, <2>1, Zenon
<1> HIDE DEF R
<1>6. IsFiniteSet(R \cup B) /\ Cardinality(R \cup B) = Cardinality(R) + g[x]
  <2>1. Cardinality(R \cap B) = 0
    BY <1>3, FS_EmptySet, Zenon
  <2>2. /\ IsFiniteSet(R \cup B)
        /\ Cardinality(R \cup B) = Cardinality(R) + Cardinality(B) - Cardinality(R \cap B)
    BY <1>1, <1>5, FS_Union, Zenon
  <2>3. Cardinality(R) \in Nat
    BY <1>5, FS_CardinalityType, Zenon
  <2> QED
    BY <1>1, <2>1, <2>2, <2>3
<1>7. Cardinality(R) \in Nat /\ Cardinality(U) \in Nat
  BY <1>4, <1>5, FS_CardinalityType, Zenon
<1>8. Cardinality(R \cup B) \in Nat
  BY <1>6, FS_CardinalityType, Zenon
<1> QED
  BY <1>3, <1>5, <1>6, <1>7, <1>8 DEF U, Exchanged

------------------------------------------------------------------------------
(* Mpsc *)

Open == {s \in Senders : phase[s] # "none"}
Woken == {s \in Senders : Waits(s) /\ awake[s]}

\* senders_alive counts the senders, only one that lives holds permits, and
\* reserved counts the permits.
MpCount ==
    /\ IsFiniteSet(Open) /\ sendersAlive = Cardinality(Open)
    /\ \A s \in Senders : held[s] > 0 => s \in Open
    /\ IsFiniteSet(Units(held, Senders)) /\ reserved = Cardinality(Units(held, Senders))

MpFlow ==
    /\ Unbounded \/ Len(queue) + reserved <= Capacity
    /\ sent = got \o queue

\* As long as nothing disturbed the order: the queue of wakers holds exactly the
\* senders that are asleep, each once, and while it holds one there are no more
\* free slots than woken senders on their way to them.
MpWaits ==
    /\ \A s \in Senders : Waits(s) => want[s] = 1
    /\ \A i \in 1..Len(waiters) : Waits(waiters[i]) /\ ~awake[waiters[i]]
    /\ \A i, j \in 1..Len(waiters) : i # j => waiters[i] # waiters[j]
    /\ \A s \in Senders : Waits(s) /\ ~awake[s] =>
           receiverAlive /\ \E i \in 1..Len(waiters) : waiters[i] = s
    /\ waiters # <<>> =>
           ~Unbounded /\ Capacity <= Len(queue) + reserved + Cardinality(Woken)

MpInv ==
    /\ TypeOK /\ MpCount /\ MpFlow /\ ReceiverAwake
    /\ ~disturbed => MpWaits

\* A new channel is empty, with one sender.
LEMMA MpInit == ASSUME First \in Senders, Capacity \in Nat PROVE Init => MpInv
<1> SUFFICES ASSUME Init PROVE MpInv
  BY Zenon
<1>1. Open = {First}
  BY Zenon DEF Init, Open
<1>2. Units(held, Senders) = {}
  BY DEF Init, Units
<1>3. MpCount
  <2>1. IsFiniteSet(Open) /\ Cardinality(Open) = 1
    BY <1>1, FS_Singleton, Zenon
  <2>2. IsFiniteSet(Units(held, Senders)) /\ Cardinality(Units(held, Senders)) = 0
    BY <1>2, FS_EmptySet, Zenon
  <2> QED
    BY <2>1, <2>2 DEF Init, MpCount
<1>4. TypeOK
  <2>1. queue \in Seq(Senders) /\ waiters \in Seq(Senders) /\ sent \in Seq(Senders) /\ got \in Seq(Senders)
    BY DEF Init
  <2> QED
    BY <2>1, Zenon DEF Init, TypeOK
<1>5. MpFlow
  <2>1. Len(queue) = 0 /\ <<>> \o <<>> = <<>>
    BY DEF Init
  <2> QED
    BY <2>1 DEF Init, MpFlow
<1>6. ReceiverAwake
  BY Zenon DEF Init, ReceiverAwake
<1>7. MpWaits
  <2>1. Len(waiters) = 0 /\ \A s \in Senders : ~Waits(s)
    BY Zenon DEF Init, Waits
  <2> QED
    BY <2>1 DEF Init, MpWaits
<1> QED
  BY <1>3, <1>4, <1>5, <1>6, <1>7, Zenon DEF MpInv

\* A step that keeps phase and held keeps the counts if the counters stay.
LEMMA MpSameCount ==
    ASSUME MpCount, UNCHANGED <<sendersAlive, held, reserved>>,
           \A s \in Senders : phase'[s] = "none" <=> phase[s] = "none"
    PROVE  MpCount'
<1>1. Open' = Open
  BY Zenon DEF Open
<1> QED
  BY <1>1, Zenon DEF MpCount

\* reserve, fill_reserved and release_reserved change reserved as they change the
\* permits of one sender.
LEMMA MpPermits ==
    ASSUME TypeOK, MpCount, sendersAlive' = sendersAlive, NEW s \in Senders, NEW n \in Nat,
           held'[s] = n, \A u \in Senders \ {s} : held'[u] = held[u],
           reserved' = reserved - held[s] + n, s \in Open,
           \A u \in Senders : phase'[u] = "none" <=> phase[u] = "none"
    PROVE  MpCount' /\ held[s] <= reserved /\ reserved' \in Nat
<1>1. Open' = Open
  BY Zenon DEF Open
<1>2. /\ held[s] \in Nat /\ held'[s] \in Nat /\ held'[s] = n
      /\ \A u \in Senders \ {s} : held'[u] = held[u]
  BY Zenon DEF TypeOK
<1>a. IsFiniteSet(Units(held, Senders))
  BY Zenon DEF MpCount
<1>3. Exchanged(Units(held, Senders), Units(held', Senders), held[s], held'[s])
  BY <1>2, <1>a, UnitsExcept, Zenon
<1>4. IsFiniteSet(Units(held', Senders)) /\ Cardinality(Units(held', Senders)) \in Nat
  BY <1>3, Zenon DEF Exchanged
<1>5. reserved' = Cardinality(Units(held', Senders)) /\ held[s] <= reserved
  BY <1>2, <1>3, Zenon DEF MpCount, Exchanged
<1>6. \A u \in Senders : held'[u] > 0 => u \in Open
  BY <1>2, Zenon DEF MpCount
<1> QED
  BY <1>1, <1>4, <1>5, <1>6, Zenon DEF MpCount, Units

\* A message that is sent goes to the end of what was received and is queued.
LEMMA FlowSent ==
    ASSUME TypeOK, sent = got \o queue, NEW m \in Senders,
           queue' = Append(queue, m), sent' = Append(sent, m), got' = got
    PROVE  sent' = got' \o queue'
<1>1. got \in Seq(Senders) /\ queue \in Seq(Senders)
  BY Zenon DEF TypeOK
<1>2. got \o queue \in Seq(Senders) /\ <<m>> \in Seq(Senders)
  BY <1>1
<1>3. Append(got \o queue, m) = (got \o queue) \o <<m>> /\ Append(queue, m) = queue \o <<m>>
  BY <1>1, <1>2
<1>4. (got \o queue) \o <<m>> = got \o (queue \o <<m>>)
  BY <1>1, <1>2, SMTT(30)
<1> QED
  BY <1>3, <1>4, Zenon

\* A message that is received moves from one to the other.
LEMMA FlowReceived ==
    ASSUME NEW S, NEW g \in Seq(S), NEW q \in Seq(S), q # <<>>
    PROVE  Append(g, Head(q)) \o Tail(q) = g \o q
<1>1. /\ Head(q) \in S /\ Tail(q) \in Seq(S) /\ Len(Tail(q)) = Len(q) - 1
      /\ \A i \in 1..Len(Tail(q)) : Tail(q)[i] = q[i + 1]
  OBVIOUS
<1>2. <<Head(q)>> \in Seq(S) /\ Len(<<Head(q)>>) = 1 /\ <<Head(q)>>[1] = q[1]
  BY <1>1
<1>3. <<Head(q)>> \o Tail(q) = q
  <2> DEFINE c == <<Head(q)>> \o Tail(q)
  <2>1. /\ c \in Seq(S) /\ Len(c) = 1 + Len(Tail(q))
        /\ \A i \in 1..(1 + Len(Tail(q))) :
               c[i] = IF i <= 1 THEN <<Head(q)>>[i] ELSE Tail(q)[i - 1]
    BY <1>1, <1>2
  <2> HIDE DEF c
  <2>2. Len(c) = Len(q)
    BY <1>1, <2>1
  <2>3. ASSUME NEW i \in 1..Len(c) PROVE c[i] = q[i]
    <3>1. CASE i = 1
      BY <1>2, <2>1, <3>1
    <3>2. CASE i # 1
      <4>1. i - 1 \in 1..Len(Tail(q)) /\ (i - 1) + 1 = i
        BY <1>1, <2>1, <3>2
      <4> QED
        BY <1>1, <2>1, <3>2, <4>1
    <3> QED
      BY <3>1, <3>2, Zenon
  <2>4. c = q
    BY <2>1, <2>2, <2>3
  <2> QED
    BY <2>4, Zenon DEF c
<1>4. Append(g, Head(q)) = g \o <<Head(q)>>
  BY <1>1
<1>5. (g \o <<Head(q)>>) \o Tail(q) = g \o (<<Head(q)>> \o Tail(q))
  BY <1>1, <1>2, SMTT(30)
<1> QED
  BY <1>3, <1>4, <1>5, Zenon

\* The first k wakers are popped, k being n or all there are, and their senders,
\* if they still wait, woken.
LEMMA MpWake ==
    ASSUME TypeOK, NEW n \in Nat, WakeSenders(n)
    PROVE  \E k \in 0..Len(waiters) :
               /\ k <= n /\ (k = n \/ k = Len(waiters))
               /\ waiters' \in Seq(Senders) /\ Len(waiters') = Len(waiters) - k
               /\ \A i \in 1..Len(waiters') : waiters'[i] = waiters[i + k]
               /\ awake' = [s \in Senders |->
                              awake[s] \/ (Waits(s) /\ \E i \in 1..k : waiters[i] = s)]
<1> DEFINE l == Len(waiters)
           k == Min({n, l})
<1>1. waiters \in Seq(Senders) /\ l \in Nat
  BY DEF TypeOK
<1>2. k \in 0..l /\ k <= n /\ (k = n \/ k = l)
  <2>1. k = n \/ k = l
    BY <1>1 DEF Min
  <2>2. k <= n /\ k <= l
    BY <1>1 DEF Min
  <2> QED
    BY <1>1, <2>1, <2>2
<1>3. waiters' = SubSeq(waiters, k + 1, l)
  BY Zenon DEF WakeSenders
<1>4. awake' = [s \in Senders |-> awake[s] \/ (Waits(s) /\ \E i \in 1..k : waiters[i] = s)]
  BY Zenon DEF WakeSenders
<1> HIDE DEF k
<1>5. \A i \in (k + 1)..l : waiters[i] \in Senders
  BY <1>1, <1>2
<1>6. /\ waiters' \in Seq(Senders)
      /\ Len(waiters') = IF k + 1 <= l THEN l - (k + 1) + 1 ELSE 0
      /\ \A i \in 1..(l - (k + 1) + 1) : waiters'[i] = waiters[(k + 1) + i - 1]
  BY <1>1, <1>2, <1>3, <1>5
<1> HIDE DEF l
<1>7. l - (k + 1) + 1 = l - k /\ \A i \in 1..(l - k) : (k + 1) + i - 1 = i + k
  BY <1>1, <1>2
<1>8. Len(waiters') = l - k
  BY <1>1, <1>2, <1>6, <1>7
<1>9. \A i \in 1..Len(waiters') : waiters'[i] = waiters[i + k]
  BY <1>6, <1>7, <1>8, Zenon
<1> QED
  BY <1>2, <1>4, <1>6, <1>8, <1>9, Zenon DEF l

\* The first k wakers are of k senders.
LEMMA MpFirst ==
    ASSUME TypeOK, MpWaits, NEW k \in 0..Len(waiters)
    PROVE  LET W == {waiters[i] : i \in 1..k}
           IN  IsFiniteSet(W) /\ Cardinality(W) = k
<1> DEFINE W == {waiters[i] : i \in 1..k}
           f == [i \in 1..k |-> waiters[i]]
<1>1. k \in Nat /\ 1..k \subseteq 1..Len(waiters)
  BY DEF TypeOK
<1>2. f \in Bijection(1..k, W)
  BY <1>1, Zenon DEF MpWaits, Bijection, Injection, Surjection, IsInjective
<1>3. ExistsBijection(1..k, W)
  BY <1>2, Zenon DEF ExistsBijection
<1>4. IsFiniteSet(1..k) /\ Cardinality(1..k) = k
  BY <1>1, FS_Interval
<1> HIDE DEF W
<1>5. IsFiniteSet(W) /\ Cardinality(W) = Cardinality(1..k)
  BY <1>3, <1>4, FS_Bijection, Zenon
<1> QED
  BY <1>4, <1>5, Zenon DEF W

\* n slots become free and n senders are woken, or all of them.
LEMMA MpWakeKeeps ==
    ASSUME TypeOK, MpCount, MpWaits, Capacity \in Nat, NEW n \in Nat, WakeSenders(n),
           UNCHANGED <<phase, want>>, Len(queue') \in Nat, reserved' \in Nat,
           Len(queue) + reserved <= Len(queue') + reserved' + n,
           receiverAlive' = receiverAlive \/ n = Len(waiters)
    PROVE  MpWaits'
<1>1. PICK k \in 0..Len(waiters) :
          /\ k <= n /\ (k = n \/ k = Len(waiters))
          /\ waiters' \in Seq(Senders) /\ Len(waiters') = Len(waiters) - k
          /\ \A i \in 1..Len(waiters') : waiters'[i] = waiters[i + k]
          /\ awake' = [s \in Senders |->
                         awake[s] \/ (Waits(s) /\ \E i \in 1..k : waiters[i] = s)]
  BY MpWake, Zenon
<1> DEFINE W == {waiters[i] : i \in 1..k}
<1>2. IsFiniteSet(W) /\ Cardinality(W) = k
  BY MpFirst, Zenon
<1>3. Len(waiters) \in Nat /\ k \in Nat /\ waiters \in Seq(Senders) /\ awake \in [Senders -> BOOLEAN]
  BY SMTT(30) DEF TypeOK
<1>4. \A i \in 1..Len(waiters') : i + k \in 1..Len(waiters) /\ i + k \notin 1..k
  BY <1>1, <1>3
<1>5. \A s \in Senders : Waits(s)' <=> Waits(s)
  BY Zenon DEF Waits
<1>6. \A s \in Senders : awake'[s] <=> awake[s] \/ (Waits(s) /\ s \in W)
  BY <1>1, Zenon
<1>7. W \subseteq Senders /\ \A s \in W : Waits(s) /\ ~awake[s]
  <2>1. \A i \in 1..k : i \in 1..Len(waiters)
    BY <1>3
  <2>2. \A i \in 1..Len(waiters) :
            waiters[i] \in Senders /\ Waits(waiters[i]) /\ ~awake[waiters[i]]
    BY <1>3, SMTT(30) DEF MpWaits
  <2> QED
    BY <2>1, <2>2, Zenon
<1>8. Woken' = Woken \cup W /\ Woken \cap W = {}
  BY <1>5, <1>6, <1>7, Zenon DEF Woken
<1>9. Woken \subseteq Open
  BY Zenon DEF Woken, Open, Waits
<1>10. IsFiniteSet(Woken) /\ Cardinality(Woken) \in Nat
  BY <1>9, FS_Subset, FS_CardinalityType, Zenon DEF MpCount
<1>11. Cardinality(Woken') = Cardinality(Woken) + k
  <2>1. Cardinality(Woken \cap W) = 0
    BY <1>8, FS_EmptySet, Zenon
  <2>2. Cardinality(Woken \cup W) = Cardinality(Woken) + Cardinality(W) - Cardinality(Woken \cap W)
    BY <1>2, <1>10, FS_Union, Zenon
  <2> QED
    BY <1>2, <1>3, <1>8, <1>10, <2>1, <2>2
<1>12. \A s \in Senders : Waits(s)' => want'[s] = 1
  BY <1>5, Zenon DEF MpWaits
<1>13. ASSUME NEW i \in 1..Len(waiters') PROVE (Waits(waiters[i]))' /\ ~awake'[waiters'[i]]
  <2>1. waiters'[i] = waiters[i + k] /\ i + k \in 1..Len(waiters) /\ i + k \notin 1..k
    BY <1>1, <1>4, Zenon
  <2>2. waiters'[i] \in Senders /\ waiters'[i] \notin W
    BY <1>3, <2>1, SMTT(30) DEF MpWaits
  <2>3. Waits(waiters'[i]) /\ ~awake[waiters'[i]]
    BY <2>1, Zenon DEF MpWaits
  <2>4. ~awake'[waiters'[i]]
    BY <1>6, <2>2, <2>3, Zenon
  <2> QED
    BY <2>3, <2>4, Zenon DEF Waits
<1>14. ASSUME NEW i \in 1..Len(waiters'), NEW j \in 1..Len(waiters'), i # j
       PROVE  waiters'[i] # waiters'[j]
  <2>1. i + k # j + k
    BY <1>3, <1>14
  <2>2. i + k \in 1..Len(waiters) /\ j + k \in 1..Len(waiters)
    BY <1>4, Zenon
  <2>3. waiters[i + k] # waiters[j + k]
    BY <2>1, <2>2, Zenon DEF MpWaits
  <2> QED
    BY <1>1, <2>3, Zenon
<1>15. ASSUME NEW s \in Senders, Waits(s), ~awake'[s]
       PROVE  receiverAlive' /\ \E i \in 1..Len(waiters') : waiters'[i] = s
  <2>1. ~awake[s] /\ s \notin W
    BY <1>6, <1>15, Zenon
  <2>2. PICK j \in 1..Len(waiters) : waiters[j] = s
    BY <1>15, <2>1, Zenon DEF MpWaits
  <2>3. j > k
    BY <1>3, <2>1, <2>2, SMTT(30)
  <2>4. j - k \in 1..Len(waiters') /\ (j - k) + k = j
    BY <1>1, <1>3, <2>3
  <2>5. waiters'[j - k] = s
    BY <1>1, <2>2, <2>4, Zenon
  <2>6. receiverAlive
    BY <1>15, <2>1, Zenon DEF MpWaits
  <2>7. n # Len(waiters)
    BY <1>1, <1>3, <2>2, <2>3, SMTT(30)
  <2>8. receiverAlive' = receiverAlive
    BY <2>7, Zenon
  <2> QED
    BY <2>4, <2>5, <2>6, <2>8, Zenon
<1>16. ASSUME waiters' # <<>>
       PROVE  ~Unbounded /\ Capacity <= Len(queue') + reserved' + Cardinality(Woken')
  <2>1. Len(waiters') # 0
    BY <1>1, <1>16, SMTT(30)
  <2>2. k = n /\ Len(waiters) # 0
    BY <1>1, <1>3, <2>1
  <2>3. ~Unbounded /\ Capacity <= Len(queue) + reserved + Cardinality(Woken)
    BY <1>3, <2>2 DEF MpWaits
  <2>4. Len(queue) \in Nat /\ reserved \in Nat
    BY DEF TypeOK
  <2> QED
    BY <1>3, <1>10, <1>11, <2>2, <2>3, <2>4, SMTT(30)
<1> QED
  BY <1>5, <1>12, <1>13, <1>14, <1>15, <1>16, Zenon DEF MpWaits

\* A sender that sleeps no longer, or never slept, takes one slot, or stops when
\* nobody sleeps.
LEMMA MpFinishKeeps ==
    ASSUME TypeOK, MpCount, MpWaits, Capacity \in Nat, NEW s \in Senders, Finish(s),
           Waits(s) => awake[s], UNCHANGED <<waiters, receiverAlive>>,
           Len(queue') \in Nat, reserved' \in Nat,
           waiters = <<>> \/ Len(queue') + reserved' = Len(queue) + reserved + 1
    PROVE  MpWaits'
<1>1. /\ phase' = [phase EXCEPT ![s] = "idle"] /\ want' = [want EXCEPT ![s] = 0]
      /\ awake' = [awake EXCEPT ![s] = FALSE]
  BY Zenon DEF Finish
<1>2. /\ phase \in [Senders -> {"none", "idle", "send", "reserve"}]
      /\ want \in [Senders -> Nat] /\ awake \in [Senders -> BOOLEAN] /\ waiters \in Seq(Senders)
      /\ Len(queue) \in Nat /\ reserved \in Nat
  BY DEF TypeOK
<1>3. \A u \in Senders : Waits(u)' <=> Waits(u) /\ u # s
  BY <1>1, <1>2, Zenon DEF Waits
<1>4. \A u \in Senders \ {s} : awake'[u] = awake[u] /\ want'[u] = want[u]
  BY <1>1, <1>2, Zenon
<1>5. Woken' = Woken \ {s}
  BY <1>3, <1>4, Zenon DEF Woken
<1>6. Woken \subseteq Open
  BY Zenon DEF Woken, Open, Waits
<1>7. IsFiniteSet(Woken) /\ Cardinality(Woken) \in Nat
  BY <1>6, FS_Subset, FS_CardinalityType, Zenon DEF MpCount
<1>8. Cardinality(Woken') \in Nat /\ Cardinality(Woken') >= Cardinality(Woken) - 1
  <2>1. /\ IsFiniteSet(Woken \ {s})
        /\ Cardinality(Woken \ {s}) =
               IF s \in Woken THEN Cardinality(Woken) - 1 ELSE Cardinality(Woken)
    BY <1>7, FS_RemoveElement, Zenon
  <2>2. Cardinality(Woken \ {s}) \in Nat
    BY <2>1, FS_CardinalityType, Zenon
  <2> QED
    BY <1>5, <1>7, <2>1, <2>2
<1>9. \A i \in 1..Len(waiters) : waiters[i] \in Senders /\ waiters[i] # s
  BY <1>2, SMTT(30) DEF MpWaits
<1>10. \A u \in Senders : Waits(u)' => want'[u] = 1
  BY <1>3, <1>4, Zenon DEF MpWaits
<1>11. \A i \in 1..Len(waiters) : Waits(waiters[i])' /\ ~awake'[waiters[i]]
  BY <1>3, <1>4, <1>9, Zenon DEF MpWaits
<1>12. \A u \in Senders : Waits(u)' /\ ~awake'[u] =>
           receiverAlive /\ \E i \in 1..Len(waiters) : waiters[i] = u
  BY <1>3, <1>4, Zenon DEF MpWaits
<1>13. ASSUME waiters # <<>>
       PROVE  ~Unbounded /\ Capacity <= Len(queue') + reserved' + Cardinality(Woken')
  <2>1. ~Unbounded /\ Capacity <= Len(queue) + reserved + Cardinality(Woken)
    BY <1>13, Zenon DEF MpWaits
  <2> QED
    BY <1>2, <1>7, <1>8, <1>13, <2>1, SMTT(30)
<1>14. \A i, j \in 1..Len(waiters) : i # j => waiters[i] # waiters[j]
  BY Zenon DEF MpWaits
<1> QED
  BY <1>10, <1>11, <1>12, <1>13, <1>14, Zenon DEF MpWaits

\* A sender that finds no room goes to sleep at the end of the queue.
LEMMA MpWaitKeeps ==
    ASSUME TypeOK, MpCount, MpWaits, Capacity \in Nat, NEW s \in Senders,
           NEW op \in {"send", "reserve"}, Wait(s, op, 1), ~HasRoom(1), receiverAlive,
           Waits(s) => awake[s], UNCHANGED <<receiverAlive, queue, reserved>>
    PROVE  MpWaits'
<1>1. /\ phase' = [phase EXCEPT ![s] = op] /\ want' = [want EXCEPT ![s] = 1]
      /\ awake' = [awake EXCEPT ![s] = FALSE] /\ waiters' = Append(waiters, s)
  BY Zenon DEF Wait
<1>2. /\ phase \in [Senders -> {"none", "idle", "send", "reserve"}]
      /\ want \in [Senders -> Nat] /\ awake \in [Senders -> BOOLEAN] /\ waiters \in Seq(Senders)
      /\ Len(queue) \in Nat /\ reserved \in Nat /\ Len(waiters) \in Nat
  BY DEF TypeOK
<1>3. \A u \in Senders : Waits(u)' <=> Waits(u) \/ u = s
  BY <1>1, <1>2, Zenon DEF Waits
<1>4. /\ \A u \in Senders \ {s} : awake'[u] = awake[u] /\ want'[u] = want[u]
      /\ ~awake'[s] /\ want'[s] = 1
  BY <1>1, <1>2, Zenon
<1>5. /\ Len(waiters') = Len(waiters) + 1
      /\ \A i \in 1..Len(waiters) : waiters'[i] = waiters[i]
      /\ waiters'[Len(waiters) + 1] = s
  BY <1>1, <1>2
<1>6. \A i \in 1..Len(waiters') : i \in 1..Len(waiters) \/ i = Len(waiters) + 1
  BY <1>2, <1>5
<1>7. \A i \in 1..Len(waiters) : waiters[i] \in Senders /\ waiters[i] # s
  BY <1>2 DEF MpWaits
<1>8. \A u \in Senders : Waits(u)' => want'[u] = 1
  BY <1>3, <1>4, Zenon DEF MpWaits
<1>9. \A i \in 1..Len(waiters') : (Waits(waiters[i]))' /\ ~awake'[waiters'[i]]
  <2>1. TAKE i \in 1..Len(waiters')
  <2>2. CASE i = Len(waiters) + 1
    BY <1>1, <1>2, <1>5, <2>2, Zenon DEF Waits
  <2>3. CASE i \in 1..Len(waiters)
    <3>1. waiters'[i] = waiters[i] /\ waiters[i] \in Senders \ {s}
      BY <1>5, <1>7, <2>3, Zenon
    <3>2. Waits(waiters[i]) /\ ~awake[waiters[i]]
      BY <2>3, Zenon DEF MpWaits
    <3> QED
      BY <1>1, <1>2, <3>1, <3>2, Zenon DEF Waits
  <2> QED
    BY <1>6, <2>2, <2>3, Zenon
<1>10. \A i, j \in 1..Len(waiters') : i # j => waiters'[i] # waiters'[j]
  BY <1>5, <1>6, <1>7 DEF MpWaits
<1>11. ASSUME NEW u \in Senders, Waits(u)', ~awake'[u]
       PROVE  receiverAlive /\ \E i \in 1..Len(waiters') : waiters'[i] = u
  <2>1. CASE u = s
    <3>1. Len(waiters) + 1 \in 1..Len(waiters')
      BY <1>2, <1>5
    <3> QED
      BY <1>5, <2>1, <3>1, Zenon
  <2>2. CASE u # s
    <3>1. PICK i \in 1..Len(waiters) : waiters[i] = u
      BY <1>3, <1>4, <1>11, <2>2, Zenon DEF MpWaits
    <3>2. waiters'[i] = u
      BY <1>5, <3>1, Zenon
    <3>3. i \in 1..Len(waiters')
      BY <1>2, <1>5
    <3>4. receiverAlive
      BY Zenon
    <3> QED
      BY <3>2, <3>3, <3>4, Zenon
  <2> QED
    BY <2>1, <2>2, Zenon
<1>12. ~Unbounded /\ Capacity <= Len(queue') + reserved' + Cardinality(Woken')
  <2>1. Woken' \subseteq Open
    BY <1>3, <1>4, Zenon DEF Woken, Open, Waits
  <2>2. Cardinality(Woken') \in Nat
    BY <2>1, FS_Subset, FS_CardinalityType, Zenon DEF MpCount
  <2>3. ~Unbounded /\ ~(Len(queue) + reserved + 1 <= Capacity)
    BY Zenon DEF HasRoom
  <2> QED
    BY <1>2, <2>2, <2>3
<1> QED
  BY <1>8, <1>9, <1>10, <1>11, <1>12, Zenon DEF MpWaits

\* While the order is undisturbed only a live receiver has senders asleep.
LEMMA MpGone == ASSUME TypeOK, MpWaits, ~receiverAlive PROVE waiters = <<>>
<1>1. waiters \in Seq(Senders)
  BY Zenon DEF TypeOK
<1> SUFFICES ASSUME waiters # <<>> PROVE FALSE
  BY Zenon
<1>2. 1 \in 1..Len(waiters) /\ waiters[1] \in Senders
  BY <1>1
<1> QED
  BY <1>2, Zenon DEF MpWaits

\* A poll ends: the receiver is gone, or the sender takes the room there is.
LEMMA MpFinished ==
    ASSUME MpInv, Capacity \in Nat, NEW s \in Open, Finish(s),
           ~disturbed' => ~disturbed /\ (Waits(s) => awake[s]), disturbed' \in BOOLEAN,
           UNCHANGED <<receiverAlive, sendersAlive, recv, got, waiters>>,
           \/ ~receiverAlive /\ UNCHANGED <<queue, recvWaker, recvAwake, sent, reserved, held>>
           \/ HasRoom(1) /\ Push(s) /\ UNCHANGED <<reserved, held>>
           \/ \E n \in Nat :
                  /\ ~Unbounded /\ HasRoom(n) /\ (~disturbed' => n = 1)
                  /\ reserved' = reserved + n /\ held' = [held EXCEPT ![s] = @ + n]
                  /\ UNCHANGED <<queue, recvWaker, recvAwake, sent>>
    PROVE  MpInv'
<1>1. /\ TypeOK /\ MpCount /\ MpFlow /\ ReceiverAwake /\ (~disturbed => MpWaits)
  BY Zenon DEF MpInv
<1>2. s \in Senders /\ phase[s] # "none"
  BY Zenon DEF Open
<1>3. /\ phase' = [phase EXCEPT ![s] = "idle"] /\ want' = [want EXCEPT ![s] = 0]
      /\ awake' = [awake EXCEPT ![s] = FALSE]
  BY Zenon DEF Finish
<1>4. /\ phase' \in [Senders -> {"none", "idle", "send", "reserve"}]
      /\ want' \in [Senders -> Nat] /\ awake' \in [Senders -> BOOLEAN]
      /\ receiverAlive' \in BOOLEAN /\ sendersAlive' \in Nat /\ got' \in Seq(Senders)
      /\ waiters' \in Seq(Senders) /\ recv' \in {"idle", "waiting", "closed", "dropped"}
  BY <1>1, <1>2, <1>3, Zenon DEF TypeOK
<1>5. \A u \in Senders : phase'[u] = "none" <=> phase[u] = "none"
  BY <1>1, <1>2, <1>3, Zenon DEF TypeOK
<1>6. recv # "closed"
  <2>1. Cardinality(Open) # 0
    BY <1>1, FS_EmptySet, Zenon DEF MpCount
  <2> QED
    BY <1>1, <2>1, Zenon DEF MpCount, ReceiverAwake
<1>7. CASE ~receiverAlive /\ UNCHANGED <<queue, recvWaker, recvAwake, sent, reserved, held>>
  <2>1. TypeOK'
    BY <1>1, <1>4, <1>7, Zenon DEF TypeOK
  <2>2. MpCount'
    BY <1>1, <1>5, <1>7, MpSameCount, Zenon
  <2>3. MpFlow' /\ ReceiverAwake'
    BY <1>1, <1>7, Zenon DEF MpFlow, ReceiverAwake
  <2>4. ASSUME ~disturbed' PROVE MpWaits'
    <3>1. Len(queue') \in Nat /\ reserved' \in Nat
      BY <2>1 DEF TypeOK
    <3>2. waiters = <<>>
      BY <1>1, <1>7, <2>4, MpGone, Zenon
    <3> QED
      BY <1>1, <1>2, <2>4, <3>1, <3>2, MpFinishKeeps, Zenon
  <2> QED
    BY <2>1, <2>2, <2>3, <2>4, Zenon DEF MpInv
<1>8. CASE HasRoom(1) /\ Push(s) /\ UNCHANGED <<reserved, held>>
  <2>1. /\ queue' = Append(queue, s) /\ sent' = Append(sent, s) /\ recvWaker' = FALSE
        /\ recvAwake' = (recvAwake \/ (recvWaker /\ recv = "waiting"))
    BY <1>8, Zenon DEF Push
  <2>2. queue \in Seq(Senders) /\ sent \in Seq(Senders) /\ reserved \in Nat /\ got \in Seq(Senders)
    BY <1>1, Zenon DEF TypeOK
  <2>3. queue' \in Seq(Senders) /\ sent' \in Seq(Senders) /\ Len(queue') = Len(queue) + 1
    BY <1>2, <2>1, <2>2
  <2>4. TypeOK'
    BY <1>1, <1>4, <1>8, <2>1, <2>3, Zenon DEF TypeOK
  <2>5. MpCount'
    BY <1>1, <1>5, <1>8, MpSameCount, Zenon
  <2>6. MpFlow'
    <3>1. sent' = got' \o queue'
      BY <1>1, <1>2, <2>1, FlowSent, Zenon DEF MpFlow
    <3>2. Unbounded \/ Len(queue) + reserved + 1 <= Capacity
      BY <1>8, Zenon DEF HasRoom
    <3>3. Len(queue) \in Nat
      BY <2>2
    <3>4. Unbounded \/ Len(queue') + reserved' <= Capacity
      BY <1>8, <2>2, <2>3, <3>2, <3>3
    <3> QED
      BY <3>1, <3>4, Zenon DEF MpFlow
  <2>7. ReceiverAwake'
    <3>1. recv' = "waiting" => recvAwake'
      <4>1. recv = "waiting" => recvAwake \/ recvWaker
        BY <1>1, Zenon DEF ReceiverAwake
      <4>2. recvAwake' <=> (recvAwake \/ (recvWaker /\ recv = "waiting"))
        BY <2>1, Zenon
      <4>3. recv' = recv
        BY Zenon
      <4> QED
        BY <4>1, <4>2, <4>3, Zenon
    <3> QED
      BY <1>6, <3>1, Zenon DEF ReceiverAwake
  <2>8. ASSUME ~disturbed' PROVE MpWaits'
    <3>1. Len(queue') \in Nat /\ reserved' \in Nat /\ Len(queue) \in Nat
      BY <2>2, <2>3, <1>8
    <3>2. Len(queue') + reserved' = Len(queue) + reserved + 1
      BY <1>8, <2>2, <2>3, <3>1
    <3> QED
      BY <1>1, <1>2, <2>8, <3>1, <3>2, MpFinishKeeps, Zenon
  <2> QED
    BY <2>4, <2>5, <2>6, <2>7, <2>8, Zenon DEF MpInv
<1>9. ASSUME NEW n \in Nat, ~Unbounded, HasRoom(n), ~disturbed' => n = 1,
             reserved' = reserved + n, held' = [held EXCEPT ![s] = @ + n],
             UNCHANGED <<queue, recvWaker, recvAwake, sent>>
      PROVE  MpInv'
  <2>1. reserved \in Nat /\ held \in [Senders -> Nat] /\ Len(queue) \in Nat
    BY <1>1 DEF TypeOK
  <2>2. /\ held'[s] = held[s] + n /\ held[s] \in Nat
        /\ \A u \in Senders \ {s} : held'[u] = held[u]
    BY <1>2, <1>9, <2>1, Zenon
  <2>3. MpCount' /\ reserved' \in Nat
    <3>1. held[s] + n \in Nat /\ reserved' = reserved - held[s] + (held[s] + n)
      BY <1>9, <2>1, <2>2, SMTT(30)
    <3> QED
      BY <1>1, <1>2, <1>5, <2>2, <3>1, MpPermits, Zenon
  <2>4. TypeOK'
    <3>1. held' \in [Senders -> Nat]
      BY <1>2, <1>9, <2>1
    <3> QED
      BY <1>1, <1>4, <1>9, <2>3, <3>1, Zenon DEF TypeOK
  <2>5. MpFlow' /\ ReceiverAwake'
    <3>1. Len(queue) + reserved + n <= Capacity
      BY <1>9, Zenon DEF HasRoom
    <3>2. Len(queue') + reserved' <= Capacity
      BY <1>9, <2>1, <3>1
    <3> QED
      BY <1>1, <1>9, <3>2, Zenon DEF MpFlow, ReceiverAwake
  <2>6. ASSUME ~disturbed' PROVE MpWaits'
    <3>1. Len(queue') \in Nat /\ Len(queue') + reserved' = Len(queue) + reserved + 1
      BY <1>9, <2>1, <2>6
    <3> QED
      BY <1>1, <1>2, <2>3, <2>6, <3>1, MpFinishKeeps, Zenon
  <2> QED
    BY <2>3, <2>4, <2>5, <2>6, Zenon DEF MpInv
<1> QED
  BY <1>7, <1>8, <1>9, Zenon

\* A poll finds no room.
LEMMA MpQueued ==
    ASSUME MpInv, Capacity \in Nat, NEW s \in Open, NEW op \in {"send", "reserve"}, NEW n \in Nat,
           receiverAlive, ~HasRoom(n), Wait(s, op, n),
           ~disturbed' => ~disturbed /\ n = 1 /\ (Waits(s) => awake[s]), disturbed' \in BOOLEAN,
           UNCHANGED <<receiverAlive, sendersAlive, recv, got, queue, recvWaker, recvAwake, sent,
                       reserved, held>>
    PROVE  MpInv'
<1>1. /\ TypeOK /\ MpCount /\ MpFlow /\ ReceiverAwake /\ (~disturbed => MpWaits)
  BY Zenon DEF MpInv
<1>2. s \in Senders /\ phase[s] # "none"
  BY Zenon DEF Open
<1>3. /\ phase' = [phase EXCEPT ![s] = op] /\ want' = [want EXCEPT ![s] = n]
      /\ awake' = [awake EXCEPT ![s] = FALSE] /\ waiters' = Append(waiters, s)
  BY Zenon DEF Wait
<1>4. waiters' \in Seq(Senders)
  BY <1>1, <1>2, <1>3 DEF TypeOK
<1>5. TypeOK'
  BY <1>1, <1>2, <1>3, <1>4, Zenon DEF TypeOK
<1>6. \A u \in Senders : phase'[u] = "none" <=> phase[u] = "none"
  BY <1>1, <1>2, <1>3, Zenon DEF TypeOK
<1>7. MpCount'
  BY <1>1, <1>6, MpSameCount, Zenon
<1>8. MpFlow' /\ ReceiverAwake'
  BY <1>1, Zenon DEF MpFlow, ReceiverAwake
<1>9. ASSUME ~disturbed' PROVE MpWaits'
  <2>1. n = 1 /\ MpWaits /\ (Waits(s) => awake[s])
    BY <1>1, <1>9, Zenon
  <2> QED
    BY <1>1, <1>2, <2>1, MpWaitKeeps, Zenon
<1> QED
  BY <1>5, <1>7, <1>8, <1>9, Zenon DEF MpInv

\* One poll of send or reserve, the first or a later one.
LEMMA MpPolls ==
    ASSUME MpInv, Capacity \in Nat, MaxMany \in Nat, NEW s \in Senders, Begin(s) \/ Repoll(s)
    PROVE  MpInv'
<1>1. TypeOK /\ (~disturbed => MpWaits) /\ s \in Open
  BY Zenon DEF MpInv, Begin, Repoll, Waits, Open
<1>2. UNCHANGED <<receiverAlive, sendersAlive, recv, got>>
  BY Zenon DEF Begin, Repoll
<1> DEFINE Polled(send, n) ==
              /\ IF send THEN PollSend(s) ELSE PollReserve(s, n)
              /\ disturbed' \in BOOLEAN
              /\ ~disturbed' => ~disturbed /\ (Waits(s) => awake[s]) /\ (send \/ n = 1)
<1>3. PICK send \in BOOLEAN, n \in Nat : Polled(send, n)
  <2>1. ASSUME Begin(s), PollSend(s), UNCHANGED disturbed PROVE Polled(TRUE, 0)
    <3>1. ~Waits(s)
      BY <2>1, Zenon DEF Begin, Waits
    <3>2. disturbed' \in BOOLEAN /\ (~disturbed' => ~disturbed)
      BY <1>1, <2>1, Zenon DEF TypeOK
    <3> QED
      BY <2>1, <3>1, <3>2, Zenon
  <2>2. ASSUME Begin(s), NEW n \in 1..MaxMany, PollReserve(s, n),
               disturbed' = (disturbed \/ n > 1)
        PROVE  Polled(FALSE, n) /\ n \in Nat
    <3>1. ~Waits(s)
      BY <2>2, Zenon DEF Begin, Waits
    <3>2. disturbed' \in BOOLEAN /\ (~disturbed' => ~disturbed /\ ~(n > 1))
      BY <2>2, Zenon
    <3>3. n \in Nat /\ (~(n > 1) => n = 1)
      OBVIOUS
    <3> QED
      BY <2>2, <3>1, <3>2, <3>3, Zenon
  <2>3. ASSUME Repoll(s)
        PROVE  (Polled(TRUE, want[s]) \/ Polled(FALSE, want[s])) /\ want[s] \in Nat
    <3>1. disturbed' \in BOOLEAN /\ (~disturbed' => ~disturbed /\ awake[s])
      BY <2>3, Zenon DEF Repoll
    <3>2. want[s] \in Nat /\ (~disturbed => want[s] = 1)
      BY <1>1, <2>3, Zenon DEF TypeOK, MpWaits, Repoll
    <3>3. PollSend(s) \/ PollReserve(s, want[s])
      BY <2>3, Zenon DEF Repoll
    <3> QED
      BY <3>1, <3>2, <3>3, Zenon
  <2> HIDE DEF Polled
  <2>4. CASE Begin(s)
    <3>1. \/ PollSend(s) /\ UNCHANGED disturbed
          \/ \E n \in 1..MaxMany : PollReserve(s, n) /\ disturbed' = (disturbed \/ n > 1)
      BY <2>4, Zenon DEF Begin
    <3>2. CASE PollSend(s) /\ UNCHANGED disturbed
      <4>1. Polled(TRUE, 0) /\ 0 \in Nat
        BY <2>1, <2>4, <3>2, Zenon
      <4> QED
        BY <4>1, Zenon
    <3>3. CASE \E n \in 1..MaxMany : PollReserve(s, n) /\ disturbed' = (disturbed \/ n > 1)
      BY <2>2, <2>4, <3>3, Zenon
    <3> QED
      BY <3>1, <3>2, <3>3, Zenon
  <2>5. CASE Repoll(s)
    BY <2>3, <2>5, Zenon
  <2> QED
    BY <2>4, <2>5, Zenon
<1>4. CASE send
  <2>1. PollSend(s)
    BY <1>3, <1>4, Zenon
  <2>2. CASE ~receiverAlive
    <3>1. Finish(s) /\ UNCHANGED <<queue, waiters, recvWaker, recvAwake, sent, reserved, held>>
      BY <2>1, <2>2, Zenon DEF PollSend
    <3> QED
      BY <1>1, <1>2, <1>3, <2>2, <3>1, MpFinished, Zenon
  <2>3. CASE receiverAlive /\ HasRoom(1)
    <3>1. Finish(s) /\ Push(s) /\ UNCHANGED <<waiters, reserved, held>>
      BY <2>1, <2>3, Zenon DEF PollSend
    <3> QED
      BY <1>1, <1>2, <1>3, <2>3, <3>1, MpFinished, Zenon
  <2>4. CASE receiverAlive /\ ~HasRoom(1)
    <3>1. /\ Wait(s, "send", 1)
          /\ UNCHANGED <<queue, recvWaker, recvAwake, sent, reserved, held>>
      BY <2>1, <2>4, Zenon DEF PollSend
    <3>2. "send" \in {"send", "reserve"} /\ 1 \in Nat
      BY Zenon
    <3> QED
      BY <1>1, <1>2, <1>3, <2>4, <3>1, <3>2, MpQueued, Zenon
  <2> QED
    BY <2>2, <2>3, <2>4, Zenon
<1>5. CASE ~send
  <2>1. PollReserve(s, n)
    BY <1>3, <1>5, Zenon
  <2>2. CASE ~receiverAlive
    <3>1. Finish(s) /\ UNCHANGED <<queue, waiters, recvWaker, recvAwake, sent, reserved, held>>
      BY <2>1, <2>2, Zenon DEF PollReserve
    <3> QED
      BY <1>1, <1>2, <1>3, <2>2, <3>1, MpFinished, Zenon
  <2>3. CASE receiverAlive /\ HasRoom(n)
    <3>1. /\ ~Unbounded /\ Finish(s) /\ reserved' = reserved + n
          /\ held' = [held EXCEPT ![s] = @ + n]
          /\ UNCHANGED <<waiters, queue, recvWaker, recvAwake, sent>>
      BY <2>1, <2>3, Zenon DEF PollReserve
    <3>2. ~disturbed' => n = 1
      BY <1>3, <1>5, Zenon
    <3> QED
      BY <1>1, <1>2, <1>3, <2>3, <3>1, <3>2, MpFinished, Zenon
  <2>4. CASE receiverAlive /\ ~HasRoom(n)
    <3>1. /\ Wait(s, "reserve", n)
          /\ UNCHANGED <<queue, recvWaker, recvAwake, sent, reserved, held>>
      BY <2>1, <2>4, Zenon DEF PollReserve
    <3>2. "reserve" \in {"send", "reserve"} /\ (~disturbed' => n = 1)
      BY <1>3, <1>5, Zenon
    <3> QED
      BY <1>1, <1>2, <1>3, <2>4, <3>1, <3>2, MpQueued, Zenon
  <2> QED
    BY <2>2, <2>3, <2>4, Zenon
<1> QED
  BY <1>4, <1>5, Zenon

\* A permit is used.
LEMMA MpFills ==
    ASSUME MpInv, Capacity \in Nat, NEW s \in Senders, FillReserved(s)
    PROVE  MpInv'
<1>1. /\ TypeOK /\ MpCount /\ MpFlow /\ ReceiverAwake /\ (~disturbed => MpWaits)
  BY Zenon DEF MpInv
<1>2. /\ held[s] > 0 /\ reserved' = reserved - 1 /\ held' = [held EXCEPT ![s] = @ - 1]
      /\ UNCHANGED <<receiverAlive, sendersAlive, waiters, phase, want, awake, recv, got, disturbed>>
      /\ queue' = Append(queue, s) /\ sent' = Append(sent, s) /\ recvWaker' = FALSE
      /\ recvAwake' = (recvAwake \/ (recvWaker /\ recv = "waiting"))
  BY Zenon DEF FillReserved, Push
<1>3. /\ queue \in Seq(Senders) /\ sent \in Seq(Senders) /\ got \in Seq(Senders)
      /\ reserved \in Nat /\ held \in [Senders -> Nat] /\ Len(queue) \in Nat
  BY <1>1 DEF TypeOK
<1>4. queue' \in Seq(Senders) /\ sent' \in Seq(Senders) /\ Len(queue') = Len(queue) + 1
  BY <1>2, <1>3
<1>5. s \in Open
  BY <1>1, <1>2, Zenon DEF MpCount
<1>6. MpCount' /\ reserved' \in Nat
  <2>1. held[s] \in Nat /\ held[s] - 1 \in Nat /\ reserved' = reserved - held[s] + (held[s] - 1)
    BY <1>2, <1>3, SMTT(30)
  <2>2. held'[s] = held[s] - 1 /\ \A u \in Senders \ {s} : held'[u] = held[u]
    BY <1>2, <1>3, Zenon
  <2>3. \A u \in Senders : phase'[u] = "none" <=> phase[u] = "none"
    BY <1>2, Zenon
  <2> QED
    BY <1>1, <1>2, <1>5, <2>1, <2>2, <2>3, MpPermits, Zenon
<1>7. TypeOK'
  <2>1. held' \in [Senders -> Nat]
    BY <1>2, <1>3
  <2>2. recvWaker' \in BOOLEAN /\ recvAwake' \in BOOLEAN
    BY <1>2, Zenon
  <2> QED
    BY <1>1, <1>2, <1>4, <1>6, <2>1, <2>2, Zenon DEF TypeOK
<1>8. Len(queue') + reserved' = Len(queue) + reserved
  BY <1>2, <1>3, <1>4
<1>9. MpFlow'
  <2>1. sent' = got' \o queue'
    BY <1>1, <1>2, FlowSent, Zenon DEF MpFlow
  <2>2. Unbounded \/ Len(queue') + reserved' <= Capacity
    BY <1>1, <1>8, Zenon DEF MpFlow
  <2> QED
    BY <2>1, <2>2, Zenon DEF MpFlow
<1>10. ReceiverAwake'
  <2>1. Cardinality(Open) # 0
    BY <1>1, <1>5, FS_EmptySet, Zenon DEF MpCount
  <2>2. recv # "closed"
    BY <1>1, <2>1, Zenon DEF MpCount, ReceiverAwake
  <2>3. recv = "waiting" => recvAwake \/ recvWaker
    BY <1>1, Zenon DEF ReceiverAwake
  <2>4. recvAwake' <=> (recvAwake \/ (recvWaker /\ recv = "waiting"))
    BY <1>2, Zenon
  <2>5. recv' = recv
    BY <1>2, Zenon
  <2>6. recv' = "waiting" => recvAwake'
    BY <2>3, <2>4, <2>5, Zenon
  <2> QED
    BY <2>2, <2>5, <2>6, Zenon DEF ReceiverAwake
<1>11. ASSUME MpWaits PROVE MpWaits'
  <2>1. Woken' = Woken /\ \A u : Waits(u)' <=> Waits(u)
    BY <1>2, Zenon DEF Woken, Waits
  <2> QED
    BY <1>2, <1>8, <1>11, <2>1, Zenon DEF MpWaits, Waits
<1> QED
  BY <1>1, <1>2, <1>6, <1>7, <1>9, <1>10, <1>11, Zenon DEF MpInv

\* Permits are dropped, and as many senders woken.
LEMMA MpReleases ==
    ASSUME MpInv, Capacity \in Nat, NEW s \in Senders, NEW n \in Nat, ReleaseReserved(s, n), n # 0
    PROVE  MpInv'
<1>1. /\ TypeOK /\ MpCount /\ MpFlow /\ ReceiverAwake /\ (~disturbed => MpWaits)
  BY Zenon DEF MpInv
<1>2. /\ held[s] >= n /\ reserved' = reserved - n /\ held' = [held EXCEPT ![s] = @ - n]
      /\ WakeSenders(n)
      /\ UNCHANGED <<queue, receiverAlive, sendersAlive, recvWaker, phase, want, recv, recvAwake,
                     sent, got, disturbed>>
  BY Zenon DEF ReleaseReserved, rxVars, hist
<1>3. reserved \in Nat /\ held \in [Senders -> Nat] /\ Len(queue) \in Nat
  BY <1>1 DEF TypeOK
<1>4. s \in Open
  BY <1>1, <1>2, <1>3, SMTT(30) DEF MpCount
<1>5. MpCount' /\ reserved' \in Nat
  <2>1. held[s] \in Nat /\ held[s] - n \in Nat /\ reserved' = reserved - held[s] + (held[s] - n)
    BY <1>2, <1>3
  <2>2. held'[s] = held[s] - n /\ \A u \in Senders \ {s} : held'[u] = held[u]
    BY <1>2, <1>3, Zenon
  <2>3. \A u \in Senders : phase'[u] = "none" <=> phase[u] = "none"
    BY <1>2, Zenon
  <2> QED
    BY <1>1, <1>2, <1>4, <2>1, <2>2, <2>3, MpPermits, Zenon
<1>6. waiters' \in Seq(Senders) /\ awake' \in [Senders -> BOOLEAN]
  <2>1. awake \in [Senders -> BOOLEAN]
    BY <1>1, Zenon DEF TypeOK
  <2> QED
    BY <1>1, <1>2, <2>1, MpWake, Zenon
<1>7. TypeOK'
  <2>1. held' \in [Senders -> Nat]
    BY <1>2, <1>3
  <2> QED
    BY <1>1, <1>2, <1>5, <1>6, <2>1, Zenon DEF TypeOK
<1>8. Len(queue') + reserved' + n = Len(queue) + reserved /\ Len(queue') \in Nat
  BY <1>2, <1>3
<1>9. MpFlow'
  BY <1>1, <1>2, <1>3, <1>8 DEF MpFlow
<1>10. ReceiverAwake'
  BY <1>1, <1>2, Zenon DEF ReceiverAwake
<1>11. ASSUME ~disturbed PROVE MpWaits'
  <2>1. Len(queue) + reserved <= Len(queue') + reserved' + n
    BY <1>3, <1>5, <1>8
  <2> QED
    BY <1>1, <1>2, <1>5, <1>8, <1>11, <2>1, MpWakeKeeps, Zenon
<1> QED
  BY <1>1, <1>2, <1>5, <1>7, <1>9, <1>10, <1>11, Zenon DEF MpInv

\* Cancel: nothing is said of a disturbed order.
LEMMA MpCancels ==
    ASSUME MpInv, NEW s \in Senders, Cancel(s)
    PROVE  MpInv'
<1>1. /\ TypeOK /\ MpCount /\ MpFlow /\ ReceiverAwake
  BY Zenon DEF MpInv
<1>2. /\ phase' = [phase EXCEPT ![s] = "idle"] /\ want' = [want EXCEPT ![s] = 0]
      /\ awake' = [awake EXCEPT ![s] = FALSE] /\ disturbed' = TRUE
      /\ phase[s] \in {"send", "reserve"}
      /\ UNCHANGED <<queue, reserved, receiverAlive, sendersAlive, waiters, recvWaker, held,
                     recv, recvAwake, sent, got>>
  BY Zenon DEF Cancel, Finish, Waits, rxVars, hist
<1>3. TypeOK'
  BY <1>1, <1>2, Zenon DEF TypeOK
<1>4. MpCount'
  <2>1. \A u \in Senders : phase'[u] = "none" <=> phase[u] = "none"
    BY <1>1, <1>2, Zenon DEF TypeOK
  <2> QED
    BY <1>1, <1>2, <2>1, MpSameCount, Zenon
<1>5. MpFlow' /\ ReceiverAwake'
  BY <1>1, <1>2, Zenon DEF MpFlow, ReceiverAwake
<1> QED
  BY <1>2, <1>3, <1>4, <1>5, Zenon DEF MpInv

\* A sender handle comes or goes: it has no future and no permit.
LEMMA MpHandles ==
    ASSUME MpInv, NEW s \in Senders, CloneSender(s) \/ DropSender(s)
    PROVE  MpInv'
<1>1. /\ TypeOK /\ MpCount /\ MpFlow /\ ReceiverAwake /\ (~disturbed => MpWaits)
  BY Zenon DEF MpInv
<1>2. PICK p \in {"none", "idle"} :
          phase' = [phase EXCEPT ![s] = p] /\ phase[s] \in {"none", "idle"}
  BY Zenon DEF CloneSender, DropSender
<1>3. UNCHANGED <<queue, reserved, receiverAlive, waiters, want, held, awake, recv, sent, got,
                  disturbed>>
  BY Zenon DEF CloneSender, DropSender, rxVars, hist
<1>4. phase \in [Senders -> {"none", "idle", "send", "reserve"}] /\ sendersAlive \in Nat
  BY <1>1, Zenon DEF TypeOK
<1>5. /\ IsFiniteSet(Open') /\ sendersAlive' = Cardinality(Open') /\ sendersAlive' \in Nat
      /\ \A u \in Senders : held[u] > 0 => u \in Open'
  <2>1. CASE CloneSender(s)
    <3>1. Open' = Open \cup {s} /\ s \notin Open
      BY <1>4, <2>1, Zenon DEF CloneSender, Open
    <3>2. IsFiniteSet(Open \cup {s}) /\ Cardinality(Open \cup {s}) = Cardinality(Open) + 1
      BY <1>1, <3>1, FS_AddElement, Zenon DEF MpCount
    <3>3. sendersAlive' = sendersAlive + 1
      BY <2>1, Zenon DEF CloneSender
    <3> QED
      BY <1>1, <1>4, <3>1, <3>2, <3>3 DEF MpCount
  <2>2. CASE DropSender(s)
    <3>1. Open' = Open \ {s} /\ s \in Open /\ held[s] = 0
      BY <1>4, <2>2, Zenon DEF DropSender, Open
    <3>2. IsFiniteSet(Open \ {s}) /\ Cardinality(Open \ {s}) = Cardinality(Open) - 1
      BY <1>1, <3>1, FS_RemoveElement, Zenon DEF MpCount
    <3>3. sendersAlive' = sendersAlive - 1
      BY <2>2, Zenon DEF DropSender
    <3>4. Cardinality(Open \ {s}) \in Nat
      BY <3>2, FS_CardinalityType, Zenon
    <3>5. \A u \in Senders : held[u] > 0 => u \in Open \ {s}
      BY <1>1, <3>1 DEF MpCount
    <3> QED
      BY <1>1, <3>1, <3>2, <3>3, <3>4, <3>5, Zenon DEF MpCount
  <2> QED
    BY <2>1, <2>2, Zenon
<1>6. MpCount'
  BY <1>1, <1>3, <1>5, Zenon DEF MpCount
<1>7. recvWaker' \in BOOLEAN /\ recvAwake' \in BOOLEAN
  <2>1. recvWaker \in BOOLEAN /\ recvAwake \in BOOLEAN
    BY <1>1, Zenon DEF TypeOK
  <2> QED
    BY <2>1, Zenon DEF CloneSender, DropSender, rxVars
<1>8. TypeOK'
  <2>1. phase' \in [Senders -> {"none", "idle", "send", "reserve"}]
    BY <1>2, <1>4, Zenon
  <2> QED
    BY <1>1, <1>3, <1>5, <1>7, <2>1, Zenon DEF TypeOK
<1>9. MpFlow'
  BY <1>1, <1>3, Zenon DEF MpFlow
<1>10. ReceiverAwake'
  <2>1. CASE CloneSender(s)
    <3>1. sendersAlive > 0 /\ sendersAlive' > 0 /\ UNCHANGED <<recvWaker, recvAwake>>
      BY <1>4, <2>1 DEF CloneSender, rxVars
    <3>2. recv # "closed"
      BY <1>1, <1>4, <3>1 DEF ReceiverAwake
    <3> QED
      BY <1>1, <1>3, <3>1, <3>2, Zenon DEF ReceiverAwake
  <2>2. CASE DropSender(s) /\ sendersAlive = 1
    <3>1. recvAwake' <=> (recvAwake \/ (recvWaker /\ recv = "waiting"))
      BY <2>2, Zenon DEF DropSender
    <3>2. recv = "waiting" => recvAwake \/ recvWaker
      BY <1>1, Zenon DEF ReceiverAwake
    <3>3. recv' = "waiting" => recvAwake'
      BY <1>3, <3>1, <3>2, Zenon
    <3>4. recv' # "closed"
      BY <1>1, <1>3, <2>2 DEF ReceiverAwake
    <3> QED
      BY <3>3, <3>4, Zenon DEF ReceiverAwake
  <2>3. CASE DropSender(s) /\ sendersAlive # 1
    <3>1. UNCHANGED <<recvWaker, recvAwake>> /\ sendersAlive' = sendersAlive - 1
      BY <2>3, Zenon DEF DropSender
    <3>2. sendersAlive # 0 /\ sendersAlive' > 0
      BY <1>4, <1>5, <2>3, <3>1
    <3>3. recv' # "closed"
      BY <1>1, <1>3, <3>2, Zenon DEF ReceiverAwake
    <3> QED
      BY <1>1, <1>3, <3>1, <3>2, <3>3, Zenon DEF ReceiverAwake
  <2> QED
    BY <2>1, <2>2, <2>3, Zenon
<1>11. ASSUME MpWaits PROVE MpWaits'
  <2>1. \A u \in Senders : Waits(u)' <=> Waits(u)
    BY <1>2, <1>4, Zenon DEF Waits
  <2>2. Woken' = Woken
    BY <1>3, <2>1, Zenon DEF Woken
  <2>3. \A i \in 1..Len(waiters) : waiters[i] \in Senders
    BY <1>1 DEF TypeOK
  <2>4. \A i \in 1..Len(waiters') : (Waits(waiters[i]))' /\ ~awake'[waiters'[i]]
    BY <1>2, <1>3, <1>4, <1>11, <2>3, Zenon DEF MpWaits, Waits
  <2> QED
    BY <1>3, <1>11, <2>1, <2>2, <2>4, Zenon DEF MpWaits
<1> QED
  BY <1>1, <1>3, <1>6, <1>8, <1>9, <1>10, <1>11, Zenon DEF MpInv

\* recv takes a message and wakes a sender, ends, or sleeps; its future is dropped.
LEMMA MpReceives ==
    ASSUME MpInv, Capacity \in Nat, Recv \/ CancelRecv
    PROVE  MpInv'
<1>1. /\ TypeOK /\ MpCount /\ MpFlow /\ ReceiverAwake /\ (~disturbed => MpWaits)
  BY Zenon DEF MpInv
<1>2. UNCHANGED <<reserved, receiverAlive, sendersAlive, phase, want, held, sent, disturbed>>
  BY Zenon DEF Recv, CancelRecv, txVars, hist
<1>3. /\ recvAwake' = FALSE /\ recv' \in {"idle", "waiting", "closed", "dropped"}
      /\ recvWaker' \in BOOLEAN
  BY <1>1, Zenon DEF Recv, CancelRecv, TypeOK
<1>4. MpCount'
  BY <1>1, <1>2, MpSameCount, Zenon
<1>5. ASSUME UNCHANGED <<queue, got, waiters, awake>>, ReceiverAwake' PROVE MpInv'
  <2>1. TypeOK'
    BY <1>1, <1>2, <1>3, <1>5, Zenon DEF TypeOK
  <2>2. MpFlow'
    BY <1>1, <1>2, <1>5, Zenon DEF MpFlow
  <2>3. Woken' = Woken
    BY <1>2, <1>5, Zenon DEF Woken, Waits
  <2>4. MpWaits => MpWaits'
    BY <1>2, <1>5, <2>3, Zenon DEF MpWaits, Waits
  <2> QED
    BY <1>1, <1>2, <1>4, <1>5, <2>1, <2>2, <2>4, Zenon DEF MpInv
<1>6. CASE Recv /\ queue # <<>>
  <2>1. /\ queue' = Tail(queue) /\ got' = Append(got, Head(queue)) /\ recv' = "idle"
        /\ WakeSenders(1)
    BY <1>6, Zenon DEF Recv
  <2>2. queue \in Seq(Senders) /\ got \in Seq(Senders) /\ reserved \in Nat
    BY <1>1, Zenon DEF TypeOK
  <2>3. /\ queue' \in Seq(Senders) /\ Len(queue') = Len(queue) - 1 /\ Head(queue) \in Senders
    BY <1>6, <2>1, <2>2
  <2>4. got' \in Seq(Senders)
    BY <2>1, <2>2, <2>3
  <2>5. waiters' \in Seq(Senders) /\ awake' \in [Senders -> BOOLEAN]
    <3>1. awake \in [Senders -> BOOLEAN] /\ 1 \in Nat
      BY <1>1, Zenon DEF TypeOK
    <3> QED
      BY <1>1, <2>1, <3>1, MpWake, Zenon
  <2>6. TypeOK'
    BY <1>1, <1>2, <1>3, <2>3, <2>4, <2>5, Zenon DEF TypeOK
  <2>7. Len(queue) \in Nat /\ Len(queue') \in Nat /\ reserved' \in Nat
    BY <1>2, <2>2, <2>3
  <2>8. Len(queue') + reserved' + 1 = Len(queue) + reserved
    BY <1>2, <2>2, <2>3, <2>7
  <2>9. MpFlow'
    <3>1. Append(got, Head(queue)) \o Tail(queue) = got \o queue
      BY <1>6, <2>2, FlowReceived, Zenon
    <3>2. Unbounded \/ Len(queue') + reserved' <= Capacity
      BY <1>1, <2>2, <2>7, <2>8 DEF MpFlow
    <3> QED
      BY <1>1, <1>2, <2>1, <3>1, <3>2, Zenon DEF MpFlow
  <2>10. ReceiverAwake'
    BY <2>1, Zenon DEF ReceiverAwake
  <2>11. ASSUME ~disturbed PROVE MpWaits'
    <3>1. Len(queue) + reserved <= Len(queue') + reserved' + 1 /\ 1 \in Nat
      BY <2>2, <2>7, <2>8
    <3> QED
      BY <1>1, <1>2, <2>1, <2>7, <2>11, <3>1, MpWakeKeeps, Zenon
  <2> QED
    BY <1>2, <1>4, <2>6, <2>9, <2>10, <2>11, Zenon DEF MpInv
<1>7. CASE Recv /\ queue = <<>>
  <2>1. UNCHANGED <<queue, got, waiters, awake>>
    BY <1>7, Zenon DEF Recv
  <2>2. \/ sendersAlive = 0 /\ recv' = "closed"
        \/ sendersAlive > 0 /\ recv' = "waiting" /\ recvWaker' = TRUE
    BY <1>7, Zenon DEF Recv
  <2>3. ReceiverAwake'
    BY <1>2, <1>7, <2>1, <2>2, Zenon DEF ReceiverAwake
  <2> QED
    BY <1>5, <2>1, <2>3, Zenon
<1>8. CASE CancelRecv
  <2>1. UNCHANGED <<queue, got, waiters, awake>> /\ recv' = "idle"
    BY <1>8, Zenon DEF CancelRecv, txVars, hist
  <2>2. ReceiverAwake'
    BY <2>1, Zenon DEF ReceiverAwake
  <2> QED
    BY <1>5, <2>1, <2>2, Zenon
<1> QED
  BY <1>6, <1>7, <1>8, Zenon

\* The receiver goes, and wakes every sender.
LEMMA MpDrops == ASSUME MpInv, Capacity \in Nat, DropReceiver PROVE MpInv'
<1>1. /\ TypeOK /\ MpCount /\ MpFlow /\ ReceiverAwake /\ (~disturbed => MpWaits)
  BY Zenon DEF MpInv
<1>2. /\ recv' = "dropped" /\ receiverAlive' = FALSE /\ WakeSenders(Len(waiters))
      /\ UNCHANGED <<queue, reserved, sendersAlive, recvWaker, phase, want, held, recvAwake,
                     sent, got, disturbed>>
  BY Zenon DEF DropReceiver, hist
<1>3. Len(waiters) \in Nat /\ Len(queue) \in Nat /\ reserved \in Nat /\ awake \in [Senders -> BOOLEAN]
  BY <1>1 DEF TypeOK
<1>4. waiters' \in Seq(Senders) /\ awake' \in [Senders -> BOOLEAN]
  BY <1>1, <1>2, <1>3, MpWake, Zenon
<1>5. TypeOK'
  BY <1>1, <1>2, <1>4, Zenon DEF TypeOK
<1>6. MpCount'
  BY <1>1, <1>2, MpSameCount, Zenon
<1>7. MpFlow' /\ ReceiverAwake'
  BY <1>1, <1>2, Zenon DEF MpFlow, ReceiverAwake
<1>8. ASSUME ~disturbed PROVE MpWaits'
  <2>1. /\ Len(queue') \in Nat /\ reserved' \in Nat
        /\ Len(queue) + reserved <= Len(queue') + reserved' + Len(waiters)
    BY <1>2, <1>3
  <2> QED
    BY <1>1, <1>2, <1>3, <1>8, <2>1, MpWakeKeeps, Zenon
<1> QED
  BY <1>2, <1>5, <1>6, <1>7, <1>8, Zenon DEF MpInv

\* Every step of the channel keeps the invariant, one step here per action.
LEMMA MpStep ==
    ASSUME Capacity \in Nat, MaxMany \in Nat PROVE MpInv /\ [Next]_vars => MpInv'
<1> SUFFICES ASSUME MpInv, [Next]_vars PROVE MpInv'
  BY Zenon
<1>1. ASSUME NEW s \in Senders, Begin(s) \/ Repoll(s) PROVE MpInv'
  BY <1>1, MpPolls, Zenon
<1>2. ASSUME NEW s \in Senders, Cancel(s) PROVE MpInv'
  BY <1>2, MpCancels, Zenon
<1>3. ASSUME NEW s \in Senders, FillReserved(s) PROVE MpInv'
  BY <1>3, MpFills, Zenon
<1>4. ASSUME NEW s \in Senders, NEW n \in 1..MaxMany, ReleaseReserved(s, n) PROVE MpInv'
  <2>1. n \in Nat /\ n # 0
    OBVIOUS
  <2> QED
    BY <1>4, <2>1, MpReleases, Zenon
<1>5. ASSUME NEW s \in Senders, CloneSender(s) \/ DropSender(s) PROVE MpInv'
  BY <1>5, MpHandles, Zenon
<1>6. CASE Recv \/ CancelRecv
  BY <1>6, MpReceives, Zenon
<1>7. CASE DropReceiver
  BY <1>7, MpDrops, Zenon
<1>8. CASE UNCHANGED vars
  <2>1. UNCHANGED <<queue, reserved, receiverAlive, sendersAlive, waiters, recvWaker, phase, want,
                    held, awake, recv, recvAwake, sent, got, disturbed>>
    BY <1>8, Zenon DEF vars, txVars, rxVars, hist
  <2>2. TypeOK' = TypeOK /\ ReceiverAwake' = ReceiverAwake /\ MpFlow' = MpFlow
    BY <2>1, Zenon DEF TypeOK, ReceiverAwake, MpFlow
  <2>3. Open' = Open /\ Woken' = Woken
    BY <2>1, Zenon DEF Open, Woken, Waits
  <2>4. MpCount => MpCount'
    BY <2>1, <2>3, Zenon DEF MpCount
  <2>5. MpWaits => MpWaits'
    BY <2>1, <2>3, Zenon DEF MpWaits, Waits
  <2> QED
    BY <2>1, <2>2, <2>4, <2>5, Zenon DEF MpInv
<1> QED
  BY <1>1, <1>2, <1>3, <1>4, <1>5, <1>6, <1>7, <1>8, Zenon DEF Next

\* What the runs check of the channel follows from the inductive invariant.
LEMMA MpSafe ==
    ASSUME Capacity \in Nat
    PROVE  MpInv => TypeOK /\ Bounded /\ ReceiverAwake /\ SenderAwakeUndisturbed
<1> SUFFICES ASSUME MpInv
             PROVE  TypeOK /\ Bounded /\ ReceiverAwake /\ SenderAwakeUndisturbed
  BY Zenon
<1>1. /\ TypeOK /\ MpCount /\ MpFlow /\ ReceiverAwake /\ (~disturbed => MpWaits)
  BY Zenon DEF MpInv
<1>2. Bounded
  <2>1. Permits = Units(held, Senders)
    BY Zenon DEF Permits, Units
  <2>2. reserved = Cardinality(Permits)
    BY <1>1, <2>1, Zenon DEF MpCount
  <2>3. sendersAlive = Cardinality({s \in Senders : phase[s] # "none"})
    BY <1>1, Zenon DEF MpCount, Open
  <2> QED
    BY <1>1, <2>2, <2>3, Zenon DEF MpFlow, Bounded
<1>3. ASSUME ~disturbed, NEW s \in Senders, Waits(s), ~awake[s]
      PROVE  receiverAlive /\ (HasRoom(want[s]) => \E u \in Senders : Waits(u) /\ awake[u])
  <2>1. MpWaits /\ receiverAlive /\ want[s] = 1
    BY <1>1, <1>3, Zenon DEF MpWaits
  <2>2. PICK i \in 1..Len(waiters) : waiters[i] = s
    BY <1>3, <2>1, Zenon DEF MpWaits
  <2>3. waiters # <<>>
    BY <2>2
  <2>4. ~Unbounded /\ Capacity <= Len(queue) + reserved + Cardinality(Woken)
    BY <2>1, <2>3, Zenon DEF MpWaits
  <2>5. ASSUME HasRoom(want[s]) PROVE Woken # {}
    <3>1. Len(queue) + reserved + 1 <= Capacity
      BY <2>1, <2>4, <2>5, Zenon DEF HasRoom
    <3>2. Len(queue) \in Nat /\ reserved \in Nat
      BY <1>1 DEF TypeOK
    <3>3. Cardinality({}) = 0
      BY FS_EmptySet, Zenon
    <3>4. ASSUME Woken = {} PROVE FALSE
      <4>1. Cardinality(Woken) = 0
        BY <3>3, <3>4, Zenon
      <4> QED
        BY <2>4, <3>1, <3>2, <4>1
    <3> QED
      BY <3>4, Zenon
  <2> QED
    BY <2>1, <2>5, Zenon DEF Woken
<1> QED
  BY <1>1, <1>2, <1>3, Zenon DEF SenderAwakeUndisturbed, SenderAwake

\* mpsc: for any capacity, bounded or not, any senders and permits, the channel
\* holds no more than its capacity, reserved slots included, its counters are
\* exact, messages arrive in the order they were sent, the receiver sleeps only
\* on an empty channel with a sender, and as long as waiting senders are neither
\* dropped nor polled unwoken a sender asleep in front of room has one awake
\* before it.
THEOREM MpscSafe ==
    ASSUME First \in Senders, Capacity \in Nat, MaxMany \in Nat
    PROVE  Spec => [](TypeOK /\ Bounded /\ ReceiverAwake /\ SenderAwakeUndisturbed)
<1>1. Init => MpInv
  BY MpInit, Zenon
<1>2. MpInv /\ [Next]_vars => MpInv'
  BY MpStep, Zenon
<1>3. MpInv => TypeOK /\ Bounded /\ ReceiverAwake /\ SenderAwakeUndisturbed
  BY MpSafe, Zenon
<1> QED
  BY <1>1, <1>2, <1>3, PTL DEF Spec

==============================================================================
