----------------------------- MODULE LockProofs -----------------------------
(***************************************************************************)
(* Proofs about Semaphore, Mutex, RwLock and Notify, for any sets of       *)
(* tasks, futures and notifiers, any requests and any bounds on their      *)
(* queues.  The four share nothing; a variable that two of them name alike *)
(* stands for either.                                                      *)
(***************************************************************************)
EXTENDS Semaphore, FiniteSetTheorems, TLAPS

CONSTANTS Futures, Notifiers, MaxNotify

VARIABLES locked, writerLocked, readers, phase, awake, disturbed,
          woken, waker, registered, pc, firing, stored, calls, given

------------------------------------------------------------------------------
(* Semaphore: sums *)

\* A nonempty set of naturals below a bound has a greatest member.
LEMMA Greatest ==
    ASSUME NEW n \in Nat, NEW S \in SUBSET (0..n), S # {}
    PROVE  \E m \in S : \A k \in S : m >= k
<1> DEFINE T == {i \in Nat : n - i \in S}
<1>1. T # {}
  <2>1. PICK k \in S : TRUE
    BY Zenon
  <2>2. n - k \in Nat /\ n - (n - k) = k
    BY <2>1
  <2> QED
    BY <2>1, <2>2, Zenon
<1>2. PICK i \in T : \A j \in T : ~(<<j, i>> \in OpToRel(<, Nat))
  BY <1>1, NatLessThanWellFounded, WFMin, Zenon
<1>3. \A j \in T : ~(j < i)
  BY <1>2, Zenon DEF OpToRel
<1>4. ASSUME NEW k \in S PROVE n - i >= k
  <2>1. n - k \in Nat /\ n - (n - k) = k /\ k \in Nat
    OBVIOUS
  <2>2. n - k \in T
    BY <2>1, Zenon
  <2>3. ~(n - k < i)
    BY <1>3, <2>2, Zenon
  <2>4. i \in Nat
    BY <1>2, Zenon
  <2> QED
    BY <2>1, <2>3, <2>4
<1> QED
  BY <1>2, <1>4, Zenon


\* V has, instead of a of the things in U, b others.
Exchanged(U, V, a, b) ==
    /\ IsFiniteSet(V) /\ Cardinality(V) \in Nat
    /\ Cardinality(V) = Cardinality(U) - a + b /\ a <= Cardinality(U)

\* The things of one x.
LEMMA UnitsOfOne ==
    ASSUME NEW x, NEW n \in Nat
    PROVE  IsFiniteSet({x} \X (1..n)) /\ Cardinality({x} \X (1..n)) = n
<1>1. IsFiniteSet({x}) /\ Cardinality({x}) = 1
  BY FS_Singleton, Zenon
<1>2. IsFiniteSet(1..n) /\ Cardinality(1..n) = n
  BY FS_Interval
<1>3. /\ IsFiniteSet({x} \X (1..n))
      /\ Cardinality({x} \X (1..n)) = Cardinality({x}) * Cardinality(1..n)
  BY <1>1, <1>2, FS_Product, Zenon
<1> QED
  BY <1>1, <1>2, <1>3

\* A change of one summand changes the sum by as much.
LEMMA UnitsExcept ==
    ASSUME NEW S, NEW f, NEW g, NEW x \in S, f[x] \in Nat, g[x] \in Nat,
           \A y \in S \ {x} : g[y] = f[y], IsFiniteSet(Units(f, S))
    PROVE  Exchanged(Units(f, S), Units(g, S), f[x], g[x])
<1> DEFINE U == Units(f, S)
           A == {x} \X (1..f[x])
           B == {x} \X (1..g[x])
           R == U \ A
<1>1. /\ IsFiniteSet(A) /\ Cardinality(A) = f[x]
      /\ IsFiniteSet(B) /\ Cardinality(B) = g[x]
  BY UnitsOfOne, Zenon
<1>2. A \subseteq U
  BY Zenon DEF Units
<1>3. Units(g, S) = R \cup B /\ R \cap B = {}
  <2>1. ASSUME NEW p \in R PROVE p \in Units(g, S) /\ p \notin B
    <3>1. PICK y \in S : p \in {y} \X (1..f[y])
      BY <2>1, Zenon DEF Units
    <3>2. y # x
      BY <2>1, <3>1, Zenon
    <3> QED
      BY <3>1, <3>2, Zenon DEF Units
  <2>2. ASSUME NEW p \in Units(g, S), p \notin B PROVE p \in R
    <3>1. PICK y \in S : p \in {y} \X (1..g[y])
      BY <2>2, Zenon DEF Units
    <3>2. y # x
      BY <2>2, <3>1, Zenon
    <3> QED
      BY <3>1, <3>2, Zenon DEF Units
  <2>3. B \subseteq Units(g, S)
    BY Zenon DEF Units
  <2> HIDE DEF R, B
  <2> QED
    BY <2>1, <2>2, <2>3, Zenon
<1> HIDE DEF U, A, B
<1>4. IsFiniteSet(U) /\ U \cap A = A
  <2>1. IsFiniteSet(U)
    BY Zenon DEF U
  <2> QED
    BY <1>2, <2>1, Zenon
<1>5. IsFiniteSet(R) /\ Cardinality(R) = Cardinality(U) - f[x]
  <2>1. IsFiniteSet(U \ A) /\ Cardinality(U \ A) = Cardinality(U) - Cardinality(U \cap A)
    BY <1>4, FS_Difference, Zenon
  <2> QED
    BY <1>1, <1>4, <2>1, Zenon
<1> HIDE DEF R
<1>6. IsFiniteSet(R \cup B) /\ Cardinality(R \cup B) = Cardinality(R) + g[x]
  <2>1. Cardinality(R \cap B) = 0
    BY <1>3, FS_EmptySet, Zenon
  <2>2. /\ IsFiniteSet(R \cup B)
        /\ Cardinality(R \cup B) = Cardinality(R) + Cardinality(B) - Cardinality(R \cap B)
    BY <1>1, <1>5, FS_Union, Zenon
  <2>3. Cardinality(R) \in Nat
    BY <1>5, FS_CardinalityType, Zenon
  <2> QED
    BY <1>1, <2>1, <2>2, <2>3
<1>7. Cardinality(R) \in Nat /\ Cardinality(U) \in Nat
  BY <1>4, <1>5, FS_CardinalityType, Zenon
<1>8. Cardinality(R \cup B) \in Nat
  BY <1>6, FS_CardinalityType, Zenon
<1> QED
  BY <1>3, <1>5, <1>6, <1>7, <1>8 DEF U, Exchanged

------------------------------------------------------------------------------
(* Semaphore *)

\* The futures whose permits wait for their poll, the permits the first k waiters
\* ask for, and those of them whose future still exists.
Granted == {t \in Tasks : want[t] # 0 /\ outcome[t] = "GRANTED"}
Asked(k) == UNION {{i} \X (1..waiters[i].needed) : i \in 1..k}
Live(k) == {i \in 1..k : waiters[i].live}

\* A live waiter is its task's only one, and asks for what its pending future
\* wants; every waiter is live if no future was dropped.
SemQueue ==
    /\ \A i, j \in 1..Len(waiters) :
           waiters[i].live /\ waiters[j].live /\ waiters[i].task = waiters[j].task => i = j
    /\ \A i \in 1..Len(waiters) : waiters[i].live =>
           /\ want[waiters[i].task] = waiters[i].needed
           /\ outcome[waiters[i].task] = "PENDING"
    /\ ~dropped => \A i \in 1..Len(waiters) : waiters[i].live

\* A task with a future holds no permit.
SemHolds == \A t \in Tasks : want[t] # 0 => held[t] = 0

\* Free, held and granted permits, to be compared with the supply.
SemSum ==
    /\ IsFiniteSet(Units(held, Tasks)) /\ IsFiniteSet(Units(want, Granted))
    /\ permits + Cardinality(Units(held, Tasks)) + Cardinality(Units(want, Granted)) <= supply
    /\ ~dropped =>
       permits + Cardinality(Units(held, Tasks)) + Cardinality(Units(want, Granted)) = supply

SemInv == TypeOK /\ SemQueue /\ SemHolds /\ SemSum /\ HeadBlocked

\* Counting things that are renamed one to one.
LEMMA UnitsRenamed ==
    ASSUME NEW S, NEW f, NEW g, NEW h, h = [x \in S |-> h[x]],
           \A x, y \in S : h[x] = h[y] => x = y, \A x \in S : g[h[x]] = f[x],
           IsFiniteSet(Units(f, S))
    PROVE  LET T == {h[x] : x \in S}
           IN  IsFiniteSet(Units(g, T)) /\ Cardinality(Units(g, T)) = Cardinality(Units(f, S))
<1> DEFINE T == {h[x] : x \in S}
           U == Units(f, S)
           V == Units(g, T)
           m == [p \in U |-> <<h[p[1]], p[2]>>]
<1>1. \A p \in U : p = <<p[1], p[2]>> /\ p[1] \in S /\ p[2] \in 1..f[p[1]]
  BY DEF Units
<1>2. ASSUME NEW p \in U PROVE <<h[p[1]], p[2]>> \in V
  BY <1>1 DEF Units
<1>3. ASSUME NEW v \in V PROVE \E p \in U : <<h[p[1]], p[2]>> = v
  <2>1. PICK x \in S : v \in {h[x]} \X (1..g[h[x]])
    BY Zenon DEF Units
  <2>2. v = <<h[x], v[2]>> /\ v[2] \in 1..f[x]
    BY <2>1
  <2>3. <<x, v[2]>> \in U
    BY <2>2 DEF Units
  <2>4. <<x, v[2]>>[1] = x /\ <<x, v[2]>>[2] = v[2]
    BY Zenon
  <2> QED
    BY <2>2, <2>3, <2>4, Zenon
<1>4. ASSUME NEW p \in U, NEW q \in U, <<h[p[1]], p[2]>> = <<h[q[1]], q[2]>> PROVE p = q
  <2>1. h[p[1]] = h[q[1]] /\ p[2] = q[2]
    BY <1>4, Zenon
  <2>2. p[1] = q[1]
    BY <1>1, <2>1, Zenon
  <2> QED
    BY <1>1, <2>1, <2>2
<1> HIDE DEF U, V
<1>5. m \in Surjection(U, V)
  BY <1>2, <1>3, Zenon DEF Surjection
<1>6. m \in Injection(U, V)
  BY <1>2, <1>4, Zenon DEF Injection, IsInjective
<1>7. IsFiniteSet(U)
  BY Zenon DEF U
<1>8. /\ IsFiniteSet(V)
      /\ Cardinality(V) = Cardinality(U) <=> m \in Injection(U, V)
  BY <1>5, <1>7, FS_Surjection, Zenon
<1> QED
  BY <1>6, <1>8, Zenon DEF U, V

Waiter == [task : Tasks, needed : 1..MaxNeeded, live : BOOLEAN]

\* An entry of the queue names a task, asks for 1..MaxNeeded and is live or not.
LEMMA SemWaiter ==
    ASSUME TypeOK
    PROVE  /\ waiters \in Seq(Waiter) /\ Len(waiters) \in Nat
           /\ \A i \in 1..Len(waiters) :
                  /\ waiters[i] \in Waiter /\ waiters[i].task \in Tasks
                  /\ waiters[i].needed \in 1..MaxNeeded /\ waiters[i].live \in BOOLEAN
<1>1. waiters \in Seq(Waiter)
  BY Zenon DEF TypeOK, Waiter
<1>2. \A i \in 1..Len(waiters) : waiters[i] \in Waiter
  BY <1>1
<1>3. \A w \in Waiter : w.task \in Tasks /\ w.needed \in 1..MaxNeeded /\ w.live \in BOOLEAN
  BY Zenon DEF Waiter
<1> QED
  BY <1>1, <1>2, <1>3

\* Needed is the number of permits asked for, which grows by each waiter's.
LEMMA SemNeeded ==
    ASSUME TypeOK, MaxNeeded \in Nat, NEW k \in 0..Len(waiters)
    PROVE  /\ IsFiniteSet(Asked(k)) /\ Needed(k) = Cardinality(Asked(k)) /\ Needed(k) \in Nat
<1>1. k \in Nat /\ \A i \in 1..k : i \in 1..Len(waiters)
  BY SemWaiter
<1>2. \A i \in 1..k : waiters[i].needed \in 1..MaxNeeded
  BY <1>1, SemWaiter, Zenon
<1>3. IsFiniteSet((1..k) \X (1..MaxNeeded))
  <2>1. IsFiniteSet(1..k) /\ IsFiniteSet(1..MaxNeeded)
    BY <1>1, FS_Interval
  <2> QED
    BY <2>1, FS_Product, Zenon
<1>4. Asked(k) \subseteq (1..k) \X (1..MaxNeeded)
  <2>1. ASSUME NEW i \in 1..k, NEW p \in {i} \X (1..waiters[i].needed)
        PROVE  p \in (1..k) \X (1..MaxNeeded)
    <3>1. 1..waiters[i].needed \subseteq 1..MaxNeeded
      BY <1>2
    <3> QED
      BY <3>1, Zenon
  <2> QED
    BY <2>1, Zenon DEF Asked
<1>5. IsFiniteSet(Asked(k))
  BY <1>3, <1>4, FS_Subset, Zenon
<1>6. Units([i \in 1..k |-> waiters[i].needed], 1..k) = Asked(k)
  BY Zenon DEF Units, Asked
<1>7. Cardinality(Asked(k)) \in Nat
  BY <1>5, FS_CardinalityType, Zenon
<1> QED
  BY <1>5, <1>6, <1>7, Zenon DEF Needed

\* What the first k + 1 entries ask for exceeds what the first k do by the
\* last of them: the step of release's loop.
LEMMA SemNeededOne ==
    ASSUME TypeOK, MaxNeeded \in Nat
    PROVE  /\ Needed(0) = 0
           /\ \A k \in 0..Len(waiters) : k < Len(waiters) =>
                  Needed(k + 1) = Needed(k) + waiters[k + 1].needed
<1>1. Len(waiters) \in Nat
  BY SemWaiter, Zenon
<1>2. Needed(0) = 0
  <2>1. Asked(0) = {} /\ 0 \in 0..Len(waiters)
    BY <1>1 DEF Asked
  <2> QED
    BY <2>1, SemNeeded, FS_EmptySet, Zenon
<1>3. ASSUME NEW k \in 0..Len(waiters), k < Len(waiters)
      PROVE  Needed(k + 1) = Needed(k) + waiters[k + 1].needed
  <2> DEFINE B == {k + 1} \X (1..waiters[k + 1].needed)
  <2>1. k + 1 \in 0..Len(waiters) /\ k + 1 \in 1..Len(waiters) /\ k \in Nat
    BY <1>1, <1>3
  <2>2. waiters[k + 1].needed \in Nat
    <3>1. waiters[k + 1].needed \in 1..MaxNeeded
      BY <2>1, SemWaiter, Zenon
    <3> QED
      BY <3>1
  <2>3. IsFiniteSet(B) /\ Cardinality(B) = waiters[k + 1].needed
    BY <2>2, UnitsOfOne, Zenon
  <2>4. 1..(k + 1) = (1..k) \cup {k + 1} /\ k + 1 \notin 1..k
    BY <2>1
  <2>5. Asked(k + 1) = Asked(k) \cup B /\ Asked(k) \cap B = {}
    BY <2>4 DEF Asked
  <2> HIDE DEF B
  <2>6. /\ IsFiniteSet(Asked(k)) /\ Needed(k) = Cardinality(Asked(k)) /\ Needed(k) \in Nat
        /\ Needed(k + 1) = Cardinality(Asked(k + 1))
    BY <2>1, SemNeeded, Zenon
  <2>7. Cardinality(Asked(k) \cup B) = Cardinality(Asked(k)) + Cardinality(B) - Cardinality(Asked(k) \cap B)
    BY <2>3, <2>6, FS_Union, Zenon
  <2>8. Cardinality(Asked(k) \cap B) = 0
    BY <2>5, FS_EmptySet, Zenon
  <2>9. Needed(k + 1) = Needed(k) + Cardinality(B) - 0
    BY <2>5, <2>6, <2>7, <2>8, Zenon
  <2> QED
    BY <2>2, <2>3, <2>6, <2>9
<1> QED
  BY <1>2, <1>3, Zenon

\* release pops as many waiters as fit, and the next one does not.
LEMMA SemGrants ==
    ASSUME TypeOK, MaxNeeded \in Nat, NEW p \in Nat
    PROVE  /\ Grants(p) \in 0..Len(waiters) /\ Needed(Grants(p)) <= p
           /\ \A k \in 0..Len(waiters) : Needed(k) <= p => k <= Grants(p)
<1> DEFINE K == {k \in 0..Len(waiters) : Needed(k) <= p}
<1>1. Len(waiters) \in Nat
  BY DEF TypeOK
<1>2. 0 \in K
  BY <1>1, SemNeededOne
<1>3. \E m \in K : \A k \in K : m >= k
  BY <1>1, <1>2, Greatest, Zenon
<1>4. Grants(p) = Max(K)
  BY Zenon DEF Grants
<1> HIDE DEF K
<1>5. Max(K) \in K /\ \A k \in K : Max(K) >= k
  BY <1>3, Zenon DEF Max
<1>6. Grants(p) \in K /\ \A k \in K : Grants(p) >= k
  BY <1>4, <1>5, Zenon
<1> QED
  BY <1>6, Zenon DEF K

\* What release does to the queue: the first k waiters go, those that live are
\* granted, and the next one, if any, asks for more than is left.
Popped(k, n) ==
    /\ permits' \in Nat /\ permits' + Needed(k) = permits + n
    /\ k < Len(waiters) => waiters[k + 1].needed > permits'
    /\ waiters' \in Seq(Waiter) /\ Len(waiters') = Len(waiters) - k
    /\ \A i \in 1..Len(waiters') : waiters'[i] = waiters[i + k] /\ i + k \in 1..Len(waiters)
    /\ outcome' = [t \in Tasks |->
                     IF \E i \in Live(k) : waiters[i].task = t THEN "GRANTED" ELSE outcome[t]]

\* Semaphore::release pops some prefix of the queue, whatever n it gives back.
LEMMA SemPops ==
    ASSUME TypeOK, MaxNeeded \in Nat, NEW n \in Nat, Release(n)
    PROVE  \E k \in 0..Len(waiters) : Popped(k, n)
<1> DEFINE p == permits + n
           k == Grants(p)
           l == Len(waiters)
<1>1. permits \in Nat /\ p \in Nat /\ l \in Nat
  BY DEF TypeOK
<1>2. /\ permits' = p - Needed(k) /\ waiters' = SubSeq(waiters, k + 1, l)
      /\ outcome' = [t \in Tasks |->
                       IF \E i \in 1..k : waiters[i].task = t /\ waiters[i].live
                       THEN "GRANTED" ELSE outcome[t]]
  BY Zenon DEF Release
<1>3. /\ k \in 0..l /\ Needed(k) <= p
      /\ \A j \in 0..l : Needed(j) <= p => j <= k
  BY <1>1, SemGrants, Zenon
<1> HIDE DEF k, p, l
<1>4. k \in 0..Len(waiters)
  BY <1>3, Zenon DEF l
<1>5. Needed(k) \in Nat
  BY <1>4, SemNeeded, Zenon
<1>6. permits' \in Nat /\ permits' + Needed(k) = p
  BY <1>1, <1>2, <1>3, <1>5
<1>7. ASSUME k < Len(waiters) PROVE waiters[k + 1].needed > permits'
  <2>1. k + 1 \in 0..l /\ ~(k + 1 <= k) /\ k + 1 \in 1..Len(waiters)
    BY <1>1, <1>3, <1>7 DEF l
  <2>2. ~(Needed(k + 1) <= p)
    BY <1>3, <2>1, Zenon
  <2>3. Needed(k + 1) = Needed(k) + waiters[k + 1].needed
    BY <1>4, <1>7, SemNeededOne, Zenon
  <2>4. waiters[k + 1].needed \in 1..MaxNeeded
    BY <2>1, SemWaiter, Zenon
  <2>5. waiters[k + 1].needed \in Nat
    BY <2>4
  <2> QED
    BY <1>1, <1>5, <1>6, <2>2, <2>3, <2>5
<1>8. /\ waiters' \in Seq(Waiter)
      /\ Len(waiters') = IF k + 1 <= l THEN l - (k + 1) + 1 ELSE 0
      /\ \A i \in 1..(l - (k + 1) + 1) : waiters'[i] = waiters[(k + 1) + i - 1]
  <2>1. waiters \in Seq(Waiter)
    BY SemWaiter, Zenon
  <2>2. \A i \in (k + 1)..l : waiters[i] \in Waiter
    <3>1. \A i \in (k + 1)..l : i \in 1..Len(waiters)
      BY <1>1, <1>3 DEF l
    <3> QED
      BY <3>1, SemWaiter, Zenon
  <2>3. k + 1 \in 1..(l + 1) /\ l \in 0..l
    BY <1>1, <1>3
  <2> QED
    BY <1>1, <1>2, <1>3, <2>1, <2>2, <2>3 DEF l
<1>9. l - (k + 1) + 1 = l - k /\ \A i \in 1..(l - k) : (k + 1) + i - 1 = i + k /\ i + k \in 1..l
  BY <1>1, <1>3
<1>10. Len(waiters') = l - k
  BY <1>1, <1>3, <1>8, <1>9
<1>11. \A i \in 1..Len(waiters') : waiters'[i] = waiters[i + k] /\ i + k \in 1..l
  BY <1>8, <1>9, <1>10, Zenon
<1>12. outcome' = [t \in Tasks |->
                     IF \E i \in Live(k) : waiters[i].task = t THEN "GRANTED" ELSE outcome[t]]
  BY <1>2, Zenon DEF Live
<1>13. Popped(k, n)
  BY <1>6, <1>7, <1>8, <1>10, <1>11, <1>12, Zenon DEF Popped, p, l
<1> QED
  BY <1>4, <1>13, Zenon

\* The waiters that stay are as they were.
LEMMA SemPopQueue ==
    ASSUME TypeOK, SemQueue, HeadBlocked, NEW k \in 0..Len(waiters), NEW n \in Nat,
           Popped(k, n), UNCHANGED <<closed, want, dropped>>
    PROVE  SemQueue' /\ HeadBlocked'
<1>1. Len(waiters) \in Nat /\ k \in Nat /\ \A i \in 1..Len(waiters) : waiters[i].task \in Tasks
  BY SemWaiter
<1>2. /\ waiters' \in Seq(Waiter) /\ Len(waiters') = Len(waiters) - k
      /\ \A i \in 1..Len(waiters') : waiters'[i] = waiters[i + k] /\ i + k \in 1..Len(waiters)
      /\ outcome' = [t \in Tasks |->
                     IF \E i \in Live(k) : waiters[i].task = t THEN "GRANTED" ELSE outcome[t]]
  BY Zenon DEF Popped
<1>3. ASSUME NEW i \in 1..Len(waiters'), NEW j \in 1..Len(waiters'), waiters'[i].live,
             waiters'[j].live, waiters'[i].task = waiters'[j].task
      PROVE  i = j
  <2>1. /\ waiters'[i] = waiters[i + k] /\ i + k \in 1..Len(waiters)
        /\ waiters'[j] = waiters[j + k] /\ j + k \in 1..Len(waiters)
    BY <1>2, Zenon
  <2>2. i + k = j + k
    BY <1>3, <2>1, Zenon DEF SemQueue
  <2>3. i \in Int /\ j \in Int
    OBVIOUS
  <2> QED
    BY <1>1, <2>2, <2>3
<1>4. ASSUME NEW i \in 1..Len(waiters'), waiters'[i].live
      PROVE  /\ want'[waiters'[i].task] = waiters'[i].needed
             /\ outcome'[waiters'[i].task] = "PENDING"
  <2>1. waiters'[i] = waiters[i + k] /\ i + k \in 1..Len(waiters) /\ i + k \notin 1..k
    BY <1>1, <1>2
  <2>2. ~\E j \in Live(k) : waiters[j].task = waiters[i + k].task
    <3>1. \A j \in Live(k) : j \in 1..Len(waiters) /\ waiters[j].live /\ j \in 1..k
      BY <1>1 DEF Live
    <3> QED
      BY <1>4, <2>1, <3>1, Zenon DEF SemQueue
  <2> QED
    BY <1>1, <1>2, <1>4, <2>1, <2>2 DEF SemQueue
<1>5. ASSUME ~dropped', NEW i \in 1..Len(waiters') PROVE waiters'[i].live
  BY <1>2, <1>5, Zenon DEF SemQueue
<1>6. ASSUME waiters' # <<>> PROVE ~closed' /\ Head(waiters').needed > permits'
  <2>1. Len(waiters') # 0 /\ Head(waiters') = waiters'[1]
    BY <1>2, <1>6
  <2>2. 1 \in 1..Len(waiters') /\ k < Len(waiters) /\ 1 + k = k + 1 /\ Len(waiters) # 0
    BY <1>1, <1>2, <2>1
  <2>3. waiters'[1] = waiters[k + 1]
    BY <1>2, <2>2, Zenon
  <2>4. waiters[k + 1].needed > permits'
    BY <2>2, Zenon DEF Popped
  <2>5. waiters # <<>>
    BY <2>2
  <2> QED
    BY <2>1, <2>3, <2>4, <2>5, Zenon DEF HeadBlocked
<1>7. ASSUME NEW t \in Tasks, want'[t] # 0, outcome'[t] = "PENDING"
      PROVE  \E i \in DOMAIN waiters' : /\ waiters'[i].task = t /\ waiters'[i].live
                                        /\ waiters'[i].needed = want'[t]
  <2>1. outcome[t] = "PENDING" /\ ~\E i \in Live(k) : waiters[i].task = t
    BY <1>2, <1>7, Zenon
  <2>2. PICK j \in DOMAIN waiters : waiters[j].task = t /\ waiters[j].live /\ waiters[j].needed = want[t]
    BY <1>7, <2>1, Zenon DEF HeadBlocked
  <2>3. j \in 1..Len(waiters)
    BY <2>2, SemWaiter
  <2>4. j \notin 1..k
    BY <2>1, <2>2, Zenon DEF Live
  <2>5. j - k \in 1..Len(waiters') /\ (j - k) + k = j
    BY <1>1, <1>2, <2>3, <2>4
  <2>6. waiters'[j - k] = waiters[j]
    BY <1>2, <2>5, Zenon
  <2>7. j - k \in DOMAIN waiters'
    BY <1>2, <2>5
  <2> QED
    BY <2>2, <2>6, <2>7, Zenon
<1>8. SemQueue'
  BY <1>3, <1>4, <1>5, Zenon DEF SemQueue
<1>9. HeadBlocked'
  BY <1>6, <1>7, Zenon DEF HeadBlocked
<1> QED
  BY <1>8, <1>9, Zenon

\* The permits that were free or on their way to a future, and n more, still are,
\* unless they were granted to a future that is gone.
Released(n) ==
    /\ IsFiniteSet(Units(want', Granted'))
    /\ permits' + Cardinality(Units(want', Granted')) <= permits + n + Cardinality(Units(want, Granted))
    /\ ~dropped => permits' + Cardinality(Units(want', Granted'))
                       = permits + n + Cardinality(Units(want, Granted))

\* release hands out exactly what it takes: the permits that are left and those
\* granted to the popped live entries make up what there was.
LEMMA SemPopCount ==
    ASSUME TypeOK, SemQueue, IsFiniteSet(Units(want, Granted)), MaxNeeded \in Nat,
           NEW k \in 0..Len(waiters), NEW n \in Nat, Popped(k, n), want' = want
    PROVE  Released(n)
<1> DEFINE f == [i \in 1..k |-> waiters[i].needed]
           h == [i \in Live(k) |-> waiters[i].task]
           T == {h[i] : i \in Live(k)}
           G == Units(want, Granted)
           W == Units(want, T)
           L == Units(f, Live(k))
<1>1. /\ Len(waiters) \in Nat /\ k \in Nat
      /\ \A i \in 1..k : i \in 1..Len(waiters) /\ waiters[i].task \in Tasks
                         /\ waiters[i].needed \in 1..MaxNeeded
  BY SemWaiter
<1>2. Live(k) \subseteq 1..k /\ \A i \in Live(k) : waiters[i].live
  BY Zenon DEF Live
<1>3. L \subseteq Asked(k) /\ (~dropped => L = Asked(k))
  <2>1. L \subseteq Asked(k)
    BY <1>2, Zenon DEF Units, Asked
  <2>2. ~dropped => Live(k) = 1..k
    BY <1>1, Zenon DEF SemQueue, Live
  <2> QED
    BY <2>1, <2>2, Zenon DEF Units, Asked
<1>4. IsFiniteSet(Asked(k)) /\ Needed(k) = Cardinality(Asked(k)) /\ Cardinality(Asked(k)) \in Nat
  BY SemNeeded, Zenon
<1>5. IsFiniteSet(L) /\ Cardinality(L) \in Nat /\ Cardinality(L) <= Cardinality(Asked(k))
  BY <1>3, <1>4, FS_Subset, FS_CardinalityType, Zenon
<1>6. IsFiniteSet(W) /\ Cardinality(W) = Cardinality(L)
  <2>1. h = [x \in Live(k) |-> h[x]]
    BY Zenon
  <2>2. \A x, y \in Live(k) : h[x] = h[y] => x = y
    BY <1>1, <1>2, Zenon DEF SemQueue
  <2>3. \A x \in Live(k) : want[h[x]] = f[x]
    BY <1>1, <1>2, Zenon DEF SemQueue
  <2> HIDE DEF h, f
  <2> QED
    BY <1>5, <2>1, <2>2, <2>3, UnitsRenamed
<1>7. Granted' = Granted \cup T /\ Granted \cap T = {}
  <2>1. ASSUME NEW t \in T PROVE t \in Tasks /\ want[t] # 0 /\ outcome[t] = "PENDING"
    <3>1. PICK i \in Live(k) : t = waiters[i].task
      BY Zenon
    <3>2. waiters[i].needed \in 1..MaxNeeded /\ t \in Tasks /\ i \in 1..Len(waiters) /\ waiters[i].live
      BY <1>1, <1>2, <3>1, Zenon
    <3>3. want[t] = waiters[i].needed /\ outcome[t] = "PENDING"
      BY <3>1, <3>2, Zenon DEF SemQueue
    <3> QED
      BY <3>2, <3>3
  <2>2. \A t \in Tasks : outcome'[t] = IF t \in T THEN "GRANTED" ELSE outcome[t]
    BY Zenon DEF Popped
  <2> HIDE DEF T
  <2> QED
    BY <2>1, <2>2, Zenon DEF Granted
<1> HIDE DEF T
<1>8. Units(want', Granted') = G \cup W /\ G \cap W = {}
  BY <1>7 DEF Units
<1> HIDE DEF G, W, L
<1>9. IsFiniteSet(G) /\ Cardinality(G) \in Nat
  <2>1. IsFiniteSet(G)
    BY Zenon DEF G
  <2> QED
    BY <2>1, FS_CardinalityType, Zenon
<1>10. IsFiniteSet(G \cup W) /\ Cardinality(G \cup W) = Cardinality(G) + Cardinality(L)
  <2>1. /\ IsFiniteSet(G \cup W)
        /\ Cardinality(G \cup W) = Cardinality(G) + Cardinality(W) - Cardinality(G \cap W)
    BY <1>6, <1>9, FS_Union, Zenon
  <2>2. Cardinality(G \cap W) = 0
    BY <1>8, FS_EmptySet, Zenon
  <2> QED
    BY <1>5, <1>6, <1>9, <2>1, <2>2
<1>11. permits' \in Nat /\ permits' + Cardinality(Asked(k)) = permits + n /\ permits \in Nat
  BY <1>4, Zenon DEF Popped, TypeOK
<1>12. permits' + (Cardinality(G) + Cardinality(L)) <= permits + n + Cardinality(G)
  BY <1>4, <1>5, <1>9, <1>11, SMTT(30)
<1>13. ~dropped => permits' + (Cardinality(G) + Cardinality(L)) = permits + n + Cardinality(G)
  <2>1. ~dropped => Cardinality(L) = Cardinality(Asked(k))
    BY <1>3, Zenon
  <2> QED
    BY <1>4, <1>5, <1>9, <1>11, <2>1
<1> QED
  BY <1>8, <1>10, <1>12, <1>13, Zenon DEF Released, G

\* One summand less.
LEMMA UnitsWithout ==
    ASSUME NEW S, NEW f, NEW x \in S, f[x] \in Nat, IsFiniteSet(Units(f, S))
    PROVE  Exchanged(Units(f, S), Units(f, S \ {x}), f[x], 0)
<1> DEFINE U == Units(f, S)
           R == Units(f, S \ {x})
           A == {x} \X (1..f[x])
<1>1. IsFiniteSet(A) /\ Cardinality(A) = f[x]
  BY UnitsOfOne, Zenon
<1>2. U = R \cup A /\ R \cap A = {}
  BY DEF Units
<1>3. IsFiniteSet(U) /\ R \subseteq U
  BY <1>2, Zenon
<1> HIDE DEF U, R, A
<1>4. IsFiniteSet(R) /\ Cardinality(R) \in Nat
  BY <1>3, FS_Subset, FS_CardinalityType, Zenon
<1>5. Cardinality(U) = Cardinality(R) + f[x]
  <2>1. Cardinality(R \cup A) = Cardinality(R) + Cardinality(A) - Cardinality(R \cap A)
    BY <1>1, <1>4, FS_Union, Zenon
  <2>2. Cardinality(R \cap A) = 0
    BY <1>2, FS_EmptySet, Zenon
  <2> QED
    BY <1>1, <1>2, <1>4, <2>1, <2>2
<1> QED
  BY <1>4, <1>5 DEF Exchanged, U, R

\* Semaphore::new establishes the invariant.
LEMMA SemInit == ASSUME MaxSupply \in Nat, MaxNeeded \in Nat PROVE Init => SemInv
<1> SUFFICES ASSUME Init PROVE SemInv
  BY Zenon
<1>1. waiters = <<>> /\ Len(waiters) = 0 /\ waiters \in Seq(Waiter)
  BY DEF Init
<1>2. TypeOK
  <2>1. waiters \in Seq([task : Tasks, needed : 1..MaxNeeded, live : BOOLEAN])
    BY <1>1, Zenon DEF Waiter
  <2>2. permits \in Nat /\ supply \in Nat
    BY DEF Init
  <2>3. want \in [Tasks -> 0..MaxNeeded]
    BY DEF Init
  <2> QED
    BY <2>1, <2>2, <2>3, Zenon DEF Init, TypeOK
<1>3. SemQueue /\ SemHolds
  BY <1>1 DEF Init, SemQueue, SemHolds
<1>4. HeadBlocked
  BY <1>1, Zenon DEF Init, HeadBlocked
<1>5. SemSum
  <2>1. Units(held, Tasks) = {} /\ Units(want, Granted) = {}
    BY DEF Init, Units, Granted
  <2>2. IsFiniteSet({}) /\ Cardinality({}) = 0
    BY FS_EmptySet, Zenon
  <2>3. permits \in Nat /\ supply = permits
    BY DEF Init
  <2> QED
    BY <2>1, <2>2, <2>3 DEF SemSum
<1> QED
  BY <1>2, <1>3, <1>4, <1>5, Zenon DEF SemInv

\* The numbers of SemSum are naturals.
LEMMA SemNats ==
    ASSUME TypeOK, SemSum
    PROVE  /\ permits \in Nat /\ supply \in Nat
           /\ Cardinality(Units(held, Tasks)) \in Nat /\ Cardinality(Units(want, Granted)) \in Nat
  BY FS_CardinalityType, Zenon DEF TypeOK, SemSum

\* The fast path.
LEMMA SemAcquireNow ==
    ASSUME SemInv, NEW t \in Tasks, NEW n \in 1..MaxNeeded, MaxNeeded \in Nat, AcquireNow(t, n)
    PROVE  SemInv'
<1>1. TypeOK /\ SemQueue /\ SemHolds /\ SemSum /\ HeadBlocked
  BY Zenon DEF SemInv
<1>2. /\ want[t] = 0 /\ held[t] = 0 /\ waiters = <<>> /\ permits >= n /\ permits' = permits - n
      /\ held' = [held EXCEPT ![t] = n]
      /\ UNCHANGED <<closed, waiters, want, outcome, supply, dropped>>
  BY Zenon DEF AcquireNow, Fits
<1>3. permits \in Nat /\ held \in [Tasks -> Nat] /\ n \in Nat
  BY <1>1 DEF TypeOK
<1>4. permits' \in Nat /\ held' \in [Tasks -> Nat]
  BY <1>2, <1>3
<1>5. TypeOK'
  BY <1>1, <1>2, <1>4, Zenon DEF TypeOK
<1>6. SemQueue' /\ SemHolds'
  BY <1>1, <1>2, <1>3 DEF SemQueue, SemHolds
<1>7. HeadBlocked'
  BY <1>1, <1>2, Zenon DEF HeadBlocked
<1>8. SemSum'
  <2>1. Granted' = Granted
    BY <1>2, Zenon DEF Granted
  <2>2. held[t] \in Nat /\ held'[t] = n /\ \A u \in Tasks \ {t} : held'[u] = held[u]
    BY <1>2, <1>3, Zenon
  <2>3. Exchanged(Units(held, Tasks), Units(held', Tasks), held[t], held'[t])
    BY <1>1, <1>3, <2>2, UnitsExcept, Zenon DEF SemSum
  <2>4. /\ IsFiniteSet(Units(held', Tasks))
        /\ Cardinality(Units(held', Tasks)) = Cardinality(Units(held, Tasks)) - 0 + n
    BY <1>2, <2>2, <2>3, Zenon DEF Exchanged
  <2>5. /\ permits \in Nat /\ supply \in Nat
        /\ Cardinality(Units(held, Tasks)) \in Nat /\ Cardinality(Units(want, Granted)) \in Nat
    BY <1>1, SemNats, Zenon
  <2>6. permits' + Cardinality(Units(held', Tasks)) = permits + Cardinality(Units(held, Tasks))
    BY <1>2, <1>3, <2>4, <2>5
  <2> QED
    BY <1>1, <1>2, <2>1, <2>4, <2>6, Zenon DEF SemSum
<1> QED
  BY <1>5, <1>6, <1>7, <1>8, Zenon DEF SemInv

\* The future does not fit and queues.
LEMMA SemEnqueue ==
    ASSUME SemInv, NEW t \in Tasks, NEW n \in 1..MaxNeeded, MaxNeeded \in Nat, Enqueue(t, n)
    PROVE  SemInv'
<1>1. TypeOK /\ SemQueue /\ SemHolds /\ SemSum /\ HeadBlocked
  BY Zenon DEF SemInv
<1> DEFINE w == [task |-> t, needed |-> n, live |-> TRUE]
<1>2. /\ want[t] = 0 /\ held[t] = 0 /\ ~closed /\ (waiters # <<>> \/ ~(permits >= n))
      /\ waiters' = Append(waiters, w)
      /\ want' = [want EXCEPT ![t] = n] /\ outcome' = [outcome EXCEPT ![t] = "PENDING"]
      /\ UNCHANGED <<permits, closed, held, supply, dropped>>
  BY Zenon DEF Enqueue, Fits
<1>3. w \in Waiter /\ w.task = t /\ w.needed = n /\ w.live /\ n \in Nat /\ n # 0
  BY DEF Waiter
<1> HIDE DEF w
<1>4. /\ waiters \in Seq(Waiter) /\ Len(waiters) \in Nat /\ permits \in Nat
      /\ want \in [Tasks -> 0..MaxNeeded] /\ held \in [Tasks -> Nat]
      /\ outcome \in [Tasks -> {"PENDING", "GRANTED", "CLOSED"}]
  BY <1>1, SemWaiter, Zenon DEF TypeOK
<1>5. /\ waiters' \in Seq(Waiter) /\ Len(waiters') = Len(waiters) + 1
      /\ \A i \in 1..Len(waiters) : waiters'[i] = waiters[i]
      /\ waiters'[Len(waiters) + 1] = w
  BY <1>2, <1>3, <1>4
<1>6. \A i \in 1..Len(waiters') : i \in 1..Len(waiters) \/ i = Len(waiters) + 1
  BY <1>4, <1>5
<1>7. TypeOK'
  <2>1. want' \in [Tasks -> 0..MaxNeeded]
    BY <1>2, <1>4
  <2> QED
    BY <1>1, <1>2, <1>4, <1>5, <2>1, Zenon DEF TypeOK, Waiter
<1>8. \A i \in 1..Len(waiters) : waiters[i].task \in Tasks /\ (waiters[i].live => waiters[i].task # t)
  <2>1. TAKE i \in 1..Len(waiters)
  <2>2. waiters[i].task \in Tasks /\ waiters[i].needed \in 1..MaxNeeded
    BY <1>1, SemWaiter, Zenon
  <2> QED
    BY <1>1, <1>2, <2>2 DEF SemQueue
<1>9. SemQueue'
  <2>1. \A i, j \in 1..Len(waiters') :
            waiters'[i].live /\ waiters'[j].live /\ waiters'[i].task = waiters'[j].task => i = j
    BY <1>1, <1>3, <1>5, <1>6, <1>8, SMTT(30) DEF SemQueue
  <2>2. ASSUME NEW i \in 1..Len(waiters'), waiters'[i].live
        PROVE  /\ want'[waiters'[i].task] = waiters'[i].needed
               /\ outcome'[waiters'[i].task] = "PENDING"
    <3>1. CASE i = Len(waiters) + 1
      BY <1>2, <1>3, <1>4, <1>5, <3>1, Zenon
    <3>2. CASE i \in 1..Len(waiters)
      <4>1. waiters'[i] = waiters[i] /\ waiters[i].task \in Tasks /\ waiters[i].task # t
        BY <1>5, <1>8, <2>2, <3>2, Zenon
      <4> QED
        BY <1>1, <1>2, <1>4, <2>2, <3>2, <4>1, Zenon DEF SemQueue
    <3> QED
      BY <1>6, <3>1, <3>2, Zenon
  <2>3. ~dropped' => \A i \in 1..Len(waiters') : waiters'[i].live
    BY <1>1, <1>2, <1>3, <1>5, <1>6 DEF SemQueue
  <2> QED
    BY <2>1, <2>2, <2>3, Zenon DEF SemQueue
<1>10. SemHolds'
  BY <1>1, <1>2, <1>4, Zenon DEF SemHolds
<1>11. HeadBlocked'
  <2>1. 1 \in 1..Len(waiters') /\ Head(waiters') = waiters'[1]
    BY <1>4, <1>5
  <2>2. waiters'[1].needed > permits'
    <3>1. CASE waiters = <<>>
      <4>1. Len(waiters) + 1 = 1 /\ ~(permits >= n)
        BY <1>2, <3>1
      <4>2. waiters'[1] = w
        BY <1>5, <4>1, Zenon
      <4> QED
        BY <1>2, <1>3, <1>4, <4>1, <4>2
    <3>2. CASE waiters # <<>>
      <4>1. 1 \in 1..Len(waiters) /\ Head(waiters) = waiters[1]
        BY <1>4, <3>2
      <4>2. waiters[1].needed > permits
        BY <1>1, <3>2, <4>1, Zenon DEF HeadBlocked
      <4> QED
        BY <1>2, <1>5, <4>1, <4>2, Zenon
    <3> QED
      BY <3>1, <3>2, Zenon
  <2>3. ASSUME NEW u \in Tasks, want'[u] # 0, outcome'[u] = "PENDING"
        PROVE  \E i \in 1..Len(waiters') : /\ waiters'[i].task = u /\ waiters'[i].live
                                           /\ waiters'[i].needed = want'[u]
    <3>1. CASE u = t
      <4>1. Len(waiters) + 1 \in 1..Len(waiters') /\ want'[t] = n
        BY <1>2, <1>4, <1>5
      <4> QED
        BY <1>3, <1>5, <3>1, <4>1, Zenon
    <3>2. CASE u # t
      <4>1. want'[u] = want[u] /\ outcome'[u] = outcome[u]
        BY <1>2, <1>4, <3>2, Zenon
      <4>2. PICK j \in DOMAIN waiters :
                waiters[j].task = u /\ waiters[j].live /\ waiters[j].needed = want[u]
        BY <1>1, <2>3, <4>1, Zenon DEF HeadBlocked
      <4>3. j \in 1..Len(waiters) /\ j \in 1..Len(waiters')
        BY <1>4, <1>5, <4>2
      <4> QED
        BY <1>5, <4>1, <4>2, <4>3, Zenon
    <3> QED
      BY <3>1, <3>2, Zenon
  <2>4. DOMAIN waiters' = 1..Len(waiters')
    BY <1>5
  <2> QED
    BY <1>2, <2>1, <2>2, <2>3, <2>4, SMTT(30) DEF HeadBlocked
<1>12. SemSum'
  <2>1. Granted' = Granted /\ t \notin Granted
    BY <1>2, <1>4, Zenon DEF Granted
  <2>2. \A u \in Granted : want'[u] = want[u]
    BY <1>2, <1>4, <2>1, Zenon DEF Granted
  <2>3. Units(want', Granted') = Units(want, Granted)
    BY <2>1, <2>2, Zenon DEF Units
  <2> QED
    BY <1>1, <1>2, <2>3, Zenon DEF SemSum
<1> QED
  BY <1>7, <1>9, <1>10, <1>11, <1>12, Zenon DEF SemInv

\* The future that was granted, or closed, is polled.
LEMMA SemPoll ==
    ASSUME SemInv, NEW t \in Tasks, MaxNeeded \in Nat, Poll(t)
    PROVE  SemInv'
<1>1. TypeOK /\ SemQueue /\ SemHolds /\ SemSum /\ HeadBlocked
  BY Zenon DEF SemInv
<1>2. /\ want[t] # 0 /\ outcome[t] # "PENDING"
      /\ held' = [held EXCEPT ![t] = IF outcome[t] = "GRANTED" THEN want[t] ELSE 0]
      /\ want' = [want EXCEPT ![t] = 0]
      /\ UNCHANGED <<permits, closed, waiters, outcome, supply, dropped>>
  BY Zenon DEF Poll
<1>3. /\ want \in [Tasks -> 0..MaxNeeded] /\ held \in [Tasks -> Nat] /\ want[t] \in Nat
      /\ held[t] = 0 /\ Len(waiters) \in Nat
  BY <1>1, <1>2, SemWaiter DEF TypeOK, SemHolds
<1>4. TypeOK'
  <2>1. want' \in [Tasks -> 0..MaxNeeded] /\ held' \in [Tasks -> Nat]
    BY <1>2, <1>3
  <2> QED
    BY <1>1, <1>2, <2>1, Zenon DEF TypeOK
<1>5. SemQueue'
  <2>1. \A i \in 1..Len(waiters) : waiters[i].task \in Tasks /\ (waiters[i].live => waiters[i].task # t)
    BY <1>1, <1>2, SemWaiter, Zenon DEF SemQueue
  <2>2. \A i \in 1..Len(waiters) : waiters[i].live => want'[waiters[i].task] = waiters[i].needed
    BY <1>1, <1>2, <1>3, <2>1, Zenon DEF SemQueue
  <2> QED
    BY <1>1, <1>2, <2>2, Zenon DEF SemQueue
<1>6. SemHolds'
  BY <1>1, <1>2, <1>3, Zenon DEF SemHolds
<1>7. HeadBlocked'
  <2>1. \A u \in Tasks : want'[u] # 0 => want'[u] = want[u]
    BY <1>2, <1>3, Zenon
  <2> QED
    BY <1>1, <1>2, <2>1 DEF HeadBlocked
<1>8. SemSum'
  <2> DEFINE H == Cardinality(Units(held, Tasks))
             G == Cardinality(Units(want, Granted))
  <2>1. permits \in Nat /\ supply \in Nat /\ H \in Nat /\ G \in Nat
    BY <1>1, SemNats, Zenon
  <2>2. Granted' = Granted \ {t}
    BY <1>2, <1>3, Zenon DEF Granted
  <2>3. \A u \in Granted \ {t} : want'[u] = want[u]
    BY <1>2, <1>3, Zenon DEF Granted
  <2>4. Units(want', Granted') = Units(want, Granted \ {t})
    BY <2>2, <2>3, Zenon DEF Units
  <2>5. \A u \in Tasks \ {t} : held'[u] = held[u]
    BY <1>2, <1>3, Zenon
  <2>6. CASE outcome[t] = "GRANTED"
    <3>1. t \in Granted /\ held'[t] = want[t]
      BY <1>2, <1>3, <2>6, Zenon DEF Granted
    <3>2. Exchanged(Units(want, Granted), Units(want, Granted \ {t}), want[t], 0)
      BY <1>1, <1>3, <3>1, UnitsWithout, Zenon DEF SemSum
    <3>3. Exchanged(Units(held, Tasks), Units(held', Tasks), held[t], held'[t])
      BY <1>1, <1>3, <2>5, <3>1, UnitsExcept, Zenon DEF SemSum
    <3>4. /\ IsFiniteSet(Units(want', Granted'))
          /\ Cardinality(Units(want', Granted')) = G - want[t] + 0
      BY <2>4, <3>2, Zenon DEF Exchanged
    <3>5. /\ IsFiniteSet(Units(held', Tasks))
          /\ Cardinality(Units(held', Tasks)) = H - 0 + want[t]
      BY <1>3, <3>1, <3>3, Zenon DEF Exchanged
    <3>6. permits' + Cardinality(Units(held', Tasks)) + Cardinality(Units(want', Granted'))
            = permits + H + G
      BY <1>2, <1>3, <2>1, <3>4, <3>5, SMTT(30)
    <3> QED
      BY <1>1, <1>2, <3>4, <3>5, <3>6, Zenon DEF SemSum
  <2>7. CASE outcome[t] # "GRANTED"
    <3>1. held' = held /\ Granted \ {t} = Granted
      BY <1>2, <1>3, <2>7, Zenon DEF Granted
    <3> QED
      BY <1>1, <1>2, <2>4, <3>1, Zenon DEF SemSum
  <2> QED
    BY <2>6, <2>7, Zenon
<1> QED
  BY <1>4, <1>5, <1>6, <1>7, <1>8, Zenon DEF SemInv

\* The future is dropped, and what it was granted with it.
LEMMA SemCancel ==
    ASSUME SemInv, NEW t \in Tasks, MaxNeeded \in Nat, Cancel(t)
    PROVE  SemInv'
<1>1. TypeOK /\ SemQueue /\ SemHolds /\ SemSum /\ HeadBlocked
  BY Zenon DEF SemInv
<1>2. /\ want[t] # 0 /\ want' = [want EXCEPT ![t] = 0]
      /\ waiters' = [i \in DOMAIN waiters |->
                       [waiters[i] EXCEPT !.live = @ /\ waiters[i].task # t]]
      /\ dropped' = (dropped \/ outcome[t] # "CLOSED")
      /\ UNCHANGED <<permits, closed, outcome, held, supply>>
  BY Zenon DEF Cancel
<1>3. /\ want \in [Tasks -> 0..MaxNeeded] /\ want[t] \in Nat /\ Len(waiters) \in Nat
      /\ waiters \in Seq(Waiter) /\ DOMAIN waiters = 1..Len(waiters)
  BY <1>1, SemWaiter, SMTT(30) DEF TypeOK
<1>4. ASSUME NEW i \in 1..Len(waiters)
      PROVE  /\ waiters'[i] \in Waiter /\ waiters'[i].task = waiters[i].task
             /\ waiters'[i].needed = waiters[i].needed
             /\ waiters'[i].live <=> waiters[i].live /\ waiters[i].task # t
  <2>1. waiters[i] \in Waiter
    BY <1>1, SemWaiter, Zenon
  <2>2. waiters'[i] = [waiters[i] EXCEPT !.live = waiters[i].live /\ waiters[i].task # t]
    BY <1>2, <1>3, Zenon
  <2>3. ASSUME NEW w \in Waiter, NEW b \in BOOLEAN
        PROVE  /\ [w EXCEPT !.live = b] \in Waiter /\ [w EXCEPT !.live = b].task = w.task
               /\ [w EXCEPT !.live = b].needed = w.needed /\ [w EXCEPT !.live = b].live = b
    BY Zenon DEF Waiter
  <2> QED
    BY <2>1, <2>2, <2>3, Zenon
<1>5. waiters' \in Seq(Waiter) /\ Len(waiters') = Len(waiters) /\ DOMAIN waiters' = 1..Len(waiters)
  <2>1. waiters' = [i \in 1..Len(waiters) |-> waiters'[i]]
    BY <1>2, <1>3, Zenon
  <2>2. waiters' \in [1..Len(waiters) -> Waiter]
    BY <1>4, <2>1, Zenon
  <2> QED
    BY <1>3, <2>2
<1>6. dropped' \in BOOLEAN /\ (~dropped' => ~dropped /\ outcome[t] = "CLOSED")
  BY <1>2, Zenon
<1>7. TypeOK'
  <2>1. want' \in [Tasks -> 0..MaxNeeded]
    BY <1>2, <1>3
  <2> QED
    BY <1>1, <1>2, <1>5, <1>6, <2>1, Zenon DEF TypeOK, Waiter
<1>8. \A i \in 1..Len(waiters) : waiters[i].task \in Tasks
  BY <1>1, SemWaiter, Zenon
<1>9. \A u \in Tasks \ {t} : want'[u] = want[u]
  BY <1>2, <1>3, Zenon
<1>10. want'[t] = 0
  BY <1>2, <1>3, Zenon
<1>11. SemQueue'
  <2>1. \A i, j \in 1..Len(waiters') :
            waiters'[i].live /\ waiters'[j].live /\ waiters'[i].task = waiters'[j].task => i = j
    BY <1>1, <1>4, <1>5, Zenon DEF SemQueue
  <2>2. \A i \in 1..Len(waiters') : waiters'[i].live =>
           /\ want'[waiters'[i].task] = waiters'[i].needed
           /\ outcome'[waiters'[i].task] = "PENDING"
    BY <1>1, <1>2, <1>4, <1>5, <1>8, <1>9 DEF SemQueue
  <2>3. ASSUME ~dropped', NEW i \in 1..Len(waiters') PROVE waiters'[i].live
    <3>1. waiters[i].live /\ outcome[waiters[i].task] = "PENDING"
      BY <1>1, <1>5, <1>6, <2>3, Zenon DEF SemQueue
    <3> QED
      BY <1>4, <1>5, <1>6, <2>3, <3>1, Zenon
  <2> QED
    BY <2>1, <2>2, <2>3, Zenon DEF SemQueue
<1>12. SemHolds'
  BY <1>1, <1>2, <1>9, <1>10, Zenon DEF SemHolds
<1>13. HeadBlocked'
  <2>1. ASSUME waiters' # <<>> PROVE ~closed' /\ Head(waiters').needed > permits'
    <3>1. 1 \in 1..Len(waiters) /\ Head(waiters') = waiters'[1] /\ waiters # <<>>
          /\ Head(waiters) = waiters[1]
      BY <1>3, <1>5, <2>1
    <3>2. waiters'[1].needed = waiters[1].needed
      BY <1>4, <3>1, Zenon
    <3>3. ~closed /\ waiters[1].needed > permits
      BY <1>1, <3>1, Zenon DEF HeadBlocked
    <3> QED
      BY <1>2, <3>1, <3>2, <3>3, Zenon
  <2>2. ASSUME NEW u \in Tasks, want'[u] # 0, outcome'[u] = "PENDING"
        PROVE  \E i \in DOMAIN waiters' : /\ waiters'[i].task = u /\ waiters'[i].live
                                          /\ waiters'[i].needed = want'[u]
    <3>1. u # t /\ want'[u] = want[u]
      BY <1>9, <1>10, <2>2, Zenon
    <3>2. PICK j \in DOMAIN waiters :
              waiters[j].task = u /\ waiters[j].live /\ waiters[j].needed = want[u]
      BY <1>1, <1>2, <2>2, <3>1, Zenon DEF HeadBlocked
    <3> QED
      BY <1>3, <1>4, <1>5, <3>1, <3>2, Zenon
  <2> QED
    BY <2>1, <2>2, Zenon DEF HeadBlocked
<1>14. SemSum'
  <2> DEFINE H == Cardinality(Units(held, Tasks))
             G == Cardinality(Units(want, Granted))
  <2>1. permits \in Nat /\ supply \in Nat /\ H \in Nat /\ G \in Nat
    BY <1>1, SemNats, Zenon
  <2>2. Granted' = Granted \ {t}
    BY <1>2, <1>9, <1>10, Zenon DEF Granted
  <2>3. Units(want', Granted') = Units(want, Granted \ {t})
    BY <1>9, <2>2 DEF Units, Granted
  <2>4. CASE t \in Granted
    <3>1. Exchanged(Units(want, Granted), Units(want, Granted \ {t}), want[t], 0)
      BY <1>1, <1>3, <2>4, UnitsWithout, Zenon DEF SemSum
    <3>2. /\ IsFiniteSet(Units(want', Granted'))
          /\ Cardinality(Units(want', Granted')) = G - want[t] + 0
      BY <2>3, <3>1, Zenon DEF Exchanged
    <3>3. permits' + H + Cardinality(Units(want', Granted')) <= permits + H + G
      BY <1>2, <1>3, <2>1, <3>2
    <3>4. permits' + H + Cardinality(Units(want', Granted')) <= supply
      <4>1. permits + H + G <= supply
        BY <1>1, Zenon DEF SemSum
      <4>2. Cardinality(Units(want', Granted')) \in Nat
        BY <3>2, FS_CardinalityType, Zenon
      <4> QED
        BY <1>2, <2>1, <3>3, <4>1, <4>2
    <3>5. dropped'
      BY <1>6, <2>4, Zenon DEF Granted
    <3>6. Units(held', Tasks) = Units(held, Tasks) /\ supply' = supply
      BY <1>2, Zenon
    <3> QED
      BY <1>1, <3>2, <3>4, <3>5, <3>6, Zenon DEF SemSum
  <2>5. CASE t \notin Granted
    <3>1. Units(want', Granted') = Units(want, Granted)
      <4>1. Granted \ {t} = Granted
        BY <2>5, Zenon
      <4> QED
        BY <2>3, <4>1, Zenon
    <3> QED
      BY <1>1, <1>2, <1>6, <3>1, Zenon DEF SemSum
  <2> QED
    BY <2>4, <2>5, Zenon
<1> QED
  BY <1>7, <1>11, <1>12, <1>13, <1>14, Zenon DEF SemInv

\* The n permits are no longer held, or are new.
Repaid(n) ==
    /\ supply \in Nat /\ supply' \in Nat
    /\ n + Cardinality(Units(held', Tasks)) + supply = Cardinality(Units(held, Tasks)) + supply'

\* n permits come back: those of a permit object that is dropped, or new ones.
LEMMA SemReleases ==
    ASSUME SemInv, MaxNeeded \in Nat, NEW n \in Nat, Release(n),
           UNCHANGED <<closed, want, dropped>>, Repaid(n),
           held' \in [Tasks -> Nat], \A t \in Tasks : held[t] = 0 => held'[t] = 0,
           IsFiniteSet(Units(held', Tasks))
    PROVE  SemInv'
<1>1. TypeOK /\ SemQueue /\ SemHolds /\ SemSum /\ HeadBlocked
  BY Zenon DEF SemInv
<1>2. PICK k \in 0..Len(waiters) : Popped(k, n)
  BY <1>1, SemPops, Zenon
<1>3. SemQueue' /\ HeadBlocked'
  BY <1>1, <1>2, SemPopQueue, Zenon
<1>4. Released(n)
  BY <1>1, <1>2, SemPopCount, Zenon DEF SemSum
<1>5. TypeOK'
  <2>1. permits' \in Nat /\ waiters' \in Seq(Waiter)
    BY <1>2, Zenon DEF Popped
  <2>2. outcome' \in [Tasks -> {"PENDING", "GRANTED", "CLOSED"}]
    BY <1>1, <1>2, Zenon DEF Popped, TypeOK
  <2> QED
    BY <1>1, <2>1, <2>2, Zenon DEF TypeOK, Waiter, Repaid
<1>6. SemHolds'
  BY <1>1, Zenon DEF SemHolds
<1>7. SemSum'
  <2> DEFINE H == Cardinality(Units(held, Tasks))
             G == Cardinality(Units(want, Granted))
             Ht == Cardinality(Units(held', Tasks))
             Gt == Cardinality(Units(want', Granted'))
             Pt == permits'
             St == supply'
  <2>1. permits \in Nat /\ supply \in Nat /\ H \in Nat /\ G \in Nat
    BY <1>1, SemNats, Zenon
  <2>2. /\ IsFiniteSet(Units(want', Granted')) /\ Pt + Gt <= permits + n + G
        /\ ~dropped => Pt + Gt = permits + n + G
    BY <1>4, Zenon DEF Released
  <2>3. Pt \in Nat /\ Ht \in Nat /\ Gt \in Nat
    BY <1>5, <2>2, FS_CardinalityType, Zenon DEF TypeOK
  <2>4. permits + H + G <= supply /\ (~dropped => permits + H + G = supply)
    BY <1>1, Zenon DEF SemSum
  <2>5. n + Ht + supply = H + St /\ St \in Nat
    BY Zenon DEF Repaid
  <2> HIDE DEF H, G, Ht, Gt, Pt, St
  <2>6. Pt + Ht + Gt <= St
    BY <2>1, <2>2, <2>3, <2>4, <2>5
  <2>7. ~dropped => Pt + Ht + Gt = St
    BY <2>1, <2>2, <2>3, <2>4, <2>5
  <2> QED
    BY <2>2, <2>6, <2>7, Zenon DEF SemSum, Ht, Gt, Pt, St
<1> QED
  BY <1>3, <1>5, <1>6, <1>7, Zenon DEF SemInv

\* Dropping a SemaphorePermit releases what it held, and keeps the invariant.
LEMMA SemDropPermit ==
    ASSUME SemInv, MaxNeeded \in Nat, NEW t \in Tasks, DropPermit(t) PROVE SemInv'
<1>1. TypeOK /\ SemSum
  BY Zenon DEF SemInv
<1>2. /\ Release(held[t]) /\ held' = [held EXCEPT ![t] = 0]
      /\ UNCHANGED <<closed, want, supply, dropped>>
  BY Zenon DEF DropPermit
<1>3. held \in [Tasks -> Nat] /\ supply \in Nat
  BY <1>1, Zenon DEF TypeOK
<1>4. /\ held' \in [Tasks -> Nat] /\ held'[t] = 0 /\ held[t] \in Nat
      /\ \A u \in Tasks \ {t} : held'[u] = held[u]
  BY <1>2, <1>3, Zenon
<1>5. Exchanged(Units(held, Tasks), Units(held', Tasks), held[t], held'[t])
  BY <1>1, <1>4, UnitsExcept, Zenon DEF SemSum
<1>6. /\ IsFiniteSet(Units(held', Tasks))
      /\ Cardinality(Units(held', Tasks)) = Cardinality(Units(held, Tasks)) - held[t] + 0
  BY <1>4, <1>5, Zenon DEF Exchanged
<1>7. Repaid(held[t])
  BY <1>1, <1>2, <1>3, <1>4, <1>6, SemNats DEF Repaid
<1>8. \A u \in Tasks : held[u] = 0 => held'[u] = 0
  BY <1>4, Zenon
<1> QED
  BY <1>2, <1>4, <1>6, <1>7, <1>8, SemReleases, Zenon

\* add_permits releases new permits, and keeps the invariant.
LEMMA SemAddPermits ==
    ASSUME SemInv, MaxNeeded \in Nat, NEW n \in 1..MaxNeeded, AddPermits(n) PROVE SemInv'
<1>1. TypeOK /\ SemSum
  BY Zenon DEF SemInv
<1>2. Release(n) /\ supply' = supply + n /\ UNCHANGED <<closed, want, held, dropped>>
  BY Zenon DEF AddPermits
<1>3. held' \in [Tasks -> Nat] /\ supply \in Nat /\ n \in Nat /\ supply' \in Nat
  BY <1>1, <1>2 DEF TypeOK
<1>4. IsFiniteSet(Units(held', Tasks)) /\ Units(held', Tasks) = Units(held, Tasks)
  BY <1>1, <1>2, Zenon DEF SemSum
<1>5. Repaid(n)
  BY <1>1, <1>2, <1>3, <1>4, SemNats DEF Repaid
<1>6. \A u \in Tasks : held[u] = 0 => held'[u] = 0
  BY <1>2, Zenon
<1> QED
  BY <1>2, <1>3, <1>4, <1>5, <1>6, SemReleases, Zenon

\* One permit object takes over another's permits, which are as many after.
LEMMA SemMerge ==
    ASSUME SemInv, NEW t \in Tasks, NEW u \in Tasks, Merge(t, u) PROVE SemInv'
<1>1. TypeOK /\ SemQueue /\ SemHolds /\ SemSum /\ HeadBlocked
  BY Zenon DEF SemInv
<1> DEFINE h == [held EXCEPT ![u] = 0]
<1>2. /\ t # u /\ held[t] > 0 /\ held[u] > 0
      /\ held' = [[held EXCEPT ![t] = held[t] + held[u]] EXCEPT ![u] = 0]
      /\ UNCHANGED <<permits, closed, waiters, want, outcome, supply, dropped>>
  BY Zenon DEF Merge
<1>3. held \in [Tasks -> Nat]
  BY <1>1, Zenon DEF TypeOK
<1>4. /\ held' \in [Tasks -> Nat] /\ held[t] \in Nat /\ held[u] \in Nat
      /\ held'[t] = held[t] + held[u] /\ held'[u] = 0
      /\ \A v \in Tasks \ {t, u} : held'[v] = held[v]
  BY <1>2, <1>3
<1>5. h[u] = 0 /\ \A v \in Tasks \ {u} : h[v] = held[v]
  BY <1>3, Zenon
<1>6. h[t] = held[t] /\ \A v \in Tasks \ {t} : held'[v] = h[v]
  BY <1>2, <1>4, <1>5, Zenon
<1> HIDE DEF h
<1>7. Exchanged(Units(held, Tasks), Units(h, Tasks), held[u], h[u])
  BY <1>1, <1>4, <1>5, UnitsExcept, Zenon DEF SemSum
<1>8. /\ IsFiniteSet(Units(h, Tasks))
      /\ Cardinality(Units(h, Tasks)) = Cardinality(Units(held, Tasks)) - held[u] + 0
  BY <1>5, <1>7, Zenon DEF Exchanged
<1>9. Exchanged(Units(h, Tasks), Units(held', Tasks), h[t], held'[t])
  <2>1. h[t] \in Nat /\ held'[t] \in Nat
    BY <1>4, <1>6, Zenon
  <2> QED
    BY <1>6, <1>8, <2>1, UnitsExcept, Zenon
<1>10. /\ IsFiniteSet(Units(held', Tasks))
       /\ Cardinality(Units(held', Tasks))
            = Cardinality(Units(h, Tasks)) - held[t] + (held[t] + held[u])
  BY <1>4, <1>6, <1>9, Zenon DEF Exchanged
<1>11. Cardinality(Units(held', Tasks)) = Cardinality(Units(held, Tasks))
  BY <1>1, <1>4, <1>8, <1>10, SemNats
<1>12. TypeOK'
  BY <1>1, <1>2, <1>4, Zenon DEF TypeOK
<1>13. SemHolds' /\ SemQueue'
  <2>1. want[t] = 0 /\ want[u] = 0
    BY <1>1, <1>2, <1>4 DEF SemHolds
  <2>2. SemHolds'
    BY <1>1, <1>2, <1>4, <2>1, Zenon DEF SemHolds
  <2> QED
    BY <1>1, <1>2, <2>2, Zenon DEF SemQueue
<1>14. SemSum'
  <2>1. Units(want', Granted') = Units(want, Granted)
    BY <1>2, Zenon DEF Granted
  <2> QED
    BY <1>1, <1>2, <1>10, <1>11, <2>1, Zenon DEF SemSum
<1>15. HeadBlocked'
  BY <1>1, <1>2, Zenon DEF HeadBlocked
<1> QED
  BY <1>12, <1>13, <1>14, <1>15, Zenon DEF SemInv

\* Free permits are taken out of the supply.
LEMMA SemForgetPermits ==
    ASSUME SemInv, NEW n \in Nat, ForgetPermits(n) PROVE SemInv'
<1>1. TypeOK /\ SemQueue /\ SemHolds /\ SemSum /\ HeadBlocked
  BY Zenon DEF SemInv
<1> DEFINE m == Min({n, permits})
<1>2. /\ permits' = permits - m /\ supply' = supply - m
      /\ UNCHANGED <<closed, waiters, want, outcome, held, dropped>>
  BY Zenon DEF ForgetPermits
<1>3. /\ permits \in Nat /\ supply \in Nat
      /\ Cardinality(Units(held, Tasks)) \in Nat /\ Cardinality(Units(want, Granted)) \in Nat
  BY <1>1, SemNats, Zenon
<1>4. m \in Nat /\ m <= permits
  <2>1. m = n \/ m = permits
    BY <1>3 DEF Min
  <2>2. m <= permits
    BY <1>3 DEF Min
  <2> QED
    BY <1>3, <2>1, <2>2, Zenon
<1> HIDE DEF m
<1>5. permits' \in Nat /\ permits' <= permits
  BY <1>2, <1>3, <1>4
<1>6. permits <= supply
  BY <1>1, <1>3 DEF SemSum
<1>7. supply' \in Nat
  BY <1>2, <1>3, <1>4, <1>6
<1>8. TypeOK'
  BY <1>1, <1>2, <1>5, <1>7, Zenon DEF TypeOK
<1>9. SemQueue' /\ SemHolds'
  BY <1>1, <1>2, Zenon DEF SemQueue, SemHolds
<1>10. HeadBlocked'
  <2>1. waiters # <<>> => ~closed /\ Head(waiters).needed > permits'
    <3>1. ASSUME waiters # <<>> PROVE ~closed /\ Head(waiters).needed > permits'
      <4>1. Head(waiters) = waiters[1] /\ 1 \in 1..Len(waiters)
        BY <1>1, <3>1, SemWaiter
      <4>2. waiters[1].needed \in 1..MaxNeeded
        BY <1>1, <4>1, SemWaiter, Zenon
      <4>3. waiters[1].needed \in Int /\ ~closed /\ waiters[1].needed > permits
        BY <1>1, <3>1, <4>1, <4>2 DEF HeadBlocked
      <4> QED
        BY <1>3, <1>5, <4>1, <4>3
    <3> QED
      BY <3>1, Zenon
  <2> QED
    BY <1>1, <1>2, <2>1, Zenon DEF HeadBlocked
<1>11. SemSum'
  <2> DEFINE H == Cardinality(Units(held, Tasks))
             G == Cardinality(Units(want, Granted))
  <2>1. Units(want', Granted') = Units(want, Granted) /\ Units(held', Tasks) = Units(held, Tasks)
    BY <1>2, Zenon DEF Granted
  <2>2. permits + H + G <= supply /\ (~dropped => permits + H + G = supply)
    BY <1>1, Zenon DEF SemSum
  <2>3. H \in Nat /\ G \in Nat
    BY <1>3, Zenon
  <2> HIDE DEF H, G
  <2>4. permits' + H + G <= supply' /\ (~dropped => permits' + H + G = supply')
    BY <1>2, <1>3, <1>4, <2>2, <2>3
  <2> QED
    BY <1>1, <1>2, <2>1, <2>4, Zenon DEF SemSum, H, G
<1> QED
  BY <1>8, <1>9, <1>10, <1>11, Zenon DEF SemInv

\* close wakes every queued future, and none waits after.
LEMMA SemClose == ASSUME SemInv, Close PROVE SemInv'
<1>1. TypeOK /\ SemQueue /\ SemHolds /\ SemSum /\ HeadBlocked
  BY Zenon DEF SemInv
<1>2. /\ closed' = TRUE /\ waiters' = <<>>
      /\ outcome' = [t \in Tasks |->
                       IF \E i \in DOMAIN waiters : waiters[i].task = t /\ waiters[i].live
                       THEN "CLOSED" ELSE outcome[t]]
      /\ UNCHANGED <<permits, want, held, supply, dropped>>
  BY Zenon DEF Close
<1>3. waiters' \in Seq(Waiter) /\ Len(waiters') = 0
  BY <1>2
<1>4. TypeOK'
  <2>1. outcome' \in [Tasks -> {"PENDING", "GRANTED", "CLOSED"}]
    BY <1>1, <1>2, Zenon DEF TypeOK
  <2> QED
    BY <1>1, <1>2, <1>3, <2>1, Zenon DEF TypeOK, Waiter
<1>5. SemQueue' /\ SemHolds'
  BY <1>1, <1>2, <1>3 DEF SemQueue, SemHolds
<1>6. HeadBlocked'
  <2>1. \A t \in Tasks : want[t] # 0 => outcome'[t] # "PENDING"
    BY <1>1, <1>2, Zenon DEF HeadBlocked
  <2> QED
    BY <1>2, <2>1, Zenon DEF HeadBlocked
<1>7. SemSum'
  <2>1. DOMAIN waiters = 1..Len(waiters)
    BY <1>1, SemWaiter
  <2>2. Granted' = Granted
    <3>1. ASSUME NEW t \in Tasks PROVE outcome'[t] = "GRANTED" <=> outcome[t] = "GRANTED"
      <4>1. CASE \E i \in DOMAIN waiters : waiters[i].task = t /\ waiters[i].live
        <5>1. outcome[t] = "PENDING" /\ outcome'[t] = "CLOSED"
          BY <1>1, <1>2, <2>1, <4>1, Zenon DEF SemQueue
        <5> QED
          BY <5>1, Zenon
      <4>2. CASE ~\E i \in DOMAIN waiters : waiters[i].task = t /\ waiters[i].live
        BY <1>2, <4>2, Zenon
      <4> QED
        BY <4>1, <4>2, Zenon
    <3> QED
      BY <1>2, <3>1, Zenon DEF Granted
  <2> QED
    BY <1>1, <1>2, <2>2, Zenon DEF SemSum
<1> QED
  BY <1>4, <1>5, <1>6, <1>7, Zenon DEF SemInv

\* Every step of the semaphore keeps the invariant, one step here per action.
LEMMA SemStep == ASSUME MaxNeeded \in Nat PROVE SemInv /\ [Next]_vars => SemInv'
<1> SUFFICES ASSUME SemInv, [Next]_vars PROVE SemInv'
  BY Zenon
<1>1. ASSUME NEW t \in Tasks, NEW n \in 1..MaxNeeded, AcquireNow(t, n) PROVE SemInv'
  BY <1>1, SemAcquireNow, Zenon
<1>2. ASSUME NEW t \in Tasks, NEW n \in 1..MaxNeeded, Enqueue(t, n) PROVE SemInv'
  BY <1>2, SemEnqueue, Zenon
<1>3. ASSUME NEW t \in Tasks, Poll(t) PROVE SemInv'
  BY <1>3, SemPoll, Zenon
<1>4. ASSUME NEW t \in Tasks, Cancel(t) PROVE SemInv'
  BY <1>4, SemCancel, Zenon
<1>5. ASSUME NEW t \in Tasks, DropPermit(t) PROVE SemInv'
  BY <1>5, SemDropPermit, Zenon
<1>6. ASSUME NEW t \in Tasks, NEW u \in Tasks, Merge(t, u) PROVE SemInv'
  BY <1>6, SemMerge, Zenon
<1>7. ASSUME NEW n \in 1..MaxNeeded, AddPermits(n) PROVE SemInv'
  BY <1>7, SemAddPermits, Zenon
<1>8. ASSUME NEW n \in 1..MaxNeeded, ForgetPermits(n) PROVE SemInv'
  <2>1. n \in Nat
    OBVIOUS
  <2> QED
    BY <1>8, <2>1, SemForgetPermits, Zenon
<1>9. CASE Close
  BY <1>9, SemClose, Zenon
<1>10. CASE UNCHANGED vars
  <2>1. UNCHANGED <<permits, closed, waiters, want, outcome, held, supply, dropped>>
    BY <1>10, Zenon DEF vars
  <2>2. TypeOK' = TypeOK /\ HeadBlocked' = HeadBlocked
    BY <2>1, Zenon DEF TypeOK, HeadBlocked
  <2>3. (SemQueue => SemQueue') /\ (SemHolds => SemHolds')
    BY <2>1, Zenon DEF SemQueue, SemHolds
  <2>4. Granted' = Granted
    BY <2>1, Zenon DEF Granted
  <2>5. SemSum => SemSum'
    BY <2>1, <2>4, Zenon DEF SemSum
  <2> QED
    BY <2>2, <2>3, <2>5, Zenon DEF SemInv
<1> QED
  BY <1>1, <1>2, <1>3, <1>4, <1>5, <1>6, <1>7, <1>8, <1>9, <1>10, Zenon DEF Next

\* What the runs check of the semaphore follows from the inductive invariant.
LEMMA SemSafe == SemInv => TypeOK /\ Conserved /\ HeadBlocked
<1> SUFFICES ASSUME SemInv PROVE TypeOK /\ Conserved /\ HeadBlocked
  BY Zenon
<1>1. TypeOK /\ SemSum /\ HeadBlocked
  BY Zenon DEF SemInv
<1>2. Conserved
  BY <1>1, Zenon DEF Conserved, SemSum, Granted
<1> QED
  BY <1>1, <1>2, Zenon

\* Semaphore: for any tasks and any requests, permits are never made up, none is
\* lost as long as no queued or granted future is dropped, and nobody sleeps on
\* permits that are there.
THEOREM SemaphoreSafe ==
    ASSUME MaxSupply \in Nat, MaxNeeded \in Nat
    PROVE  Spec => [](TypeOK /\ Conserved /\ HeadBlocked)
<1>1. Init => SemInv
  BY SemInit, Zenon
<1>2. SemInv /\ [Next]_vars => SemInv'
  BY SemStep, Zenon
<1>3. SemInv => TypeOK /\ Conserved /\ HeadBlocked
  BY SemSafe, Zenon
<1> QED
  BY <1>1, <1>2, <1>3, PTL DEF Spec

------------------------------------------------------------------------------
(* Mutex *)

Mutex == INSTANCE AsyncMutex

\* While undisturbed, the queue holds exactly the tasks asleep, each once.
MutexQueue ==
    ~disturbed =>
        /\ \A i \in 1..Len(waiters) : phase[waiters[i]] = "waiting" /\ ~awake[waiters[i]]
        /\ \A i, j \in 1..Len(waiters) : waiters[i] = waiters[j] => i = j
        /\ \A t \in Tasks : phase[t] = "waiting" /\ ~awake[t] =>
               \E i \in 1..Len(waiters) : waiters[i] = t

\* Only a waiting task is awake, and a free mutex is not slept on.
MutexAwake ==
    /\ \A t \in Tasks : awake[t] => phase[t] = "waiting"
    /\ ~disturbed /\ ~locked /\ waiters # <<>> =>
           \E t \in Tasks : phase[t] = "waiting" /\ awake[t]

MutexInv == Mutex!TypeOK /\ Mutex!Exclusive /\ MutexQueue /\ MutexAwake

\* A new mutex is free and nobody waits for it.
LEMMA MutexInit == Mutex!Init => MutexInv
<1> SUFFICES ASSUME Mutex!Init PROVE MutexInv
  BY Zenon
<1> USE DEF Mutex!Init, Mutex!Phases
<1>1. Mutex!TypeOK
  <2>1. <<>> \in Seq(Tasks)
    OBVIOUS
  <2> QED
    BY <2>1, Zenon DEF Mutex!TypeOK
<1>2. Mutex!Exclusive
  BY Zenon DEF Mutex!Exclusive
<1>3. waiters = <<>> /\ Len(waiters) = 0 /\ 1..0 = {}
  OBVIOUS
<1>4. MutexQueue /\ MutexAwake
  BY <1>3, Zenon DEF MutexQueue, MutexAwake
<1> QED
  BY <1>1, <1>2, <1>4, Zenon DEF MutexInv

\* A poll of acquire keeps mutual exclusion.
LEMMA MutexAcquire ==
    ASSUME Mutex!TypeOK, Mutex!Exclusive, NEW t \in Tasks, phase[t] # "holding", Mutex!Acquire(t)
    PROVE  /\ locked' \in BOOLEAN /\ waiters' \in Seq(Tasks) /\ phase' \in [Tasks -> Mutex!Phases]
           /\ Mutex!Exclusive'
<1> USE DEF Mutex!TypeOK, Mutex!Phases
<1>1. CASE ~locked
  <2>1. locked' = TRUE /\ waiters' = waiters /\ phase' = [phase EXCEPT ![t] = "holding"]
    BY <1>1, Zenon DEF Mutex!Acquire
  <2> QED
    BY <1>1, <2>1, Zenon DEF Mutex!Exclusive
<1>2. CASE locked
  <2>1. /\ locked' = locked /\ waiters' = Append(waiters, t)
        /\ phase' = [phase EXCEPT ![t] = "waiting"]
    BY <1>2, Zenon DEF Mutex!Acquire
  <2>2. \A u \in Tasks : phase'[u] = "holding" <=> phase[u] = "holding"
    BY <2>1, Zenon
  <2> QED
    BY <2>1, <2>2 DEF Mutex!Exclusive
<1> QED
  BY <1>1, <1>2, Zenon DEF Mutex!TypeOK

\* The type invariant and mutual exclusion are preserved by every step.
LEMMA MutexExclusiveStep ==
    Mutex!TypeOK /\ Mutex!Exclusive /\ [Mutex!Next]_(Mutex!vars)
        => Mutex!TypeOK' /\ Mutex!Exclusive'
<1> SUFFICES ASSUME Mutex!TypeOK, Mutex!Exclusive, [Mutex!Next]_(Mutex!vars)
             PROVE  Mutex!TypeOK' /\ Mutex!Exclusive'
  BY Zenon
<1> USE DEF Mutex!TypeOK, Mutex!Exclusive, Mutex!Phases
<1>1. ASSUME NEW t \in Tasks, Mutex!Lock(t) PROVE Mutex!TypeOK' /\ Mutex!Exclusive'
  BY <1>1, MutexAcquire, Zenon DEF Mutex!Lock
<1>2. ASSUME NEW t \in Tasks, Mutex!Repoll(t) PROVE Mutex!TypeOK' /\ Mutex!Exclusive'
  BY <1>2, MutexAcquire, Zenon DEF Mutex!Repoll
<1>3. ASSUME NEW t \in Tasks, Mutex!SpuriousPoll(t) PROVE Mutex!TypeOK' /\ Mutex!Exclusive'
  BY <1>3, MutexAcquire, Zenon DEF Mutex!SpuriousPoll
<1>4. ASSUME NEW t \in Tasks, Mutex!Cancel(t) PROVE Mutex!TypeOK' /\ Mutex!Exclusive'
  BY <1>4, Zenon DEF Mutex!Cancel
<1>5. ASSUME NEW t \in Tasks, Mutex!TryLock(t) PROVE Mutex!TypeOK' /\ Mutex!Exclusive'
  BY <1>5, Zenon DEF Mutex!TryLock
<1>6. ASSUME NEW t \in Tasks, Mutex!Release(t) PROVE Mutex!TypeOK' /\ Mutex!Exclusive'
  <2>1. CASE waiters = <<>>
    BY <1>6, <2>1, Zenon DEF Mutex!Release
  <2>2. CASE waiters # <<>>
    <3>1. Head(waiters) \in Tasks /\ Tail(waiters) \in Seq(Tasks)
      BY <2>2
    <3> QED
      BY <1>6, <2>2, <3>1, Zenon DEF Mutex!Release
  <2> QED
    BY <2>1, <2>2, Zenon
<1>7. CASE UNCHANGED Mutex!vars
  BY <1>7, Zenon DEF Mutex!vars
<1> QED
  BY <1>1, <1>2, <1>3, <1>4, <1>5, <1>6, <1>7, Zenon DEF Mutex!Next

\* A poll that starts or resumes a wait keeps the queue exact.
LEMMA MutexAcquireKeeps ==
    ASSUME MutexInv, NEW t \in Tasks, ~disturbed, disturbed' = disturbed, Mutex!Acquire(t),
           phase[t] \in {"idle", "waiting"}, phase[t] = "waiting" => awake[t],
           awake' = [awake EXCEPT ![t] = FALSE]
    PROVE  MutexQueue' /\ MutexAwake'
<1> USE DEF MutexInv, Mutex!TypeOK, Mutex!Exclusive, MutexQueue, MutexAwake, Mutex!Phases
<1>1. \A i \in 1..Len(waiters) : waiters[i] # t /\ waiters[i] \in Tasks
  OBVIOUS
<1>2. CASE ~locked
  BY <1>1, <1>2 DEF Mutex!Acquire
<1>3. CASE locked
  <2>1. /\ waiters' = Append(waiters, t) /\ Len(waiters') = Len(waiters) + 1
        /\ phase' = [phase EXCEPT ![t] = "waiting"] /\ locked' = locked
    BY <1>3 DEF Mutex!Acquire
  <2>2. \A i \in 1..Len(waiters') : waiters'[i] = IF i <= Len(waiters) THEN waiters[i] ELSE t
    BY <2>1
  <2> QED
    BY <1>1, <1>3, <2>1, <2>2
<1> QED
  BY <1>2, <1>3, Zenon

\* Every step keeps the queue exact and the free mutex watched.
LEMMA MutexHandOffStep == MutexInv /\ [Mutex!Next]_(Mutex!vars) => MutexQueue' /\ MutexAwake'
<1> SUFFICES ASSUME MutexInv, [Mutex!Next]_(Mutex!vars) PROVE MutexQueue' /\ MutexAwake'
  BY Zenon
<1> USE DEF MutexInv, Mutex!TypeOK, Mutex!Phases
<1>1. ASSUME NEW t \in Tasks, Mutex!Lock(t) PROVE MutexQueue' /\ MutexAwake'
  <2>1. awake' = [awake EXCEPT ![t] = FALSE]
    BY <1>1, Zenon DEF Mutex!Lock, MutexAwake
  <2>2. CASE ~disturbed
    BY <1>1, <2>1, <2>2, MutexAcquireKeeps, Zenon DEF Mutex!Lock
  <2>3. CASE disturbed
    BY <1>1, <2>3, Zenon DEF Mutex!Lock, Mutex!Acquire, MutexQueue, MutexAwake
  <2> QED
    BY <2>2, <2>3, Zenon
<1>2. ASSUME NEW t \in Tasks, Mutex!Repoll(t) PROVE MutexQueue' /\ MutexAwake'
  <2>1. CASE ~disturbed
    BY <1>2, <2>1, MutexAcquireKeeps, Zenon DEF Mutex!Repoll
  <2>2. CASE disturbed
    BY <1>2, <2>2, Zenon DEF Mutex!Repoll, Mutex!Acquire, MutexQueue, MutexAwake
  <2> QED
    BY <2>1, <2>2, Zenon
<1>3. ASSUME NEW t \in Tasks, Mutex!SpuriousPoll(t) PROVE MutexQueue' /\ MutexAwake'
  BY <1>3, Zenon DEF Mutex!SpuriousPoll, Mutex!Acquire, MutexQueue, MutexAwake
<1>4. ASSUME NEW t \in Tasks, Mutex!Cancel(t) PROVE MutexQueue' /\ MutexAwake'
  BY <1>4, Zenon DEF Mutex!Cancel, MutexQueue, MutexAwake
<1>5. ASSUME NEW t \in Tasks, Mutex!TryLock(t) PROVE MutexQueue' /\ MutexAwake'
  BY <1>5 DEF Mutex!TryLock, MutexQueue, MutexAwake
<1>6. ASSUME NEW t \in Tasks, Mutex!Release(t) PROVE MutexQueue' /\ MutexAwake'
  <2>1. CASE waiters = <<>>
    BY <1>6, <2>1 DEF Mutex!Release, MutexQueue, MutexAwake
  <2>2. CASE waiters # <<>>
    <3> DEFINE h == Head(waiters)
    <3>1. /\ h \in Tasks /\ h = waiters[1] /\ Len(waiters) \in Nat \ {0}
          /\ Len(Tail(waiters)) = Len(waiters) - 1
          /\ \A i \in 1..Len(Tail(waiters)) : Tail(waiters)[i] = waiters[i + 1]
      BY <2>2
    <3>2. /\ waiters' = Tail(waiters) /\ locked' = FALSE /\ disturbed' = disturbed
          /\ phase' = [phase EXCEPT ![t] = "idle"]
          /\ awake' = [awake EXCEPT ![h] = phase[h] = "waiting"]
          /\ phase[t] = "holding"
      BY <1>6, <2>2, Zenon DEF Mutex!Release
    <3>3. CASE disturbed
      BY <3>1, <3>2, <3>3, Zenon DEF MutexQueue, MutexAwake
    <3>4. CASE ~disturbed
      <4> HIDE DEF h
      <4>1. phase[h] = "waiting" /\ h # t
        BY <3>1, <3>2, <3>4 DEF MutexQueue
      <4>2. MutexAwake'
        BY <3>1, <3>2, <3>4, <4>1, Zenon DEF MutexAwake
      <4>3. \A i \in 1..Len(waiters') :
              /\ i + 1 \in 1..Len(waiters) /\ waiters'[i] = waiters[i + 1] /\ waiters[i + 1] # h
              /\ waiters[i + 1] \in Tasks
        BY <3>1, <3>2, <3>4 DEF MutexQueue
      <4>4. \A i \in 1..Len(waiters') : phase'[waiters'[i]] = "waiting" /\ ~awake'[waiters'[i]]
        BY <3>1, <3>2, <3>4, <4>1, <4>3, SMTT(30) DEF MutexQueue
      <4>5. \A i, j \in 1..Len(waiters') : waiters'[i] = waiters'[j] => i = j
        BY <3>1, <3>4, <4>3 DEF MutexQueue
      <4>6. ASSUME NEW u \in Tasks, phase'[u] = "waiting", ~awake'[u]
            PROVE \E i \in 1..Len(waiters') : waiters'[i] = u
        <5>1. u # h /\ phase[u] = "waiting" /\ ~awake[u]
          BY <3>1, <3>2, <4>1, <4>6, Zenon
        <5>2. PICK i \in 1..Len(waiters) : waiters[i] = u
          BY <3>4, <5>1, Zenon DEF MutexQueue
        <5>3. i # 1 /\ i - 1 \in 1..Len(waiters')
          BY <3>1, <3>2, <5>1, <5>2
        <5> QED
          BY <3>1, <3>2, <5>2, <5>3, SMTT(30)
      <4> QED
        BY <3>2, <4>2, <4>4, <4>5, <4>6, Zenon DEF MutexQueue
    <3> QED
      BY <3>3, <3>4, Zenon
  <2> QED
    BY <2>1, <2>2, Zenon
<1>7. CASE UNCHANGED Mutex!vars
  BY <1>7, Zenon DEF Mutex!vars, MutexQueue, MutexAwake
<1> QED
  BY <1>1, <1>2, <1>3, <1>4, <1>5, <1>6, <1>7, Zenon DEF Mutex!Next

\* Every step of the mutex keeps its invariant.
LEMMA MutexStep == MutexInv /\ [Mutex!Next]_(Mutex!vars) => MutexInv'
  BY MutexExclusiveStep, MutexHandOffStep, Zenon DEF MutexInv

\* What the invariant says of the mutex.
LEMMA MutexSafe == MutexInv => Mutex!TypeOK /\ Mutex!Exclusive /\ Mutex!HandOff
  BY DEF MutexInv, Mutex!TypeOK, MutexQueue, MutexAwake, Mutex!HandOff

\* At most one guard of a Mutex exists, exactly while its flag is on.
THEOREM MutexExclusion == Mutex!Spec => []Mutex!Exclusive
  BY MutexInit, MutexStep, MutexSafe, PTL DEF Mutex!Spec

\* While no waiting future is dropped or polled unwoken, release never leaves
\* a free mutex with every waiter asleep.
THEOREM MutexHandsOff == Mutex!Spec => []Mutex!HandOff
  BY MutexInit, MutexStep, MutexSafe, PTL DEF Mutex!Spec

------------------------------------------------------------------------------
(* RwLock *)

Rw == INSTANCE RwLock

Readers == {t \in Tasks : phase[t] = "holdRead"}
Writers == {t \in Tasks : phase[t] = "holdWrite"}

\* The flag and the count of the lock are those of the guards that exist.
RwGuards ==
    /\ writerLocked \in BOOLEAN
    /\ readers \in Nat
    /\ phase \in [Tasks -> Rw!Phases]
    /\ IsFiniteSet(Readers)
    /\ readers = Cardinality(Readers)
    /\ writerLocked <=> Writers # {}
    /\ \A t, u \in Writers : t = u
    /\ Writers # {} => Readers = {}

RwWaiter == [mode : Rw!Mode, task : Tasks]

\* The types of what the guards do not determine.
RwQueue ==
    /\ waiters \in Seq(RwWaiter)
    /\ awake \in [Tasks -> BOOLEAN]
    /\ disturbed \in BOOLEAN

RwInv == RwGuards /\ RwQueue

\* A task that enters or leaves the set of readers changes the count by one.
LEMMA CountStep ==
    ASSUME NEW R, IsFiniteSet(R), NEW t
    PROVE  /\ Cardinality(R) \in Nat
           /\ IsFiniteSet(R \cup {t}) /\ IsFiniteSet(R \ {t})
           /\ t \notin R => Cardinality(R \cup {t}) = Cardinality(R) + 1
           /\ t \in R => Cardinality(R \ {t}) = Cardinality(R) - 1 /\ Cardinality(R) > 0
           /\ Cardinality(R) = 0 <=> R = {}
<1>1. Cardinality(R) \in Nat
  BY FS_CardinalityType, Zenon
<1>2. /\ IsFiniteSet(R \cup {t})
      /\ t \notin R => Cardinality(R \cup {t}) = Cardinality(R) + 1
  BY FS_AddElement, Zenon
<1>3. /\ IsFiniteSet(R \ {t})
      /\ t \in R => Cardinality(R \ {t}) = Cardinality(R) - 1
  BY FS_RemoveElement, Zenon
<1>4. Cardinality(R) = 0 <=> R = {}
  BY FS_EmptySet, Zenon
<1> QED
  BY <1>1, <1>2, <1>3, <1>4

\* A new lock has no guards.
LEMMA RwInit == Rw!Init => RwInv
<1> SUFFICES ASSUME Rw!Init PROVE RwInv
  BY Zenon
<1>1. Readers = {} /\ Writers = {}
  BY Zenon DEF Rw!Init, Readers, Writers
<1>2. Cardinality({}) = 0 /\ IsFiniteSet({})
  BY FS_EmptySet, Zenon
<1>3. /\ writerLocked \in BOOLEAN /\ readers \in Nat /\ phase \in [Tasks -> Rw!Phases]
      /\ readers = 0 /\ ~writerLocked
  BY Zenon DEF Rw!Init, Rw!Phases
<1>4. RwGuards
  BY <1>1, <1>2, <1>3, Zenon DEF RwGuards
<1>5. RwQueue
  <2>1. waiters = <<>> /\ awake = [t \in Tasks |-> FALSE] /\ disturbed = FALSE
    BY Zenon DEF Rw!Init
  <2>2. <<>> \in Seq(RwWaiter)
    OBVIOUS
  <2> QED
    BY <2>1, <2>2, Zenon DEF RwQueue
<1> QED
  BY <1>4, <1>5, Zenon DEF RwInv

\* Taking the lock under the condition of acquire_read or acquire_write.
LEMMA RwTake ==
    ASSUME RwGuards, NEW t \in Tasks, NEW m \in Rw!Mode,
           phase[t] \in {"idle", "waitRead", "waitWrite"}, Rw!Take(t, m)
    PROVE  RwGuards'
<1> USE DEF RwGuards, Rw!Phases, Rw!Take, Rw!CanTake, Rw!Holding, Rw!Waiting, Rw!Mode
<1>1. CASE m = "Read"
  <2>1. Readers' = Readers \cup {t} /\ t \notin Readers /\ Writers' = Writers /\ Writers = {}
    BY <1>1, Zenon DEF Readers, Writers
  <2>2. readers' = readers + 1 /\ writerLocked' = writerLocked /\ phase' \in [Tasks -> Rw!Phases]
    BY <1>1, Zenon
  <2>3. IsFiniteSet(Readers \cup {t}) /\ Cardinality(Readers \cup {t}) = Cardinality(Readers) + 1
    BY <2>1, CountStep, Zenon
  <2> QED
    BY <2>1, <2>2, <2>3
<1>2. CASE m = "Write"
  <2>1. Cardinality(Readers) = 0 => Readers = {}
    BY CountStep, Zenon
  <2>2. Readers = {} /\ Writers = {}
    BY <1>2, <2>1, Zenon
  <2>3. Readers' = {} /\ Writers' = {t}
    BY <1>2, <2>2, Zenon DEF Readers, Writers
  <2>4. phase' \in [Tasks -> Rw!Phases] /\ readers' = readers /\ writerLocked' = TRUE
    BY <1>2, Zenon
  <2> QED
    BY <2>2, <2>3, <2>4, Zenon
<1> QED
  BY <1>1, <1>2, Zenon

\* A step that changes no guard keeps them exact.
LEMMA RwFrame ==
    ASSUME RwGuards, writerLocked' = writerLocked, readers' = readers,
           phase' \in [Tasks -> Rw!Phases],
           \A t \in Tasks : /\ phase'[t] = "holdRead" <=> phase[t] = "holdRead"
                            /\ phase'[t] = "holdWrite" <=> phase[t] = "holdWrite"
    PROVE  RwGuards'
<1>1. Readers' = Readers /\ Writers' = Writers
  BY Zenon DEF Readers, Writers
<1> QED
  BY <1>1, Zenon DEF RwGuards

\* One poll of acquire_read or acquire_write, whether it takes the lock or queues.
LEMMA RwAcquire ==
    ASSUME RwInv, NEW t \in Tasks, NEW m \in Rw!Mode,
           phase[t] \in {"idle", "waitRead", "waitWrite"}, Rw!Acquire(t, m)
    PROVE  RwGuards' /\ waiters' \in Seq(RwWaiter)
<1>1. CASE Rw!Take(t, m)
  BY <1>1, RwTake, Zenon DEF Rw!Take, RwInv, RwQueue
<1>2. CASE ~Rw!Take(t, m)
  <2>1. /\ writerLocked' = writerLocked /\ readers' = readers
        /\ phase' = [phase EXCEPT ![t] = Rw!Waiting(m)]
        /\ waiters' = Append(waiters, [mode |-> m, task |-> t])
    BY <1>2, Zenon DEF Rw!Acquire
  <2>2. phase' \in [Tasks -> Rw!Phases]
    BY <2>1, Zenon DEF RwInv, RwGuards, Rw!Phases, Rw!Waiting, Rw!Mode
  <2>3. \A u \in Tasks : /\ phase'[u] = "holdRead" <=> phase[u] = "holdRead"
                         /\ phase'[u] = "holdWrite" <=> phase[u] = "holdWrite"
    BY <2>1, Zenon DEF RwInv, RwGuards, Rw!Waiting, Rw!Mode
  <2>4. [mode |-> m, task |-> t] \in RwWaiter
    BY Zenon DEF RwWaiter
  <2> QED
    BY <2>1, <2>2, <2>3, <2>4, RwFrame DEF RwInv, RwQueue
<1> QED
  BY <1>1, <1>2, Zenon

\* wake_eligible pops a prefix of the queue.
LEMMA RwWake ==
    ASSUME RwInv, NEW n, Rw!WakeEligible(n)
    PROVE  waiters' \in Seq(RwWaiter) /\ awake' \in [Tasks -> BOOLEAN]
<1> DEFINE S == {k \in 0..Len(waiters) : \A i \in 1..k : waiters[i].mode = "Read"}
<1>1. Len(waiters) \in Nat /\ waiters \in Seq(RwWaiter)
  BY DEF RwInv, RwQueue
<1>2. 0 \in S
  BY <1>1
<1>3. S \in SUBSET (0..Len(waiters)) /\ S # {}
  BY <1>2, Zenon
<1>4. \E m \in S : \A k \in S : m >= k
  BY <1>1, <1>3, Greatest, Zenon
<1>5. Rw!Max(S) \in S
  BY <1>4, Zenon DEF Rw!Max
<1>6. waiters # <<>> => Len(waiters) > 0
  BY <1>1
<1>7. Rw!Eligible(n) \in 0..Len(waiters)
  <2> DEFINE r == Rw!Max(S)
  <2>1. r \in 0..Len(waiters)
    BY <1>3, <1>5, Zenon
  <2>2. Rw!Eligible(n) = IF r = 0 /\ n = 0 /\ waiters # <<>> THEN 1 ELSE r
    BY Zenon DEF Rw!Eligible
  <2> HIDE DEF r
  <2> QED
    BY <1>1, <1>6, <2>1, <2>2
<1>8. PICK k \in 0..Len(waiters) : waiters' = SubSeq(waiters, k + 1, Len(waiters))
  BY <1>7, Zenon DEF Rw!WakeEligible
<1>9. \A i \in (k + 1)..Len(waiters) : waiters[i] \in RwWaiter
  BY <1>1
<1>10. SubSeq(waiters, k + 1, Len(waiters)) \in Seq(RwWaiter)
  BY <1>1, <1>9
<1>11. awake' \in [Tasks -> BOOLEAN]
  BY Zenon DEF Rw!WakeEligible
<1> QED
  BY <1>8, <1>10, <1>11, Zenon

\* Every operation of the lock keeps the invariant.
LEMMA RwStep == RwInv /\ [Rw!Next]_(Rw!vars) => RwInv'
<1> SUFFICES ASSUME RwInv, [Rw!Next]_(Rw!vars) PROVE RwInv'
  BY Zenon
<1>1. ASSUME NEW t \in Tasks, NEW m \in Rw!Mode,
             Rw!Lock(t, m) \/ Rw!Repoll(t, m) \/ Rw!SpuriousPoll(t, m)
      PROVE RwInv'
  <2>1. /\ phase[t] \in {"idle", "waitRead", "waitWrite"} /\ Rw!Acquire(t, m)
        /\ awake' = awake \/ awake' = [awake EXCEPT ![t] = FALSE]
        /\ disturbed' = disturbed \/ disturbed' = TRUE
    BY <1>1, Zenon DEF Rw!Lock, Rw!Repoll, Rw!SpuriousPoll, Rw!Waiting, Rw!Mode
  <2> QED
    BY <2>1, RwAcquire, Zenon DEF RwInv, RwQueue
<1>2. ASSUME NEW t \in Tasks, NEW m \in Rw!Mode, Rw!Cancel(t, m) PROVE RwInv'
  <2>1. phase' \in [Tasks -> Rw!Phases]
    BY <1>2, Zenon DEF Rw!Cancel, RwInv, RwGuards, Rw!Phases
  <2>2. \A u \in Tasks : /\ phase'[u] = "holdRead" <=> phase[u] = "holdRead"
                         /\ phase'[u] = "holdWrite" <=> phase[u] = "holdWrite"
    BY <1>2, Zenon DEF Rw!Cancel, RwInv, RwGuards, Rw!Waiting, Rw!Mode
  <2> QED
    BY <1>2, <2>1, <2>2, RwFrame, Zenon DEF Rw!Cancel, RwInv, RwQueue
<1>3. ASSUME NEW t \in Tasks, NEW m \in Rw!Mode, Rw!TryLock(t, m) PROVE RwInv'
  BY <1>3, RwTake, Zenon DEF Rw!TryLock, Rw!Take, RwInv, RwQueue
<1>4. ASSUME NEW t \in Tasks, Rw!ReleaseRead(t) PROVE RwInv'
  <2>1. t \in Readers /\ Readers' = Readers \ {t} /\ Writers' = Writers /\ Writers = {}
    BY <1>4, Zenon DEF Rw!ReleaseRead, RwInv, RwGuards, Readers, Writers
  <2>2. /\ Cardinality(Readers \ {t}) = Cardinality(Readers) - 1 /\ Cardinality(Readers) > 0
        /\ IsFiniteSet(Readers \ {t})
    BY <2>1, CountStep, Zenon DEF RwInv, RwGuards
  <2>3. /\ phase' \in [Tasks -> Rw!Phases] /\ readers' = readers - 1 /\ readers' \in Nat
        /\ writerLocked' = writerLocked
    BY <1>4, <2>2 DEF Rw!ReleaseRead, RwInv, RwGuards, Rw!Phases
  <2>4. RwQueue'
    BY <1>4, RwWake, Zenon DEF Rw!ReleaseRead, RwInv, RwQueue
  <2> QED
    BY <2>1, <2>2, <2>3, <2>4, Zenon DEF RwInv, RwGuards
<1>5. ASSUME NEW t \in Tasks, Rw!ReleaseWrite(t) PROVE RwInv'
  <2>1. Writers = {t} /\ Readers = {} /\ Writers' = {} /\ Readers' = {}
    BY <1>5, Zenon DEF Rw!ReleaseWrite, RwInv, RwGuards, Readers, Writers
  <2>2. phase' \in [Tasks -> Rw!Phases] /\ readers' = readers /\ writerLocked' = FALSE
    BY <1>5, Zenon DEF Rw!ReleaseWrite, RwInv, RwGuards, Rw!Phases
  <2>3. RwQueue'
    BY <1>5, RwWake, Zenon DEF Rw!ReleaseWrite, RwInv, RwQueue
  <2> QED
    BY <2>1, <2>2, <2>3, Zenon DEF RwInv, RwGuards
<1>6. ASSUME NEW t \in Tasks, Rw!Downgrade(t) PROVE RwInv'
  <2>1. Writers = {t} /\ Readers = {} /\ Writers' = {} /\ Readers' = {t}
    BY <1>6, Zenon DEF Rw!Downgrade, RwInv, RwGuards, Readers, Writers
  <2>2. /\ writerLocked' = FALSE /\ readers' = 1
        /\ phase' = [phase EXCEPT ![t] = "holdRead"]
    BY <1>6, Zenon DEF Rw!Downgrade
  <2>3. "holdRead" \in Rw!Phases
    BY Zenon DEF Rw!Phases, Rw!Holding, Rw!Mode
  <2>4. phase' \in [Tasks -> Rw!Phases]
    BY <2>2, <2>3, Zenon DEF RwInv, RwGuards
  <2>5. Cardinality({t}) = 1 /\ IsFiniteSet({t})
    BY FS_Singleton, Zenon
  <2>6. RwQueue'
    BY <1>6, RwWake, Zenon DEF Rw!Downgrade, RwInv, RwQueue
  <2> QED
    BY <2>1, <2>2, <2>4, <2>5, <2>6, Zenon DEF RwInv, RwGuards
<1>7. CASE UNCHANGED Rw!vars
  BY <1>7, Zenon DEF Rw!vars, RwInv, RwGuards, RwQueue, Readers, Writers
<1> QED
  BY <1>1, <1>2, <1>3, <1>4, <1>5, <1>6, <1>7, Zenon DEF Rw!Next

\* What the invariant says of the lock: its types, and that its guards exclude
\* each other.
LEMMA RwExcludes == RwInv => Rw!TypeOK /\ Rw!Exclusive
<1> SUFFICES ASSUME RwInv PROVE Rw!TypeOK /\ Rw!Exclusive
  BY Zenon
<1>1. Cardinality(Writers) <= 1
  <2>1. CASE Writers = {}
    BY <2>1, FS_EmptySet
  <2>2. CASE Writers # {}
    <3>1. PICK t \in Writers : Writers = {t}
      BY <2>2, Zenon DEF RwInv, RwGuards
    <3>2. Cardinality({t}) = 1
      BY FS_Singleton, Zenon
    <3> QED
      BY <3>1, <3>2
  <2> QED
    BY <2>1, <2>2, Zenon
<1>2. /\ Rw!Cardinality(Writers) = Cardinality(Writers)
      /\ Rw!Cardinality(Readers) = Cardinality(Readers)
  BY Zenon DEF Rw!Cardinality, Cardinality
<1>3. Rw!Exclusive
  BY <1>1, <1>2, Zenon DEF RwInv, RwGuards, Rw!Exclusive, Readers, Writers
<1>4. Rw!TypeOK
  BY Zenon DEF RwInv, RwGuards, RwQueue, RwWaiter, Rw!TypeOK
<1> QED
  BY <1>3, <1>4, Zenon

\* "never two writers, or a writer and a reader, active together" (rwlock.rs:24):
\* the guards of a RwLock exclude each other and the count of readers is exact.
THEOREM RwLockExclusion == Rw!Spec => []Rw!Exclusive
  BY RwInit, RwStep, RwExcludes, PTL DEF Rw!Spec

------------------------------------------------------------------------------
(* Notify *)

Nt == INSTANCE Notify

In(f, s) == \E i \in 1..Len(s) : s[i] = f
Queued(f) == In(f, waiters)
InHands(f) == \E n \in Notifiers : In(f, firing[n])

\* A notifier that has set a flag has still to wake that future.
StoredShape == \A n \in Notifiers : stored[n] => firing[n] # <<>> /\ woken[Head(firing[n])]

\* A registered future that was not notified can still be found.
Findable == \A f \in Futures : registered[f] /\ ~woken[f] => Queued(f) \/ InHands(f)

\* What a future in a poll, or parked, has left behind.
PollShape ==
    \A f \in Futures :
        /\ pc[f] \in {"store", "recheck", "parked"} => registered[f]
        /\ pc[f] = "recheck" => waker[f] \/ woken[f]
        /\ pc[f] = "parked" => waker[f] \/ awake[f]
        /\ pc[f] = "parked" /\ ~awake[f] /\ woken[f] => InHands(f)
        /\ awake[f] => woken[f]

\* No WaiterState is queued twice.
QueuedOnce == \A i, j \in 1..Len(waiters) : waiters[i] = waiters[j] => i = j

\* A future is notified when it leaves the queue or takes a permit, and not before.
GivenShape ==
    \A f \in Futures :
        /\ Queued(f) => registered[f] /\ given[f] = "none"
        /\ InHands(f) => registered[f] /\ given[f] # "none"
        /\ given[f] # "none" /\ ~registered[f] => woken[f] \/ pc[f] = "done"
        /\ pc[f] = "lock" /\ ~registered[f] => ~woken[f]
        /\ pc[f] = "done" \/ woken[f] => given[f] # "none"
        /\ given[f] # "none" => pc[f] \in {"done", "dropped"} \/ woken[f] \/ InHands(f)

\* The futures that a notify_one or a notify_last was spent on, and their count.
Spent == {f \in Futures : given[f] = "one"}
SpentOnce ==
    /\ permits > 0 => waiters = <<>>
    /\ IsFiniteSet(Spent) /\ calls = permits + Cardinality(Spent)

NtInv == /\ Nt!TypeOK /\ StoredShape /\ Findable /\ PollShape
         /\ QueuedOnce /\ GivenShape /\ SpentOnce

\* The first k elements of a sequence, as notify_last leaves the queue.
LEMMA Front ==
    ASSUME NEW S, NEW s, NEW k \in Nat, \A i \in 1..k : s[i] \in S
    PROVE  /\ SubSeq(s, 1, k) \in Seq(S)
           /\ Len(SubSeq(s, 1, k)) = k
           /\ \A i \in 1..k : SubSeq(s, 1, k)[i] = s[i]
<1>1. SubSeq(s, 1, k) \in Seq(S)
  OBVIOUS
<1>2. Len(SubSeq(s, 1, k)) = k
  OBVIOUS
<1>3. \A i \in 1..k : SubSeq(s, 1, k)[i] = s[i]
  OBVIOUS
<1> QED
  BY <1>1, <1>2, <1>3, Zenon

\* What is in a sequence after Append, Tail and the removal of the last element.
LEMMA InSeq ==
    ASSUME NEW S, NEW s \in Seq(S), NEW f, NEW e \in S
    PROVE  /\ In(f, Append(s, e)) <=> In(f, s) \/ f = e
           /\ s # <<>> => /\ Tail(s) \in Seq(S) /\ Head(s) \in S
                          /\ In(f, s) <=> f = Head(s) \/ In(f, Tail(s))
           /\ s # <<>> => /\ SubSeq(s, 1, Len(s) - 1) \in Seq(S) /\ s[Len(s)] \in S
                          /\ In(f, s) <=> f = s[Len(s)] \/ In(f, SubSeq(s, 1, Len(s) - 1))
           /\ In(f, <<e>>) <=> f = e
           /\ ~In(f, <<>>)
<1> USE DEF In
<1>1. In(f, Append(s, e)) <=> In(f, s) \/ f = e
  <2>1. Len(Append(s, e)) = Len(s) + 1 /\ Append(s, e)[Len(s) + 1] = e
    OBVIOUS
  <2>2. \A i \in 1..Len(s) : Append(s, e)[i] = s[i]
    OBVIOUS
  <2>3. Len(s) \in Nat
    OBVIOUS
  <2>4. ASSUME In(f, Append(s, e)) PROVE In(f, s) \/ f = e
    <3>1. PICK i \in 1..(Len(s) + 1) : Append(s, e)[i] = f
      BY <2>1, <2>4, Zenon
    <3> QED
      BY <3>1, <2>1, <2>2, <2>3, SMTT(30)
  <2>5. ASSUME In(f, s) \/ f = e PROVE In(f, Append(s, e))
    BY <2>1, <2>2, <2>3, <2>5, SMTT(30)
  <2> QED
    BY <2>4, <2>5, Zenon
<1>2. ASSUME s # <<>>
      PROVE  /\ Tail(s) \in Seq(S) /\ Head(s) \in S
             /\ In(f, s) <=> f = Head(s) \/ In(f, Tail(s))
  <2>1. Len(s) \in Nat /\ Len(s) > 0 /\ Head(s) = s[1] /\ Len(Tail(s)) = Len(s) - 1
    BY <1>2
  <2>2. \A i \in 1..Len(s) - 1 : Tail(s)[i] = s[i + 1]
    BY <1>2
  <2>3. ASSUME In(f, s), f # Head(s) PROVE In(f, Tail(s))
    <3>1. PICK i \in 1..Len(s) : s[i] = f
      BY <2>3, Zenon
    <3>2. i # 1 /\ i - 1 \in 1..Len(s) - 1
      BY <3>1, <2>1, <2>3, SMTT(30)
    <3>3. Tail(s)[i - 1] = f
      BY <3>1, <3>2, <2>2, SMTT(30)
    <3> QED
      BY <3>2, <3>3, <2>1, Zenon
  <2>4. ASSUME In(f, Tail(s)) PROVE In(f, s)
    <3>1. PICK i \in 1..Len(s) - 1 : Tail(s)[i] = f
      BY <2>1, <2>4, Zenon
    <3>2. i + 1 \in 1..Len(s) /\ s[i + 1] = f
      BY <3>1, <2>1, <2>2, SMTT(30)
    <3> QED
      BY <3>2, Zenon
  <2>5. f = Head(s) => In(f, s)
    BY <2>1
  <2>6. Tail(s) \in Seq(S) /\ Head(s) \in S
    BY <1>2
  <2> QED
    BY <2>3, <2>4, <2>5, <2>6, Zenon
<1>3. ASSUME s # <<>>
      PROVE  /\ SubSeq(s, 1, Len(s) - 1) \in Seq(S) /\ s[Len(s)] \in S
             /\ In(f, s) <=> f = s[Len(s)] \/ In(f, SubSeq(s, 1, Len(s) - 1))
  <2>1. Len(s) \in Nat /\ Len(s) > 0 /\ s[Len(s)] \in S
    BY <1>3
  <2>2. /\ SubSeq(s, 1, Len(s) - 1) \in Seq(S)
        /\ Len(SubSeq(s, 1, Len(s) - 1)) = Len(s) - 1
        /\ \A i \in 1..Len(s) - 1 : SubSeq(s, 1, Len(s) - 1)[i] = s[i]
    <3>1. \A i \in 1..Len(s) - 1 : s[i] \in S
      BY <2>1
    <3>2. PICK k \in Nat : k = Len(s) - 1
      BY <2>1
    <3>3. \A i \in 1..k : s[i] \in S
      BY <3>1, <3>2, Zenon
    <3>4. /\ SubSeq(s, 1, k) \in Seq(S)
          /\ Len(SubSeq(s, 1, k)) = k
          /\ \A i \in 1..k : SubSeq(s, 1, k)[i] = s[i]
      BY <3>3, Front
    <3> QED
      BY <3>2, <3>4, Zenon
  <2> QED
    BY <2>1, <2>2
<1>4. (In(f, <<e>>) <=> f = e) /\ ~In(f, <<>>)
  OBVIOUS
<1> QED
  BY <1>1, <1>2, <1>3, <1>4, Zenon

\* Taking the first element off a sequence loses only that element.
LEMMA InTail ==
    ASSUME NEW S, NEW s \in Seq(S), s # <<>>, NEW f
    PROVE  In(f, s) <=> f = Head(s) \/ In(f, Tail(s))
<1>1. PICK e : e \in S
  OBVIOUS
<1> QED
  BY <1>1, InSeq, Zenon

\* Every step keeps the variables in their types.
LEMMA NtTypeStep == Nt!TypeOK /\ [Nt!Next]_(Nt!vars) => Nt!TypeOK'
<1> SUFFICES ASSUME Nt!TypeOK, [Nt!Next]_(Nt!vars) PROVE Nt!TypeOK'
  BY Zenon
<1> USE DEF Nt!TypeOK, Nt!Labels, Nt!Goto, Nt!futVars
<1>1. ASSUME NEW f \in Futures,
             Nt!Poll(f) \/ Nt!CheckWoken(f) \/ Nt!StoreWaker(f) \/ Nt!Recheck(f) \/ Nt!DropFuture(f)
      PROVE Nt!TypeOK'
  BY <1>1, Zenon DEF Nt!Poll, Nt!CheckWoken, Nt!StoreWaker, Nt!Recheck, Nt!DropFuture
<1>2. ASSUME NEW f \in Futures, Nt!Register(f) PROVE Nt!TypeOK'
  <2>a. Append(waiters, f) \in Seq(Futures)
    OBVIOUS
  <2>1. waiters' \in Seq(Futures)
    BY <1>2, <2>a, Zenon DEF Nt!Register
  <2>2. permits' \in Nat
    BY <1>2 DEF Nt!Register
  <2>3. /\ registered' \in [Futures -> BOOLEAN] /\ pc' \in [Futures -> Nt!Labels]
        /\ given' \in [Futures -> {"none", "one", "all"}]
    BY <1>2, Zenon DEF Nt!Register
  <2> QED
    BY <1>2, <2>1, <2>2, <2>3, Zenon DEF Nt!Register
<1>3. ASSUME NEW f \in Futures, Nt!Enable(f) PROVE Nt!TypeOK'
  <2>a. Append(waiters, f) \in Seq(Futures)
    OBVIOUS
  <2>1. waiters' \in Seq(Futures)
    BY <1>3, <2>a, Zenon DEF Nt!Enable
  <2>2. permits' \in Nat
    BY <1>3 DEF Nt!Enable
  <2>3. /\ registered' \in [Futures -> BOOLEAN] /\ woken' \in [Futures -> BOOLEAN]
        /\ given' \in [Futures -> {"none", "one", "all"}]
    BY <1>3, Zenon DEF Nt!Enable
  <2> QED
    BY <1>3, <2>1, <2>2, <2>3, Zenon DEF Nt!Enable
<1>4. ASSUME NEW n \in Notifiers, NEW last \in BOOLEAN, Nt!Notify(n, last) PROVE Nt!TypeOK'
  <2>1. CASE waiters = <<>>
    BY <1>4, <2>1, SMTT(30) DEF Nt!Notify
  <2>2. CASE waiters # <<>>
    <3>1. /\ Tail(waiters) \in Seq(Futures) /\ Head(waiters) \in Futures
          /\ SubSeq(waiters, 1, Len(waiters) - 1) \in Seq(Futures)
          /\ waiters[Len(waiters)] \in Futures
      BY <2>2, InSeq
    <3>2. waiters' \in Seq(Futures)
      BY <1>4, <2>2, <3>1, Zenon DEF Nt!Notify
    <3>3. PICK e \in Futures : /\ firing' = [firing EXCEPT ![n] = <<e>>]
                               /\ given' = [given EXCEPT ![e] = "one"]
      BY <1>4, <2>2, <3>1, Zenon DEF Nt!Notify
    <3>4. /\ firing' \in [Notifiers -> Seq(Futures)]
          /\ given' \in [Futures -> {"none", "one", "all"}]
      BY <3>3
    <3> QED
      BY <1>4, <2>2, <3>2, <3>4, SMTT(30) DEF Nt!Notify
  <2> QED
    BY <2>1, <2>2, Zenon
<1>5. ASSUME NEW n \in Notifiers, Nt!NotifyWaiters(n) PROVE Nt!TypeOK'
  BY <1>5, Zenon DEF Nt!NotifyWaiters
<1>6. ASSUME NEW n \in Notifiers, Nt!FireStore(n) \/ Nt!FireWake(n) PROVE Nt!TypeOK'
  <2>1. Head(firing[n]) \in Futures /\ Tail(firing[n]) \in Seq(Futures)
    BY <1>6 DEF Nt!FireStore, Nt!FireWake
  <2>2. CASE Nt!FireStore(n)
    BY <2>1, <2>2, Zenon DEF Nt!FireStore
  <2>3. CASE Nt!FireWake(n)
    <3>1. firing' \in [Notifiers -> Seq(Futures)]
      BY <2>1, <2>3, Zenon DEF Nt!FireWake
    <3>2. /\ waker' \in [Futures -> BOOLEAN] /\ awake' \in [Futures -> BOOLEAN]
          /\ stored' \in [Notifiers -> BOOLEAN]
      BY <2>1, <2>3, Zenon DEF Nt!FireWake
    <3> QED
      BY <2>3, <3>1, <3>2, Zenon DEF Nt!FireWake
  <2> QED
    BY <1>6, <2>2, <2>3, Zenon
<1>7. CASE UNCHANGED Nt!vars
  BY <1>7, Zenon DEF Nt!vars
<1> QED
  BY <1>1, <1>2, <1>3, <1>4, <1>5, <1>6, <1>7, Zenon DEF Nt!Next

\* A notifier between the two halves of fire keeps the future it fires.
LEMMA NtStoredStep == Nt!TypeOK /\ StoredShape /\ [Nt!Next]_(Nt!vars) => StoredShape'
<1> SUFFICES ASSUME Nt!TypeOK, StoredShape, [Nt!Next]_(Nt!vars) PROVE StoredShape'
  BY Zenon
<1> USE DEF Nt!TypeOK, StoredShape, Nt!Goto, Nt!futVars
<1>1. ASSUME NEW f \in Futures,
             \/ Nt!Poll(f) \/ Nt!CheckWoken(f) \/ Nt!StoreWaker(f)
             \/ Nt!Recheck(f) \/ Nt!DropFuture(f) \/ Nt!Register(f) \/ Nt!Enable(f)
      PROVE StoredShape'
  <2>1. /\ firing' = firing /\ stored' = stored
        /\ woken' = woken \/ woken' = [woken EXCEPT ![f] = TRUE]
    BY <1>1, Zenon DEF Nt!Poll, Nt!CheckWoken, Nt!StoreWaker, Nt!Recheck, Nt!DropFuture,
                Nt!Register, Nt!Enable
  <2>2. \A n \in Notifiers : firing[n] # <<>> => Head(firing[n]) \in Futures
    OBVIOUS
  <2> QED
    BY <2>1, <2>2, Zenon
<1>2. ASSUME NEW n \in Notifiers, NEW last \in BOOLEAN, Nt!Notify(n, last) \/ Nt!NotifyWaiters(n)
      PROVE StoredShape'
  <2>1. /\ ~stored[n] /\ stored' = stored /\ woken' = woken
        /\ \A m \in Notifiers \ {n} : firing'[m] = firing[m]
    BY <1>2, Zenon DEF Nt!Notify, Nt!NotifyWaiters
  <2> QED
    BY <2>1, Zenon
<1>3. ASSUME NEW n \in Notifiers, Nt!FireStore(n) PROVE StoredShape'
  <2>1. \A m \in Notifiers : firing[m] # <<>> => Head(firing[m]) \in Futures
    OBVIOUS
  <2> QED
    BY <1>3, <2>1, Zenon DEF Nt!FireStore
<1>4. ASSUME NEW n \in Notifiers, Nt!FireWake(n) PROVE StoredShape'
  BY <1>4, Zenon DEF Nt!FireWake
<1>5. CASE UNCHANGED Nt!vars
  BY <1>5, Zenon DEF Nt!vars
<1> QED
  BY <1>1, <1>2, <1>3, <1>4, <1>5, Zenon DEF Nt!Next

\* A step that leaves the queue and the notifiers' hands alone leaves every
\* future where it was found.
LEMMA SamePlaces ==
    ASSUME UNCHANGED <<waiters, firing>>, NEW f
    PROVE  (Queued(f)' <=> Queued(f)) /\ (InHands(f)' <=> InHands(f))
  BY Zenon DEF Queued, InHands, In

\* notify_one and notify_last take one future out of the queue and into their hands.
LEMMA PopsOne ==
    ASSUME Nt!TypeOK, QueuedOnce, NEW n \in Notifiers, NEW last \in BOOLEAN,
           Nt!Notify(n, last), waiters # <<>>
    PROVE  \E e \in Futures :
               /\ Queued(e) /\ given' = [given EXCEPT ![e] = "one"]
               /\ firing' = [firing EXCEPT ![n] = <<e>>]
               /\ \A f \in Futures : Queued(f)' <=> Queued(f) /\ f # e
               /\ QueuedOnce'
<1> DEFINE k == Len(waiters)
<1>1. k \in Nat /\ k > 0 /\ \A i \in 1..k : waiters[i] \in Futures
  BY DEF Nt!TypeOK
<1>2. ASSUME last
      PROVE  \E e \in Futures :
               /\ Queued(e) /\ given' = [given EXCEPT ![e] = "one"]
               /\ firing' = [firing EXCEPT ![n] = <<e>>]
               /\ \A f \in Futures : Queued(f)' <=> Queued(f) /\ f # e
               /\ QueuedOnce'
  <2>1. /\ given' = [given EXCEPT ![waiters[k]] = "one"]
        /\ firing' = [firing EXCEPT ![n] = <<waiters[k]>>]
        /\ waiters' = SubSeq(waiters, 1, k - 1)
    BY <1>2, Zenon DEF Nt!Notify
  <2>2. PICK j \in Nat : j = k - 1
    BY <1>1
  <2>3. Len(waiters') = j /\ \A i \in 1..j : waiters'[i] = waiters[i]
    <3>1. \A i \in 1..j : waiters[i] \in Futures
      BY <1>1, <2>2
    <3>2. /\ Len(SubSeq(waiters, 1, j)) = j
          /\ \A i \in 1..j : SubSeq(waiters, 1, j)[i] = waiters[i]
      BY <3>1, Front
    <3> QED
      BY <2>1, <2>2, <3>2, Zenon
  <2>4. \A i \in 1..k : i = k \/ i \in 1..j
    BY <1>1, <2>2, SMTT(30)
  <2>5. \A i \in 1..j : i \in 1..k /\ i # k
    BY <1>1, <2>2, SMTT(30)
  <2>6. k \in 1..k
    BY <1>1
  <2>7. \A f \in Futures : Queued(f)' <=> Queued(f) /\ f # waiters[k]
    BY <2>3, <2>4, <2>5, <2>6, Zenon DEF Queued, In, QueuedOnce
  <2>8. QueuedOnce'
    BY <2>3, <2>5, Zenon DEF QueuedOnce
  <2>9. waiters[k] \in Futures /\ Queued(waiters[k])
    BY <1>1, <2>6, Zenon DEF Queued, In
  <2> QED
    BY <2>1, <2>7, <2>8, <2>9, Zenon
<1>3. ASSUME ~last
      PROVE  \E e \in Futures :
               /\ Queued(e) /\ given' = [given EXCEPT ![e] = "one"]
               /\ firing' = [firing EXCEPT ![n] = <<e>>]
               /\ \A f \in Futures : Queued(f)' <=> Queued(f) /\ f # e
               /\ QueuedOnce'
  <2>1. /\ given' = [given EXCEPT ![Head(waiters)] = "one"]
        /\ firing' = [firing EXCEPT ![n] = <<Head(waiters)>>]
        /\ waiters' = Tail(waiters)
    BY <1>3, Zenon DEF Nt!Notify
  <2>2. PICK j \in Nat : j = k - 1
    BY <1>1
  <2>3. Head(waiters) = waiters[1] /\ Len(Tail(waiters)) = k - 1
        /\ \A i \in 1..k - 1 : Tail(waiters)[i] = waiters[i + 1]
    BY <1>1 DEF Nt!TypeOK
  <2>4. Len(waiters') = j /\ \A i \in 1..j : waiters'[i] = waiters[i + 1]
    BY <2>1, <2>2, <2>3, Zenon
  <2>5. \A i \in 1..k : i = 1 \/ \E h \in 1..j : i = h + 1
    BY <1>1, <2>2, SMTT(30)
  <2>6. 1 \in 1..k /\ \A i \in 1..j : i + 1 \in 1..k /\ i + 1 # 1
    BY <1>1, <2>2, SMTT(30)
  <2>7. \A h, i \in 1..j : h + 1 = i + 1 => h = i
    BY <2>2
  <2>8. ASSUME NEW f \in Futures PROVE Queued(f)' <=> Queued(f) /\ f # waiters[1]
    <3>1. ASSUME NEW i \in 1..j, waiters'[i] = f PROVE Queued(f) /\ f # waiters[1]
      BY <3>1, <2>4, <2>6, Zenon DEF Queued, In, QueuedOnce
    <3>2. ASSUME NEW i \in 1..k, waiters[i] = f, f # waiters[1] PROVE Queued(f)'
      <4>1. PICK h \in 1..j : i = h + 1
        BY <3>2, <2>5, Zenon
      <4> QED
        BY <3>2, <4>1, <2>4, Zenon DEF Queued, In
    <3> QED
      BY <3>1, <3>2, <2>4, Zenon DEF Queued, In
  <2>9. QueuedOnce'
    BY <2>4, <2>6, <2>7, Zenon DEF QueuedOnce
  <2>10. waiters[1] \in Futures /\ Queued(waiters[1])
    BY <1>1, <2>6, Zenon DEF Queued, In
  <2> QED
    BY <2>1, <2>3, <2>8, <2>9, <2>10, Zenon
<1> QED
  BY <1>2, <1>3, Zenon

\* A notification moves futures from the queue to a notifier's hands.
LEMMA NotifyMoves ==
    ASSUME Nt!TypeOK, QueuedOnce, NEW n \in Notifiers, NEW last \in BOOLEAN,
           Nt!Notify(n, last) \/ Nt!NotifyWaiters(n), NEW f \in Futures
    PROVE  /\ Queued(f) => Queued(f)' \/ InHands(f)'
           /\ InHands(f) => InHands(f)'
           /\ InHands(f)' => InHands(f) \/ (Queued(f) /\ given'[f] # "none")
           /\ Queued(f)' => Queued(f) /\ given'[f] = given[f]
           /\ InHands(f) /\ ~Queued(f) => given'[f] = given[f]
<1>1. firing[n] = <<>> /\ ~In(f, firing[n])
  BY DEF Nt!Notify, Nt!NotifyWaiters, In, Nt!TypeOK
<1>2. \A m \in Notifiers \ {n} : firing'[m] = firing[m]
  BY Zenon DEF Nt!Notify, Nt!NotifyWaiters, Nt!TypeOK
<1>3. InHands(f) => InHands(f)'
  BY <1>1, <1>2, Zenon DEF In, InHands
<1>4. InHands(f)' => InHands(f) \/ In(f, firing'[n])
  BY <1>2, Zenon DEF In, InHands
<1>5. In(f, firing'[n]) => InHands(f)'
  BY Zenon DEF In, InHands
<1>6. CASE Nt!NotifyWaiters(n)
  <2>1. /\ firing'[n] = waiters /\ waiters' = <<>>
        /\ given'[f] = IF Queued(f) THEN "all" ELSE given[f]
    BY <1>6, Zenon DEF Nt!NotifyWaiters, Nt!TypeOK, Nt!Queued, Queued, In
  <2>2. In(f, firing'[n]) <=> Queued(f)
    BY <2>1, Zenon DEF Queued, In
  <2>3. ~Queued(f)'
    BY <2>1 DEF Queued, In
  <2> QED
    BY <2>1, <2>2, <2>3, <1>3, <1>4, <1>5, Zenon
<1>7. CASE Nt!Notify(n, last) /\ waiters = <<>>
  <2>1. UNCHANGED <<waiters, firing, given>>
    BY <1>7, Zenon DEF Nt!Notify
  <2> QED
    BY <2>1, SamePlaces, Zenon
<1>8. CASE Nt!Notify(n, last) /\ waiters # <<>>
  <2>1. PICK e \in Futures :
               /\ Queued(e) /\ given' = [given EXCEPT ![e] = "one"]
               /\ firing' = [firing EXCEPT ![n] = <<e>>]
               /\ \A g \in Futures : Queued(g)' <=> Queued(g) /\ g # e
               /\ QueuedOnce'
    BY <1>8, PopsOne, Zenon
  <2>2. firing'[n] = <<e>> /\ given'[e] = "one" /\ (f # e => given'[f] = given[f])
    BY <2>1, Zenon DEF Nt!TypeOK
  <2>3. In(f, firing'[n]) <=> f = e
    BY <2>2 DEF In
  <2> QED
    BY <2>1, <2>2, <2>3, <1>3, <1>4, <1>5, Zenon
<1> QED
  BY <1>6, <1>7, <1>8, Zenon

\* The steps of a waiting future keep it findable and its waker in place.
LEMMA FutureStep ==
    ASSUME Nt!TypeOK, Findable, PollShape, NEW f \in Futures,
           \/ Nt!Poll(f) \/ Nt!CheckWoken(f) \/ Nt!StoreWaker(f)
           \/ Nt!Recheck(f) \/ Nt!DropFuture(f) \/ Nt!Register(f) \/ Nt!Enable(f)
    PROVE  Findable' /\ PollShape'
<1> USE DEF Nt!TypeOK, Nt!Labels, Nt!Goto
<1>1. CASE Nt!Poll(f) \/ Nt!CheckWoken(f) \/ Nt!StoreWaker(f) \/ Nt!Recheck(f) \/ Nt!DropFuture(f)
  <2>1. UNCHANGED <<waiters, firing, woken, registered>>
    BY <1>1, Zenon DEF Nt!Poll, Nt!CheckWoken, Nt!StoreWaker, Nt!Recheck, Nt!DropFuture
  <2>2. \A g \in Futures : (Queued(g)' <=> Queued(g)) /\ (InHands(g)' <=> InHands(g))
    BY <2>1, SamePlaces, Zenon
  <2>3. Findable'
    BY <2>1, <2>2, Zenon DEF Findable
  <2>4. PollShape'
    <3>1. CASE Nt!Poll(f) \/ Nt!CheckWoken(f)
      BY <3>1, <2>1, <2>2, ZenonT(40) DEF PollShape, Nt!Poll, Nt!CheckWoken
    <3>2. CASE Nt!StoreWaker(f)
      BY <3>2, <2>1, <2>2, Zenon DEF PollShape, Nt!StoreWaker
    <3>3. CASE Nt!Recheck(f) \/ Nt!DropFuture(f)
      BY <3>3, <2>1, <2>2, SMTT(30) DEF PollShape, Nt!Recheck, Nt!DropFuture
    <3> QED
      BY <1>1, <3>1, <3>2, <3>3, Zenon
  <2> QED
    BY <2>3, <2>4, Zenon
<1>2. CASE Nt!Register(f) \/ Nt!Enable(f)
  <2>1. firing' = firing /\ \A g \in Futures : InHands(g)' <=> InHands(g)
    BY <1>2, Zenon DEF Nt!Register, Nt!Enable, InHands, In
  <2>2. waiters' = waiters \/ waiters' = Append(waiters, f)
    BY <1>2, Zenon DEF Nt!Register, Nt!Enable
  <2>3. \A g \in Futures : In(g, Append(waiters, f)) <=> In(g, waiters) \/ g = f
    BY InSeq, Zenon
  <2>4. \A g \in Futures : Queued(g) => Queued(g)'
    BY <2>2, <2>3, Zenon DEF Queued, In
  <2>5. waiters' = Append(waiters, f) => Queued(f)'
    BY <2>3, Zenon DEF Queued, In
  <2>6. Findable'
    BY <1>2, <2>1, <2>4, <2>5, ZenonT(40) DEF Findable, Nt!Register, Nt!Enable
  <2>7. PollShape'
    BY <1>2, <2>1, SMTT(30) DEF PollShape, Nt!Register, Nt!Enable
  <2> QED
    BY <2>6, <2>7, Zenon
<1> QED
  BY <1>1, <1>2, Zenon

\* The steps of a notifier keep unnotified futures findable, and a parked
\* future they notified in hand until it is awake.
LEMMA NotifierStep ==
    ASSUME Nt!TypeOK, QueuedOnce, StoredShape, Findable, PollShape,
           NEW n \in Notifiers, NEW last \in BOOLEAN,
           Nt!Notify(n, last) \/ Nt!NotifyWaiters(n) \/ Nt!FireStore(n) \/ Nt!FireWake(n)
    PROVE  Findable' /\ PollShape'
<1> USE DEF Nt!TypeOK
<1>1. CASE Nt!Notify(n, last) \/ Nt!NotifyWaiters(n)
  <2>1. /\ woken' = woken /\ waker' = waker /\ registered' = registered
        /\ pc' = pc /\ awake' = awake
    BY <1>1, Zenon DEF Nt!Notify, Nt!NotifyWaiters, Nt!futVars
  <2>2. \A g \in Futures : /\ Queued(g) => Queued(g)' \/ InHands(g)'
                           /\ InHands(g) => InHands(g)'
    BY <1>1, NotifyMoves, Zenon
  <2>3. Findable'
    BY <2>1, <2>2, Zenon DEF Findable
  <2>4. PollShape'
    BY <2>1, <2>2, Zenon DEF PollShape
  <2> QED
    BY <2>3, <2>4, Zenon
<1>2. CASE Nt!FireStore(n)
  <2>1. \A g \in Futures : (Queued(g)' <=> Queued(g)) /\ (InHands(g)' <=> InHands(g))
    BY <1>2, SamePlaces, Zenon DEF Nt!FireStore
  <2>2. Head(firing[n]) \in Futures /\ InHands(Head(firing[n]))
    BY <1>2 DEF Nt!FireStore, InHands, In
  <2>3. Findable'
    BY <1>2, <2>1, <2>2, Zenon DEF Nt!FireStore, Findable
  <2>4. PollShape'
    BY <1>2, <2>1, <2>2, Zenon DEF Nt!FireStore, PollShape
  <2> QED
    BY <2>3, <2>4, Zenon
<1>3. CASE Nt!FireWake(n)
  <2> DEFINE h == Head(firing[n])
  <2>1. h \in Futures /\ woken[h] /\ woken' = woken
    BY <1>3 DEF Nt!FireWake, StoredShape
  <2>2. \A g \in Futures : In(g, firing[n]) <=> g = h \/ In(g, Tail(firing[n]))
    <3>1. firing[n] \in Seq(Futures) /\ firing[n] # <<>>
      BY <1>3, Zenon DEF Nt!FireWake
    <3> QED
      BY <3>1, InTail, Zenon
  <2>3. /\ firing'[n] = Tail(firing[n])
        /\ \A m \in Notifiers \ {n} : firing'[m] = firing[m]
    BY <1>3, Zenon DEF Nt!FireWake
  <2>4. \A g \in Futures : In(g, firing[n]) /\ g # h => In(g, firing'[n])
    BY <2>2, <2>3, Zenon
  <2>5. \A g \in Futures : InHands(g) /\ g # h => InHands(g)'
    BY <2>3, <2>4, Zenon DEF InHands, In
  <2>6. \A g \in Futures : Queued(g)' <=> Queued(g)
    BY <1>3, Zenon DEF Nt!FireWake, Queued, In
  <2>7. Findable'
    BY <1>3, <2>1, <2>5, <2>6, Zenon DEF Nt!FireWake, Findable
  <2>8. PollShape'
    BY <1>3, <2>1, <2>5, Zenon DEF Nt!FireWake, PollShape
  <2> QED
    BY <2>7, <2>8, Zenon
<1> QED
  BY <1>1, <1>2, <1>3, Zenon

\* A future's own steps: it is notified only by a permit that it takes itself.
LEMMA FutureGiven ==
    ASSUME Nt!TypeOK, QueuedOnce, GivenShape, NEW f \in Futures,
           \/ Nt!Poll(f) \/ Nt!CheckWoken(f) \/ Nt!StoreWaker(f)
           \/ Nt!Recheck(f) \/ Nt!DropFuture(f) \/ Nt!Register(f) \/ Nt!Enable(f)
    PROVE  QueuedOnce' /\ GivenShape'
<1>1. CASE \/ Nt!Poll(f) \/ Nt!CheckWoken(f) \/ Nt!StoreWaker(f)
           \/ Nt!Recheck(f) \/ Nt!DropFuture(f)
  <2>1. UNCHANGED <<waiters, firing, woken, registered, given>>
    BY <1>1, Zenon DEF Nt!Poll, Nt!CheckWoken, Nt!StoreWaker, Nt!Recheck, Nt!DropFuture
  <2>2. /\ \A g \in Futures \ {f} : pc'[g] = pc[g]
        /\ pc[f] # "done" /\ pc'[f] = "done" => woken[f]
        /\ pc'[f] = "lock" => ~woken[f]
        /\ pc[f] # "done" /\ pc[f] # "dropped"
    BY <1>1, Zenon DEF Nt!Poll, Nt!CheckWoken, Nt!StoreWaker, Nt!Recheck, Nt!DropFuture,
                       Nt!TypeOK, Nt!Goto
  <2>3. \A g \in Futures : (Queued(g)' <=> Queued(g)) /\ (InHands(g)' <=> InHands(g))
    BY <2>1, SamePlaces, Zenon
  <2>4. QueuedOnce'
    BY <2>1, Zenon DEF QueuedOnce
  <2>5. GivenShape'
    BY <2>1, <2>2, <2>3, Zenon DEF GivenShape
  <2> QED
    BY <2>4, <2>5, Zenon
<1>2. CASE Nt!Register(f) \/ Nt!Enable(f)
  <2>1. firing' = firing /\ \A g \in Futures : InHands(g)' <=> InHands(g)
    BY <1>2, Zenon DEF Nt!Register, Nt!Enable, InHands, In
  <2>2. \A g \in Futures \ {f} :
          /\ pc'[g] = pc[g] /\ woken'[g] = woken[g]
          /\ registered'[g] = registered[g] /\ given'[g] = given[g]
    BY <1>2, Zenon DEF Nt!Register, Nt!Enable, Nt!TypeOK, Nt!Goto
  <2>3. pc[f] # "done"
    BY <1>2, Zenon DEF Nt!Register, Nt!Enable
  <2>4. CASE ~registered[f] /\ permits = 0
    <3>1. /\ waiters' = Append(waiters, f) /\ registered'[f] /\ given' = given /\ woken' = woken
          /\ pc'[f] # "lock" /\ pc'[f] # "done"
      <4>1. CASE Nt!Register(f)
        BY <2>4, <4>1, SMTT(30) DEF Nt!Register, Nt!TypeOK, Nt!Goto
      <4>2. CASE Nt!Enable(f)
        BY <2>4, <4>2, SMTT(30) DEF Nt!Enable, Nt!TypeOK, Nt!Goto
      <4> QED
        BY <1>2, <4>1, <4>2, Zenon
    <3>2. ~Queued(f) /\ ~woken[f] /\ given[f] = "none"
      BY <1>2, <2>3, <2>4, Zenon DEF Nt!Register, Nt!Enable, GivenShape
    <3>3. \A g \in Futures : Queued(g)' <=> Queued(g) \/ g = f
      <4>1. \A g \in Futures : In(g, Append(waiters, f)) <=> In(g, waiters) \/ g = f
        BY InSeq, Zenon DEF Nt!TypeOK
      <4> QED
        BY <3>1, <4>1, Zenon DEF Queued, In
    <3>4. QueuedOnce'
      <4>1. /\ Len(Append(waiters, f)) = Len(waiters) + 1 /\ Len(waiters) \in Nat
            /\ Append(waiters, f)[Len(waiters) + 1] = f
            /\ \A i \in 1..Len(waiters) : Append(waiters, f)[i] = waiters[i]
        BY DEF Nt!TypeOK
      <4>2. \A i \in 1..Len(waiters) + 1 : i \in 1..Len(waiters) \/ i = Len(waiters) + 1
        BY <4>1
      <4>3. \A i \in 1..Len(waiters) : waiters[i] # f
        BY <3>2, Zenon DEF Queued, In
      <4>4. ASSUME NEW i \in 1..Len(waiters) + 1, NEW j \in 1..Len(waiters) + 1,
                   Append(waiters, f)[i] = Append(waiters, f)[j]
            PROVE  i = j
        BY <4>1, <4>2, <4>3, <4>4, Zenon DEF QueuedOnce
      <4> QED
        BY <3>1, <4>1, <4>4, ZenonT(40) DEF QueuedOnce
    <3>5. GivenShape'
      BY <2>1, <2>2, <3>1, <3>2, <3>3, Zenon DEF GivenShape
    <3> QED
      BY <3>4, <3>5, Zenon
  <2>5. CASE ~registered[f] /\ permits # 0
    <3>1. /\ waiters' = waiters /\ registered' = registered /\ given'[f] = "one"
          /\ pc'[f] # "lock" /\ (woken'[f] \/ pc'[f] = "done")
      BY <1>2, <2>5, SMTT(30) DEF Nt!Register, Nt!Enable, Nt!TypeOK, Nt!Goto, Nt!Labels
    <3>2. \A g \in Futures : Queued(g)' <=> Queued(g)
      BY <3>1, Zenon DEF Queued, In
    <3>3. QueuedOnce'
      BY <3>1, Zenon DEF QueuedOnce
    <3>4. GivenShape'
      BY <2>1, <2>2, <2>5, <3>1, <3>2, Zenon DEF GivenShape
    <3> QED
      BY <3>3, <3>4, Zenon
  <2>6. CASE registered[f]
    <3>1. /\ UNCHANGED <<waiters, registered, given, woken>>
          /\ pc'[f] = "store" /\ pc[f] = "lock"
      BY <1>2, <2>6, Zenon DEF Nt!Register, Nt!Enable, Nt!TypeOK, Nt!Goto
    <3>2. \A g \in Futures : Queued(g)' <=> Queued(g)
      BY <3>1, Zenon DEF Queued, In
    <3>3. QueuedOnce'
      BY <3>1, Zenon DEF QueuedOnce
    <3>4. GivenShape'
      BY <2>1, <2>2, <2>6, <3>1, <3>2, Zenon DEF GivenShape
    <3> QED
      BY <3>3, <3>4, Zenon
  <2> QED
    BY <2>4, <2>5, <2>6, Zenon
<1> QED
  BY <1>1, <1>2, Zenon

\* A notifier's steps: what leaves the queue is notified, and stays in hand until
\* its flag says so.
LEMMA NotifierGiven ==
    ASSUME Nt!TypeOK, QueuedOnce, StoredShape, GivenShape,
           NEW n \in Notifiers, NEW last \in BOOLEAN,
           Nt!Notify(n, last) \/ Nt!NotifyWaiters(n) \/ Nt!FireStore(n) \/ Nt!FireWake(n)
    PROVE  QueuedOnce' /\ GivenShape'
<1>1. CASE Nt!Notify(n, last) \/ Nt!NotifyWaiters(n)
  <2>1. woken' = woken /\ registered' = registered /\ pc' = pc
    BY <1>1, Zenon DEF Nt!Notify, Nt!NotifyWaiters, Nt!futVars
  <2>2. \A g \in Futures :
           /\ Queued(g) => Queued(g)' \/ InHands(g)'
           /\ InHands(g) => InHands(g)'
           /\ InHands(g)' => InHands(g) \/ (Queued(g) /\ given'[g] # "none")
           /\ Queued(g)' => Queued(g) /\ given'[g] = given[g]
           /\ InHands(g) /\ ~Queued(g) => given'[g] = given[g]
    BY <1>1, NotifyMoves, Zenon
  <2>3. \A g \in Futures : ~Queued(g) => given'[g] = given[g]
    <3>1. CASE Nt!NotifyWaiters(n)
      BY <3>1, Zenon DEF Nt!NotifyWaiters, Nt!Queued, Queued, In
    <3>2. CASE Nt!Notify(n, last) /\ waiters = <<>>
      BY <3>2, Zenon DEF Nt!Notify
    <3>3. CASE Nt!Notify(n, last) /\ waiters # <<>>
      <4>1. PICK e \in Futures : Queued(e) /\ given' = [given EXCEPT ![e] = "one"]
        BY <3>3, PopsOne, Zenon
      <4> QED
        BY <4>1, Zenon DEF Nt!TypeOK
    <3> QED
      BY <1>1, <3>1, <3>2, <3>3, Zenon
  <2>4. QueuedOnce'
    <3>1. CASE Nt!NotifyWaiters(n)
      <4>1. waiters' = <<>>
        BY <3>1, Zenon DEF Nt!NotifyWaiters
      <4> QED
        BY <4>1 DEF QueuedOnce
    <3>2. CASE Nt!Notify(n, last) /\ waiters = <<>>
      BY <3>2, Zenon DEF Nt!Notify, QueuedOnce
    <3>3. CASE Nt!Notify(n, last) /\ waiters # <<>>
      BY <3>3, PopsOne, Zenon
    <3> QED
      BY <1>1, <3>1, <3>2, <3>3, Zenon
  <2>5. \A g \in Futures : Queued(g) => ~InHands(g) /\ ~woken[g] /\ pc[g] # "done"
    BY Zenon DEF GivenShape
  <2>6. GivenShape'
    BY <2>1, <2>2, <2>3, <2>5, Zenon DEF GivenShape
  <2> QED
    BY <2>4, <2>6, Zenon
<1>2. CASE Nt!FireStore(n)
  <2>1. \A g \in Futures : (Queued(g)' <=> Queued(g)) /\ (InHands(g)' <=> InHands(g))
    BY <1>2, SamePlaces, Zenon DEF Nt!FireStore
  <2>2. Head(firing[n]) \in Futures /\ InHands(Head(firing[n]))
    BY <1>2 DEF Nt!FireStore, InHands, In, Nt!TypeOK
  <2>3. UNCHANGED <<waiters, registered, pc, given>>
        /\ woken' = [woken EXCEPT ![Head(firing[n])] = TRUE]
    BY <1>2, Zenon DEF Nt!FireStore
  <2>4. QueuedOnce'
    BY <2>3, Zenon DEF QueuedOnce
  <2>5. woken \in [Futures -> BOOLEAN]
    BY Zenon DEF Nt!TypeOK
  <2>6. GivenShape'
    BY <2>1, <2>2, <2>3, <2>5, Zenon DEF GivenShape
  <2> QED
    BY <2>4, <2>6, Zenon
<1>3. CASE Nt!FireWake(n)
  <2> DEFINE h == Head(firing[n])
  <2>1. h \in Futures /\ woken[h] /\ UNCHANGED <<waiters, woken, registered, pc, given>>
    BY <1>3 DEF Nt!FireWake, StoredShape, Nt!TypeOK
  <2>2. \A g \in Futures : In(g, firing[n]) <=> g = h \/ In(g, Tail(firing[n]))
    <3>1. firing[n] \in Seq(Futures) /\ firing[n] # <<>>
      BY <1>3, Zenon DEF Nt!FireWake, Nt!TypeOK
    <3> QED
      BY <3>1, InTail, Zenon
  <2>3. /\ firing'[n] = Tail(firing[n])
        /\ \A m \in Notifiers \ {n} : firing'[m] = firing[m]
    BY <1>3, Zenon DEF Nt!FireWake, Nt!TypeOK
  <2>4. \A g \in Futures : /\ In(g, firing[n]) /\ g # h => In(g, firing'[n])
                           /\ In(g, firing'[n]) => In(g, firing[n])
    BY <2>2, <2>3, Zenon
  <2>5. \A g \in Futures : /\ InHands(g) /\ g # h => InHands(g)'
                           /\ InHands(g)' => InHands(g)
    <3>1. \A g \in Futures : InHands(g)' <=> \E m \in Notifiers : In(g, firing'[m])
      BY Zenon DEF InHands, In
    <3> QED
      BY <2>3, <2>4, <3>1, Zenon DEF InHands
  <2>6. \A g \in Futures : Queued(g)' <=> Queued(g)
    BY <2>1, Zenon DEF Queued, In
  <2>7. QueuedOnce'
    BY <2>1, Zenon DEF QueuedOnce
  <2>8. GivenShape'
    BY <2>1, <2>5, <2>6, Zenon DEF GivenShape
  <2> QED
    BY <2>7, <2>8, Zenon
<1> QED
  BY <1>1, <1>2, <1>3, Zenon

\* A future that takes or is given one notification more raises the count by one.
LEMMA SpentMore ==
    ASSUME Nt!TypeOK, SpentOnce, NEW f \in Futures, given[f] = "none",
           given' = [given EXCEPT ![f] = "one"]
    PROVE  IsFiniteSet(Spent') /\ Cardinality(Spent') = Cardinality(Spent) + 1
<1>1. Spent' = Spent \cup {f} /\ f \notin Spent
  BY DEF Spent, Nt!TypeOK
<1> QED
  BY <1>1, FS_AddElement, Zenon DEF SpentOnce

\* Permits and queued waiters never meet, and every call is banked or was spent on
\* one future.
LEMMA NtSpentStep ==
    ASSUME Nt!TypeOK, QueuedOnce, GivenShape, SpentOnce, [Nt!Next]_(Nt!vars)
    PROVE  SpentOnce'
<1> DEFINE c == Cardinality(Spent)
<1>0. permits \in Nat /\ calls \in Nat /\ c \in Nat /\ calls = permits + c
  BY FS_CardinalityType, Zenon DEF Nt!TypeOK, SpentOnce
<1>1. ASSUME UNCHANGED <<permits, calls, given>>, waiters' = waiters \/ waiters' = <<>>
      PROVE  SpentOnce'
  BY <1>1, Zenon DEF SpentOnce, Spent
<1>2. ASSUME NEW f \in Futures, Nt!Register(f) \/ Nt!Enable(f) PROVE SpentOnce'
  <2>1. CASE UNCHANGED <<permits, given, calls>>
    <3>1. permits = 0 \/ waiters' = waiters
      BY <1>2, Zenon DEF Nt!Register, Nt!Enable
    <3>2. permits' > 0 => waiters' = <<>>
      BY <1>0, <2>1, <3>1, SMTT(30) DEF SpentOnce
    <3>3. Spent' = Spent
      BY <2>1, Zenon DEF Spent
    <3> QED
      BY <2>1, <3>2, <3>3, Zenon DEF SpentOnce
  <2>2. CASE ~UNCHANGED <<permits, given, calls>>
    <3>1. /\ permits > 0 /\ permits' = permits - 1 /\ given' = [given EXCEPT ![f] = "one"]
          /\ waiters' = waiters /\ calls' = calls
          /\ ~registered[f] /\ pc[f] # "done" /\ (pc[f] = "lock" \/ ~woken[f])
      BY <1>2, <2>2, Zenon DEF Nt!Register, Nt!Enable
    <3>2. given[f] = "none"
      BY <3>1, Zenon DEF GivenShape
    <3>3. IsFiniteSet(Spent') /\ Cardinality(Spent') = c + 1
      BY <3>1, <3>2, SpentMore, Zenon
    <3>4. waiters' = <<>>
      BY <3>1, Zenon DEF SpentOnce
    <3>5. calls' = permits' + Cardinality(Spent')
      BY <1>0, <3>1, <3>3, SMTT(30)
    <3> QED
      BY <3>3, <3>4, <3>5, Zenon DEF SpentOnce
  <2> QED
    BY <2>1, <2>2, Zenon
<1>3. ASSUME NEW n \in Notifiers, NEW last \in BOOLEAN, Nt!Notify(n, last) PROVE SpentOnce'
  <2>1. CASE waiters = <<>>
    <3>1. /\ permits' = permits + 1 /\ calls' = calls + 1 /\ given' = given
          /\ waiters' = <<>>
      BY <1>3, <2>1, Zenon DEF Nt!Notify
    <3>2. Spent' = Spent
      BY <3>1, Zenon DEF Spent
    <3>3. calls' = permits' + c
      BY <1>0, <3>1, SMTT(30)
    <3> QED
      BY <3>1, <3>2, <3>3, Zenon DEF SpentOnce
  <2>2. CASE waiters # <<>>
    <3>1. PICK e \in Futures : Queued(e) /\ given' = [given EXCEPT ![e] = "one"]
      BY <1>3, <2>2, PopsOne, Zenon
    <3>2. given[e] = "none"
      BY <3>1, Zenon DEF GivenShape
    <3>3. IsFiniteSet(Spent') /\ Cardinality(Spent') = c + 1
      BY <3>1, <3>2, SpentMore, Zenon
    <3>4. permits' = permits /\ calls' = calls + 1 /\ ~(permits > 0)
      BY <1>3, <2>2, Zenon DEF Nt!Notify, SpentOnce
    <3>5. calls' = permits' + Cardinality(Spent')
      BY <1>0, <3>3, <3>4, SMTT(30)
    <3> QED
      BY <3>3, <3>4, <3>5, Zenon DEF SpentOnce
  <2> QED
    BY <2>1, <2>2, Zenon
<1>4. ASSUME NEW n \in Notifiers, Nt!NotifyWaiters(n) PROVE SpentOnce'
  <2>1. /\ permits' = permits /\ calls' = calls /\ waiters' = <<>>
        /\ given' = [f \in Futures |-> IF Nt!Queued(f) THEN "all" ELSE given[f]]
    BY <1>4, Zenon DEF Nt!NotifyWaiters
  <2>2. \A f \in Futures : given'[f] = "one" <=> given[f] = "one"
    <3>1. \A f \in Futures : Nt!Queued(f) => given[f] = "none"
      BY Zenon DEF GivenShape, Nt!Queued, Queued, In
    <3> QED
      BY <2>1, <3>1, SMTT(30)
  <2>3. Spent' = Spent
    BY <2>2, Zenon DEF Spent
  <2> QED
    BY <2>1, <2>3, Zenon DEF SpentOnce
<1>5. ASSUME NEW f \in Futures,
             Nt!Poll(f) \/ Nt!CheckWoken(f) \/ Nt!StoreWaker(f) \/ Nt!Recheck(f) \/ Nt!DropFuture(f)
      PROVE  SpentOnce'
  BY <1>5, <1>1, Zenon DEF Nt!Poll, Nt!CheckWoken, Nt!StoreWaker, Nt!Recheck, Nt!DropFuture
<1>6. ASSUME NEW n \in Notifiers, Nt!FireStore(n) \/ Nt!FireWake(n) PROVE SpentOnce'
  BY <1>6, <1>1, Zenon DEF Nt!FireStore, Nt!FireWake
<1>7. CASE UNCHANGED Nt!vars
  BY <1>7, <1>1, Zenon DEF Nt!vars
<1> QED
  BY <1>2, <1>3, <1>4, <1>5, <1>6, <1>7, Zenon DEF Nt!Next

\* A new Notify has no permit and no waiter.
LEMMA NtInit == Nt!Init => NtInv
<1> SUFFICES ASSUME Nt!Init PROVE NtInv
  BY Zenon
<1>1. Nt!TypeOK
  BY SMTT(30) DEF Nt!Init, Nt!TypeOK, Nt!Labels
<1>2. StoredShape /\ Findable /\ PollShape /\ QueuedOnce
  BY <1>1, SMTT(30) DEF Nt!Init, StoredShape, Findable, PollShape, QueuedOnce
<1>3. \A f \in Futures : ~Queued(f) /\ ~InHands(f)
  BY DEF Nt!Init, Queued, InHands, In
<1>4. GivenShape
  BY <1>3 DEF Nt!Init, GivenShape
<1>5. Spent = {} /\ permits = 0 /\ calls = 0 /\ waiters = <<>>
  BY DEF Nt!Init, Spent
<1>6. IsFiniteSet(Spent) /\ Cardinality(Spent) = 0
  BY <1>5, FS_EmptySet, Zenon
<1>7. calls = permits + Cardinality(Spent)
  BY <1>5, <1>6
<1> QED
  BY <1>1, <1>2, <1>4, <1>5, <1>6, <1>7, Zenon DEF NtInv, SpentOnce

\* Every step of Notify keeps its invariant.
LEMMA NtStep == NtInv /\ [Nt!Next]_(Nt!vars) => NtInv'
<1> SUFFICES ASSUME NtInv, [Nt!Next]_(Nt!vars) PROVE NtInv'
  BY Zenon
<1>1. Nt!TypeOK' /\ StoredShape' /\ SpentOnce'
  BY NtTypeStep, NtSpentStep, NtStoredStep, Zenon DEF NtInv
<1>2. ASSUME UNCHANGED Nt!vars PROVE Findable' /\ PollShape' /\ QueuedOnce' /\ GivenShape'
  <2>1. UNCHANGED <<waiters, firing>>
    BY <1>2, Zenon DEF Nt!vars
  <2>2. \A f \in Futures : (Queued(f)' <=> Queued(f)) /\ (InHands(f)' <=> InHands(f))
    BY <2>1, SamePlaces, Zenon
  <2>3. Findable' /\ PollShape'
    BY <1>2, <2>2, Zenon DEF Nt!vars, NtInv, Findable, PollShape
  <2>4. QueuedOnce' /\ GivenShape'
    BY <1>2, <2>2, Zenon DEF Nt!vars, NtInv, QueuedOnce, GivenShape
  <2> QED
    BY <2>3, <2>4, Zenon
<1>3. ASSUME Nt!Next PROVE Findable' /\ PollShape'
  BY <1>3, FutureStep, NotifierStep, Zenon DEF Nt!Next, NtInv
<1>4. ASSUME Nt!Next PROVE QueuedOnce' /\ GivenShape'
  BY <1>4, FutureGiven, NotifierGiven, Zenon DEF Nt!Next, NtInv
<1> QED
  BY <1>1, <1>2, <1>3, <1>4, Zenon DEF NtInv

\* What the invariant says of Notify.
LEMMA NtSafe == NtInv => Nt!TypeOK /\ Nt!Banked /\ Nt!NotifiedWakes
<1> SUFFICES ASSUME NtInv PROVE Nt!TypeOK /\ Nt!Banked /\ Nt!NotifiedWakes
  BY Zenon
<1>1. Nt!Cardinality(Spent) = Cardinality(Spent)
  BY Zenon DEF Nt!Cardinality, Cardinality
<1>2. \A f \in Futures : (Nt!InHands(f) <=> InHands(f)) /\ (Nt!Queued(f) <=> Queued(f))
  BY Zenon DEF Nt!InHands, Nt!Queued, InHands, Queued, In
<1>3. Nt!Banked
  BY <1>1, <1>2, Zenon DEF NtInv, GivenShape, SpentOnce, Spent, Nt!Banked
<1>4. Nt!NotifiedWakes
  BY <1>2, Zenon DEF NtInv, Findable, PollShape, Nt!NotifiedWakes
<1> QED
  BY <1>3, <1>4, Zenon DEF NtInv

\* notify_one and notify_last bank a permit only when nobody is queued, and spend
\* one otherwise on one future, which learns of it unless it is dropped; no wait
\* ends without a notification.
THEOREM NotifyBanks == Nt!Spec => []Nt!Banked
  BY NtInit, NtStep, NtSafe, PTL DEF Nt!Spec

\* No interleaving of poll_notified, enable and fire leaves a notified future
\* asleep.
THEOREM NotifyNeverSleeps == Nt!Spec => []Nt!NotifiedWakes
  BY NtInit, NtStep, NtSafe, PTL DEF Nt!Spec

==============================================================================
