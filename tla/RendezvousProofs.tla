-------------------------- MODULE RendezvousProofs --------------------------
(***************************************************************************)
(* Proofs about the cells, the barrier, the channels that keep a value for *)
(* several to see and the set of spawned tasks: OnceCell, SetOnce,         *)
(* Barrier, oneshot, watch, broadcast and JoinSet, for any sets of tasks   *)
(* and receivers and any capacity.  They share nothing; a variable that    *)
(* two of them name alike stands for either.                               *)
(***************************************************************************)
EXTENDS Broadcast, FiniteSetTheorems, TLAPS

CONSTANTS Tasks, Nothing, N, MaxRounds, MaxVersion, Members

VARIABLES wakers, toWake, state, value,
          arrived, generation, mine, leaders, arrivals,
          slot, sender, sendOk,
          version, senderAlive, seen, registered,
          handles, dropped, task, aborted, waiting, owner, at, joined

------------------------------------------------------------------------------
(* Broadcast *)

\* Sequences of one length with the same elements are one.
LEMMA SameSeq ==
    ASSUME NEW S, NEW s \in Seq(S), NEW t \in Seq(S), Len(s) = Len(t),
           \A i \in 1..Len(s) : s[i] = t[i]
    PROVE  s = t
  OBVIOUS

Subscribed == {r \in Receivers : phase[r] # "none"}

\* receivers_alive counts the receivers.
CastCount == IsFiniteSet(Subscribed) /\ receiversAlive = Cardinality(Subscribed)

\* The ring holds the newest messages of the log, as many as fit.
CastRing ==
    /\ Len(log) = nextSeq /\ Len(buffer) <= nextSeq /\ Len(buffer) <= Capacity
    /\ Len(buffer) < Capacity => Len(buffer) = nextSeq
    /\ \A i \in 1..Len(buffer) : buffer[i] = log[nextSeq - Len(buffer) + i]

\* A receiver's position is between its subscription and the end of the log, and
\* what it was given and what was counted as missed make up the distance.
CastRead ==
    \A r \in Receivers : phase[r] # "none" =>
        /\ start[r] <= nextToRead[r] /\ nextToRead[r] <= nextSeq
        /\ start[r] + Len(got[r]) + missed[r] = nextToRead[r]
        /\ missed[r] = 0 => \A i \in 1..Len(got[r]) : got[r][i] = log[start[r] + i]
        /\ phase[r] = "closed" => nextToRead[r] = nextSeq /\ sendersAlive = 0

CastSleep ==
    \A r \in Receivers : phase[r] = "waiting" /\ ~awake[r] =>
        nextToRead[r] = nextSeq /\ sendersAlive > 0 /\ r \in waiters

CastInv == TypeOK /\ CastCount /\ CastRing /\ CastRead /\ CastSleep

\* A new channel has one receiver and nothing to read.
LEMMA CastInit == ASSUME First \in Receivers, Capacity \in Nat PROVE Init => CastInv
<1> SUFFICES ASSUME Init PROVE CastInv
  BY Zenon
<1>1. Subscribed = {First}
  BY Zenon DEF Init, Subscribed
<1>2. CastCount
  BY <1>1, FS_Singleton, Zenon DEF Init, CastCount
<1>3. TypeOK
  BY DEF Init, TypeOK
<1>4. CastRing /\ CastRead /\ CastSleep
  BY DEF Init, CastRing, CastRead, CastSleep
<1> QED
  BY <1>2, <1>3, <1>4, Zenon DEF CastInv

\* A step after which the same receivers exist keeps their count.
LEMMA CastSame ==
    ASSUME CastCount, receiversAlive' = receiversAlive,
           \A r \in Receivers : phase'[r] = "none" <=> phase[r] = "none"
    PROVE  CastCount'
<1>1. Subscribed' = Subscribed
  BY Zenon DEF Subscribed
<1> QED
  BY <1>1, Zenon DEF CastCount

\* send pushes out the oldest message when the ring is full, and the ring ends
\* with the log.
LEMMA CastSendRing ==
    ASSUME Capacity \in Nat \ {0}, TypeOK, CastRing, NEW v \in Values, Send(v)
    PROVE  /\ buffer' \in Seq(Values) /\ log' \in Seq(Values) /\ CastRing'
           /\ \A i \in 1..Len(log) : log'[i] = log[i]
<1> DEFINE old == IF Len(buffer) = Capacity THEN Tail(buffer) ELSE buffer
<1>1. buffer \in Seq(Values) /\ log \in Seq(Values) /\ nextSeq \in Nat
  BY Zenon DEF TypeOK
<1>2. /\ old \in Seq(Values)
      /\ Len(old) = IF Len(buffer) = Capacity THEN Len(buffer) - 1 ELSE Len(buffer)
      /\ \A i \in 1..Len(old) : old[i] = log[nextSeq - Len(old) + i]
  <2>1. CASE Len(buffer) = Capacity
    <3>1. buffer # <<>>
      BY <1>1, <2>1, Zenon
    <3>2. /\ Tail(buffer) \in Seq(Values) /\ Len(Tail(buffer)) = Len(buffer) - 1
          /\ \A i \in 1..Len(Tail(buffer)) : Tail(buffer)[i] = buffer[i + 1]
      BY <1>1, <3>1
    <3>3. ASSUME NEW i \in 1..(Len(buffer) - 1)
          PROVE  Tail(buffer)[i] = log[nextSeq - (Len(buffer) - 1) + i]
      <4>1. Tail(buffer)[i] = buffer[i + 1] /\ i + 1 \in 1..Len(buffer)
        BY <1>1, <3>2
      <4>2. buffer[i + 1] = log[nextSeq - Len(buffer) + (i + 1)]
        BY <4>1, Zenon DEF CastRing
      <4>3. nextSeq - Len(buffer) + (i + 1) = nextSeq - (Len(buffer) - 1) + i
        BY <1>1
      <4> QED
        BY <4>1, <4>2, <4>3, Zenon
    <3>4. old = Tail(buffer)
      BY <2>1, Zenon
    <3> HIDE DEF old
    <3> QED
      BY <2>1, <3>2, <3>3, <3>4, Zenon
  <2>2. CASE Len(buffer) # Capacity
    BY <1>1, <2>2, Zenon DEF CastRing
  <2> QED
    BY <2>1, <2>2, Zenon
<1>3. buffer' = Append(old, v) /\ log' = Append(log, v) /\ nextSeq' = nextSeq + 1
  BY Zenon DEF Send
<1> HIDE DEF old
<1>4. /\ buffer' \in Seq(Values) /\ Len(buffer') = Len(old) + 1
      /\ \A i \in 1..Len(old) : buffer'[i] = old[i]
      /\ buffer'[Len(old) + 1] = v
  BY <1>2, <1>3
<1>5. /\ log' \in Seq(Values) /\ Len(log') = Len(log) + 1
      /\ \A i \in 1..Len(log) : log'[i] = log[i]
      /\ log'[Len(log) + 1] = v
  BY <1>1, <1>3
<1>6. Len(old) \in Nat /\ Len(log) = nextSeq /\ Len(old) <= nextSeq
  BY <1>1, <1>2 DEF CastRing
<1>7. \A i \in 1..Len(buffer') : buffer'[i] = log'[nextSeq' - Len(buffer') + i]
  <2> SUFFICES ASSUME NEW i \in 1..Len(buffer')
               PROVE  buffer'[i] = log'[nextSeq' - Len(buffer') + i]
    BY Zenon
  <2>1. CASE i = Len(old) + 1
    BY <1>3, <1>4, <1>5, <1>6, <2>1
  <2>2. CASE i \in 1..Len(old)
    <3>1. nextSeq - Len(old) + i \in 1..Len(log)
      BY <1>1, <1>6, <2>2
    <3>2. buffer'[i] = log[nextSeq - Len(old) + i]
      BY <1>2, <1>4, <2>2, Zenon
    <3>3. nextSeq' - Len(buffer') + i = nextSeq - Len(old) + i
      BY <1>1, <1>3, <1>4, <1>6, <2>2
    <3> QED
      BY <1>5, <3>1, <3>2, <3>3, Zenon
  <2> QED
    BY <1>4, <1>6, <2>1, <2>2
<1>8. /\ Len(log') = nextSeq' /\ Len(buffer') <= nextSeq' /\ Len(buffer') <= Capacity
      /\ Len(buffer') < Capacity => Len(buffer') = nextSeq'
  BY <1>1, <1>2, <1>3, <1>4, <1>5, <1>6 DEF CastRing
<1>9. CastRing'
  BY <1>7, <1>8, Zenon DEF CastRing
<1> QED
  BY <1>4, <1>5, <1>9, Zenon

\* send: nobody who waits sleeps on, and everybody's account stays.
LEMMA CastSend ==
    ASSUME Capacity \in Nat \ {0}, CastInv, NEW v \in Values, Send(v) PROVE CastInv'
<1>0. TypeOK /\ CastCount /\ CastRing /\ CastRead /\ CastSleep
  BY Zenon DEF CastInv
<1>1. /\ buffer' \in Seq(Values) /\ log' \in Seq(Values) /\ CastRing'
      /\ \A i \in 1..Len(log) : log'[i] = log[i]
  BY <1>0, CastSendRing, Zenon
<1>2. /\ UNCHANGED <<sendersAlive, receiversAlive, phase, nextToRead, start, got, missed>>
      /\ nextSeq' = nextSeq + 1 /\ waiters' = {} /\ sendersAlive > 0
      /\ awake' = [r \in Receivers |-> awake[r] \/ (r \in waiters /\ phase[r] = "waiting")]
  BY Zenon DEF Send, WakeAll
<1>3. TypeOK'
  BY <1>0, <1>1, <1>2 DEF TypeOK
<1>4. CastCount'
  BY <1>0, <1>2, CastSame, Zenon
<1>5. CastSleep'
  BY <1>0, <1>2, Zenon DEF CastSleep, TypeOK
<1>6. CastRead'
  <2> SUFFICES ASSUME NEW r \in Receivers, phase[r] # "none"
               PROVE  /\ start[r] <= nextToRead[r] /\ nextToRead[r] <= nextSeq'
                      /\ start[r] + Len(got[r]) + missed[r] = nextToRead[r]
                      /\ missed[r] = 0 =>
                             \A i \in 1..Len(got[r]) : got[r][i] = log'[start[r] + i]
                      /\ phase[r] # "closed"
    BY <1>2, Zenon DEF CastRead
  <2>1. /\ start[r] \in Nat /\ nextToRead[r] \in Nat /\ nextSeq \in Nat /\ missed[r] \in Nat
        /\ got[r] \in Seq(Values) /\ sendersAlive \in Nat
    BY <1>0, Zenon DEF TypeOK
  <2>2. /\ start[r] <= nextToRead[r] /\ nextToRead[r] <= nextSeq
        /\ start[r] + Len(got[r]) + missed[r] = nextToRead[r]
        /\ missed[r] = 0 => \A i \in 1..Len(got[r]) : got[r][i] = log[start[r] + i]
        /\ phase[r] # "closed"
    BY <1>0, <1>2, <2>1, SMTT(30) DEF CastRead
  <2>3. ASSUME NEW i \in 1..Len(got[r]) PROVE log'[start[r] + i] = log[start[r] + i]
    <3>0. Len(log) = nextSeq /\ Len(got[r]) \in Nat
      BY <1>0, <2>1 DEF CastRing
    <3>1. start[r] + i \in 1..Len(log)
      BY <2>1, <2>2, <3>0, SMTT(30)
    <3> QED
      BY <1>1, <3>1, Zenon
  <2> QED
    BY <1>2, <2>1, <2>2, <2>3
<1> QED
  BY <1>1, <1>3, <1>4, <1>5, <1>6, Zenon DEF CastInv

\* One poll of recv: the message that is given is the one in the log.
LEMMA CastRecv ==
    ASSUME CastInv, NEW r \in Receivers, Recv(r) PROVE CastInv'
<1>0. TypeOK /\ CastCount /\ CastRing /\ CastRead /\ CastSleep
  BY Zenon DEF CastInv
<1>1. /\ UNCHANGED <<buffer, nextSeq, sendersAlive, receiversAlive, log, start>>
      /\ awake' = [awake EXCEPT ![r] = FALSE]
      /\ phase[r] \in {"idle", "waiting"}
  BY Zenon DEF Recv, inner
<1>2. \/ /\ nextToRead[r] < nextSeq - Len(buffer)
         /\ missed' = [missed EXCEPT ![r] = @ + ((nextSeq - Len(buffer)) - nextToRead[r])]
         /\ nextToRead' = [nextToRead EXCEPT ![r] = nextSeq - Len(buffer)]
         /\ got' = got /\ phase' = [phase EXCEPT ![r] = "idle"] /\ waiters' = waiters
      \/ /\ nextToRead[r] >= nextSeq - Len(buffer) /\ nextToRead[r] < nextSeq
         /\ got' = [got EXCEPT ![r] = Append(@, buffer[nextToRead[r] - (nextSeq - Len(buffer)) + 1])]
         /\ nextToRead' = [nextToRead EXCEPT ![r] = @ + 1]
         /\ missed' = missed /\ phase' = [phase EXCEPT ![r] = "idle"] /\ waiters' = waiters
      \/ /\ nextToRead[r] = nextSeq /\ sendersAlive = 0
         /\ phase' = [phase EXCEPT ![r] = "closed"] /\ waiters' = waiters
         /\ UNCHANGED <<nextToRead, got, missed>>
      \/ /\ nextToRead[r] = nextSeq /\ sendersAlive # 0
         /\ phase' = [phase EXCEPT ![r] = "waiting"] /\ waiters' = waiters \cup {r}
         /\ UNCHANGED <<nextToRead, got, missed>>
  BY Zenon DEF Recv, Lagged, Received, BaseSeq
<1>3. /\ start[r] \in Nat /\ nextToRead[r] \in Nat /\ nextSeq \in Nat /\ missed[r] \in Nat
      /\ got[r] \in Seq(Values) /\ sendersAlive \in Nat /\ buffer \in Seq(Values)
      /\ Len(buffer) <= nextSeq
  BY <1>0, Zenon DEF TypeOK, CastRing
<1>4. /\ start[r] <= nextToRead[r] /\ nextToRead[r] <= nextSeq
      /\ start[r] + Len(got[r]) + missed[r] = nextToRead[r]
      /\ Len(got[r]) \in Nat /\ Len(buffer) \in Nat /\ Len(buffer) <= nextSeq
      /\ start[r] \in Nat /\ nextToRead[r] \in Nat /\ nextSeq \in Nat /\ missed[r] \in Nat
  BY <1>0, <1>1, <1>3 DEF CastRead
<1>a. missed[r] = 0 => \A i \in 1..Len(got[r]) : got[r][i] = log[start[r] + i]
  BY <1>0, <1>1, Zenon DEF CastRead
<1> DEFINE m == buffer[nextToRead[r] - (nextSeq - Len(buffer)) + 1]
<1>5. ASSUME nextToRead[r] >= nextSeq - Len(buffer), nextToRead[r] < nextSeq
      PROVE  m \in Values /\ m = log[nextToRead[r] + 1]
  <2>1. nextToRead[r] - (nextSeq - Len(buffer)) + 1 \in 1..Len(buffer)
    BY <1>3, <1>5
  <2>2. m = log[nextSeq - Len(buffer) + (nextToRead[r] - (nextSeq - Len(buffer)) + 1)]
    BY <1>0, <2>1, Zenon DEF CastRing
  <2>3. nextSeq - Len(buffer) + (nextToRead[r] - (nextSeq - Len(buffer)) + 1) = nextToRead[r] + 1
    BY <1>3
  <2> QED
    BY <1>3, <2>1, <2>2, <2>3, SMTT(30)
<1>6. /\ got' \in [Receivers -> Seq(Values)] /\ nextToRead' \in [Receivers -> Nat]
      /\ missed' \in [Receivers -> Nat]
  <2>1. CASE nextToRead[r] >= nextSeq - Len(buffer) /\ nextToRead[r] < nextSeq
    <3>1. Append(got[r], m) \in Seq(Values)
      BY <1>3, <1>5, <2>1
    <3>2. /\ got' = [got EXCEPT ![r] = Append(got[r], m)] /\ missed' = missed
          /\ nextToRead' = [nextToRead EXCEPT ![r] = nextToRead[r] + 1]
      BY <1>2, <1>3, <2>1, SMTT(30)
    <3> QED
      BY <1>0, <1>3, <3>1, <3>2, SMTT(30) DEF TypeOK
  <2>2. CASE nextToRead[r] < nextSeq - Len(buffer)
    <3>1. /\ nextToRead' = [nextToRead EXCEPT ![r] = nextSeq - Len(buffer)] /\ got' = got
          /\ missed' = [missed EXCEPT ![r] = missed[r] + ((nextSeq - Len(buffer)) - nextToRead[r])]
      BY <1>2, <1>3, <1>4, <2>2, SMTT(30)
    <3>2. /\ nextSeq - Len(buffer) \in Nat
          /\ missed[r] + ((nextSeq - Len(buffer)) - nextToRead[r]) \in Nat
      BY <1>3, <1>4, <2>2, SMTT(30)
    <3> QED
      BY <1>0, <3>1, <3>2, Zenon DEF TypeOK
  <2>3. CASE nextToRead[r] = nextSeq
    <3>1. UNCHANGED <<nextToRead, got, missed>>
      BY <1>2, <1>3, <1>4, <2>3
    <3> QED
      BY <1>0, <3>1, Zenon DEF TypeOK
  <2> QED
    BY <1>3, <1>4, <2>1, <2>2, <2>3, SMTT(30)
<1>7. TypeOK'
  <2>1. phase' \in [Receivers -> {"none", "idle", "waiting", "closed"}] /\ waiters' \in SUBSET Receivers
    BY <1>0, <1>2, Zenon DEF TypeOK
  <2> QED
    BY <1>0, <1>1, <1>6, <2>1, Zenon DEF TypeOK
<1>8. CastCount'
  <2>1. \A q \in Receivers : phase'[q] = "none" <=> phase[q] = "none"
    BY <1>0, <1>1, <1>2, Zenon DEF TypeOK
  <2> QED
    BY <1>0, <1>1, <2>1, CastSame, Zenon
<1>9. CastRing'
  BY <1>0, <1>1, Zenon DEF CastRing
<1>10. CastSleep'
  <2>1. \A q \in Receivers \ {r} : /\ phase'[q] = phase[q] /\ nextToRead'[q] = nextToRead[q]
                                   /\ awake'[q] = awake[q]
    BY <1>0, <1>1, <1>2, Zenon DEF TypeOK
  <2>2. waiters \subseteq waiters'
    BY <1>2, Zenon
  <2>3. phase'[r] = "waiting" => nextToRead'[r] = nextSeq /\ sendersAlive > 0 /\ r \in waiters'
    BY <1>0, <1>2, <1>3, SMTT(30) DEF TypeOK
  <2> QED
    BY <1>0, <1>1, <2>1, <2>2, <2>3, Zenon DEF CastSleep
<1>11. CastRead'
  <2>1. \A q \in Receivers \ {r} : /\ phase'[q] = phase[q] /\ nextToRead'[q] = nextToRead[q]
                                   /\ got'[q] = got[q] /\ missed'[q] = missed[q]
    BY <1>0, <1>1, <1>2, Zenon DEF TypeOK
  <2>2. /\ start[r] <= nextToRead'[r] /\ nextToRead'[r] <= nextSeq
        /\ start[r] + Len(got'[r]) + missed'[r] = nextToRead'[r]
        /\ missed'[r] = 0 => \A i \in 1..Len(got'[r]) : got'[r][i] = log[start[r] + i]
        /\ phase'[r] = "closed" => nextToRead'[r] = nextSeq /\ sendersAlive = 0
    <3>1. CASE nextToRead[r] >= nextSeq - Len(buffer) /\ nextToRead[r] < nextSeq
      <4>1. /\ got'[r] = Append(got[r], m) /\ nextToRead'[r] = nextToRead[r] + 1
            /\ missed'[r] = missed[r] /\ phase'[r] = "idle"
        BY <1>0, <1>2, <1>3, <3>1, SMTT(30) DEF TypeOK
      <4>2. m \in Values /\ m = log[nextToRead[r] + 1]
        BY <1>5, <3>1, Zenon
      <4> HIDE DEF m
      <4>3. /\ Len(got'[r]) = Len(got[r]) + 1
            /\ \A i \in 1..Len(got[r]) : got'[r][i] = got[r][i]
            /\ got'[r][Len(got[r]) + 1] = m
        BY <1>3, <4>1, <4>2, SMTT(30)
      <4>4. ASSUME missed[r] = 0, NEW i \in 1..Len(got'[r])
            PROVE  got'[r][i] = log[start[r] + i]
        <5>1. CASE i = Len(got[r]) + 1
          <6>1. start[r] + i = nextToRead[r] + 1
            BY <1>4, <4>4, <5>1, SMTT(30)
          <6> QED
            BY <4>2, <4>3, <5>1, <6>1, Zenon
        <5>2. CASE i \in 1..Len(got[r])
          BY <1>a, <4>3, <4>4, <5>2, Zenon
        <5> QED
          BY <1>3, <4>3, <5>1, <5>2, SMTT(30)
      <4>5. start[r] <= nextToRead[r] + 1 /\ nextToRead[r] + 1 <= nextSeq
        BY <1>4, <3>1, SMTT(30)
      <4>6. start[r] + (Len(got[r]) + 1) + missed[r] = nextToRead[r] + 1
        <5> DEFINE from == start[r]  read == Len(got[r])  lost == missed[r]  next == nextToRead[r]
        <5>1. from \in Nat /\ read \in Nat /\ lost \in Nat /\ next \in Nat /\ from + read + lost = next
          BY <1>4, Zenon
        <5> HIDE DEF from, read, lost, next
        <5>2. from + (read + 1) + lost = next + 1
          BY <5>1
        <5> QED
          BY <5>2, Zenon DEF from, read, lost, next
      <4> QED
        BY <4>1, <4>3, <4>4, <4>5, <4>6, Zenon
    <3>2. CASE nextToRead[r] < nextSeq - Len(buffer)
      <4>1. /\ got'[r] = got[r] /\ nextToRead'[r] = nextSeq - Len(buffer)
            /\ missed'[r] = missed[r] + ((nextSeq - Len(buffer)) - nextToRead[r])
            /\ phase'[r] = "idle"
        BY <1>0, <1>2, <1>3, <3>2 DEF TypeOK
      <4>2. /\ start[r] <= nextSeq - Len(buffer) /\ nextSeq - Len(buffer) <= nextSeq
            /\ missed[r] + ((nextSeq - Len(buffer)) - nextToRead[r]) # 0
        BY <1>4, <3>2, SMTT(30)
      <4>3. start[r] + Len(got[r]) + (missed[r] + ((nextSeq - Len(buffer)) - nextToRead[r]))
                   = nextSeq - Len(buffer)
        BY <1>4, SMTT(30)
      <4> QED
        BY <4>1, <4>2, <4>3, Zenon
    <3>3. CASE nextToRead[r] = nextSeq
      <4>1. /\ got'[r] = got[r] /\ nextToRead'[r] = nextToRead[r] /\ missed'[r] = missed[r]
            /\ phase'[r] = "closed" => sendersAlive = 0
        BY <1>0, <1>2, <1>3, <3>3 DEF TypeOK
      <4> QED
        BY <1>3, <1>4, <1>a, <3>3, <4>1, Zenon
    <3> QED
      BY <1>3, <1>4, <3>1, <3>2, <3>3
  <2> QED
    BY <1>0, <1>1, <2>1, <2>2 DEF CastRead
<1> QED
  BY <1>7, <1>8, <1>9, <1>10, <1>11, Zenon DEF CastInv

\* A receiver comes or goes.
LEMMA CastReceivers ==
    ASSUME CastInv, NEW r \in Receivers, Subscribe(r) \/ DropReceiver(r)
    PROVE  CastInv'
<1>0. TypeOK /\ CastCount /\ CastRing /\ CastRead /\ CastSleep
  BY Zenon DEF CastInv
<1>1. CASE Subscribe(r)
  <2>1. Subscribed' = Subscribed \cup {r} /\ r \notin Subscribed
    BY <1>0, <1>1, Zenon DEF Subscribe, Subscribed, TypeOK
  <2>2. IsFiniteSet(Subscribed \cup {r}) /\ Cardinality(Subscribed \cup {r}) = Cardinality(Subscribed) + 1
    BY <1>0, <2>1, FS_AddElement, Zenon DEF CastCount
  <2>3. CastCount'
    BY <1>0, <1>1, <2>1, <2>2, Zenon DEF Subscribe, CastCount
  <2>4. TypeOK' /\ CastRing' /\ CastSleep'
    BY <1>0, <1>1, SMTT(30) DEF Subscribe, TypeOK, CastRing, CastSleep
  <2>5. CastRead'
    BY <1>0, <1>1, SMTT(30) DEF Subscribe, TypeOK, CastRead
  <2> QED
    BY <2>3, <2>4, <2>5, Zenon DEF CastInv
<1>2. CASE DropReceiver(r)
  <2>1. Subscribed' = Subscribed \ {r} /\ r \in Subscribed
    BY <1>0, <1>2, Zenon DEF DropReceiver, Subscribed, TypeOK
  <2>2. /\ IsFiniteSet(Subscribed \ {r}) /\ Cardinality(Subscribed \ {r}) = Cardinality(Subscribed) - 1
        /\ Cardinality(Subscribed \ {r}) \in Nat
    BY <1>0, <2>1, FS_RemoveElement, FS_CardinalityType, Zenon DEF CastCount
  <2>3. CastCount' /\ receiversAlive' \in Nat
    BY <1>0, <1>2, <2>1, <2>2, Zenon DEF DropReceiver, CastCount
  <2>4. TypeOK' /\ CastRing' /\ CastSleep'
    BY <1>0, <1>2, <2>3, Zenon DEF DropReceiver, hist, TypeOK, CastRing, CastSleep
  <2>5. CastRead'
    BY <1>0, <1>2, Zenon DEF DropReceiver, hist, TypeOK, CastRead
  <2> QED
    BY <2>3, <2>4, <2>5, Zenon DEF CastInv
<1> QED
  BY <1>1, <1>2, Zenon

\* A sender comes or goes, or a recv() future is dropped.
LEMMA CastHandles ==
    ASSUME CastInv,
           CloneSender \/ DropSender \/ \E r \in Receivers : Cancel(r)
    PROVE  CastInv'
<1>0. TypeOK /\ CastCount /\ CastRing /\ CastRead /\ CastSleep
  BY Zenon DEF CastInv
<1>1. UNCHANGED <<buffer, nextSeq, receiversAlive, nextToRead, log, start, got, missed>>
  BY Zenon DEF CloneSender, DropSender, Cancel, inner, hist
<1>2. CastRing'
  BY <1>0, <1>1, Zenon DEF CastRing
<1>3. CASE CloneSender \/ DropSender
  <2>1. phase' = phase
    BY <1>3, Zenon DEF CloneSender, DropSender
  <2>2. CastCount'
    BY <1>0, <1>1, <2>1, CastSame, Zenon
  <2>3. /\ sendersAlive' \in Nat /\ (sendersAlive = 0 => sendersAlive' = 0)
        /\ \/ waiters' = waiters /\ awake' = awake /\ sendersAlive' > 0
           \/ /\ waiters' = {}
              /\ awake' = [r \in Receivers |-> awake[r] \/ (r \in waiters /\ phase[r] = "waiting")]
    BY <1>0, <1>3, SMTT(30) DEF CloneSender, DropSender, WakeAll, TypeOK
  <2>4. waiters' \in SUBSET Receivers /\ awake' \in [Receivers -> BOOLEAN]
    BY <1>0, <2>3, Zenon DEF TypeOK
  <2>5. TypeOK'
    BY <1>0, <1>1, <2>1, <2>3, <2>4, Zenon DEF TypeOK
  <2>6. CastSleep'
    BY <1>0, <1>1, <2>1, <2>3, Zenon DEF CastSleep, TypeOK
  <2>7. CastRead'
    BY <1>0, <1>1, <2>1, <2>3, Zenon DEF CastRead
  <2> QED
    BY <1>2, <2>2, <2>5, <2>6, <2>7, Zenon DEF CastInv
<1>4. ASSUME NEW r \in Receivers, Cancel(r) PROVE CastInv'
  <2>1. /\ phase' = [phase EXCEPT ![r] = "idle"] /\ phase[r] = "waiting"
        /\ awake' = [awake EXCEPT ![r] = FALSE]
        /\ waiters' = waiters /\ sendersAlive' = sendersAlive
    BY <1>4, Zenon DEF Cancel, inner
  <2>2. \A q \in Receivers : phase'[q] = "none" <=> phase[q] = "none"
    BY <1>0, <2>1, Zenon DEF TypeOK
  <2>3. CastCount'
    BY <1>0, <1>1, <2>2, CastSame, Zenon
  <2>4. TypeOK'
    BY <1>0, <1>1, <2>1, Zenon DEF TypeOK
  <2>5. CastSleep'
    BY <1>0, <1>1, <2>1, Zenon DEF CastSleep, TypeOK
  <2>6. CastRead'
    BY <1>0, <1>1, <2>1, Zenon DEF CastRead, TypeOK
  <2> QED
    BY <1>2, <2>3, <2>4, <2>5, <2>6, Zenon DEF CastInv
<1> QED
  BY <1>3, <1>4, Zenon

\* Every step of the channel keeps its invariant.
LEMMA CastStep ==
    ASSUME Capacity \in Nat \ {0} PROVE CastInv /\ [Next]_vars => CastInv'
<1>1. ASSUME CastInv, Next PROVE CastInv'
  BY <1>1, CastSend, CastRecv, CastReceivers, CastHandles, Zenon DEF Next
<1>2. ASSUME CastInv, UNCHANGED vars PROVE CastInv'
  BY <1>2, Zenon DEF vars, inner, hist, CastInv, TypeOK, CastCount, Subscribed,
              CastRing, CastRead, CastSleep
<1> QED
  BY <1>1, <1>2, Zenon

\* What the invariant says of the channel.
LEMMA CastSafe ==
    ASSUME Capacity \in Nat PROVE CastInv => TypeOK /\ Accounts /\ NoSleep
<1> SUFFICES ASSUME CastInv PROVE Accounts /\ NoSleep
  BY Zenon DEF CastInv
<1>0. TypeOK /\ CastCount /\ CastRing /\ CastRead /\ CastSleep
  BY Zenon DEF CastInv
<1>1. NoSleep
  <2>1. Cardinality(Subscribed) = Cardinality(Subscribed)
    BY Zenon DEF Cardinality, Cardinality
  <2> QED
    BY <1>0, <2>1, Zenon DEF CastCount, CastSleep, NoSleep, Subscribed
<1>2. /\ nextSeq \in Nat /\ Len(buffer) \in Nat /\ Len(log) = nextSeq /\ Len(buffer) <= nextSeq
      /\ buffer \in Seq(Values) /\ log \in Seq(Values)
  BY <1>0 DEF TypeOK, CastRing
<1>3. buffer = SubSeq(log, BaseSeq + 1, nextSeq)
  <2> DEFINE b == nextSeq - Len(buffer)
             s == SubSeq(log, b + 1, nextSeq)
  <2>1. b \in Nat /\ b + 1 \in Int /\ nextSeq \in Int
    BY <1>2
  <2>2. \A i \in (b + 1)..nextSeq : log[i] \in Values
    BY <1>2, <2>1
  <2>3. nextSeq - (b + 1) + 1 = Len(buffer)
    BY <1>2
  <2>4. b + 1 > nextSeq => Len(buffer) = 0
    BY <1>2
  <2> HIDE DEF b
  <2>5. /\ s \in Seq(Values)
        /\ Len(s) = IF b + 1 <= nextSeq THEN nextSeq - (b + 1) + 1 ELSE 0
        /\ \A i \in 1..(nextSeq - (b + 1) + 1) : s[i] = log[(b + 1) + i - 1]
    BY <2>1, <2>2
  <2>6. Len(s) = Len(buffer)
    BY <1>2, <2>1, <2>3, <2>4, <2>5
  <2>7. ASSUME NEW i \in 1..Len(buffer) PROVE buffer[i] = s[i]
    <3>1. s[i] = log[(b + 1) + i - 1]
      BY <2>3, <2>5, Zenon
    <3>2. (b + 1) + i - 1 = b + i
      BY <2>1
    <3> QED
      BY <1>0, <3>1, <3>2, Zenon DEF CastRing, b
  <2>8. buffer = s
    BY <1>2, <2>5, <2>6, <2>7, SameSeq, Zenon
  <2> QED
    BY <2>8, Zenon DEF b, BaseSeq
<1>4. Len(buffer) <= Capacity /\ (nextSeq >= Capacity => Len(buffer) = Capacity)
  BY <1>0, <1>2 DEF CastRing
<1>5. ASSUME NEW r \in Receivers, phase[r] # "none"
      PROVE  /\ Len(got[r]) + missed[r] = nextToRead[r] - start[r]
             /\ missed[r] = 0 => got[r] = SubSeq(log, start[r] + 1, nextToRead[r])
             /\ phase[r] = "closed" => nextToRead[r] = Len(log)
  <2>1. /\ start[r] \in Nat /\ nextToRead[r] \in Nat /\ missed[r] \in Nat
        /\ Len(got[r]) \in Nat /\ got[r] \in Seq(Values)
    BY <1>0 DEF TypeOK
  <2>2. /\ start[r] <= nextToRead[r] /\ nextToRead[r] <= nextSeq
        /\ start[r] + Len(got[r]) + missed[r] = nextToRead[r]
        /\ phase[r] = "closed" => nextToRead[r] = nextSeq
    BY <1>0, <1>5, Zenon DEF CastRead
  <2>3. missed[r] = 0 => \A i \in 1..Len(got[r]) : got[r][i] = log[start[r] + i]
    BY <1>0, <1>5, Zenon DEF CastRead
  <2>4. Len(got[r]) + missed[r] = nextToRead[r] - start[r]
    BY <2>1, <2>2
  <2>5. ASSUME missed[r] = 0 PROVE got[r] = SubSeq(log, start[r] + 1, nextToRead[r])
    <3> DEFINE lo == start[r] + 1
               hi == nextToRead[r]
               s == SubSeq(log, lo, hi)
    <3>1. \A i \in lo..hi : log[i] \in Values
      BY <1>2, <2>1, <2>2
    <3>2. lo \in Int /\ hi \in Int /\ hi - lo + 1 = Len(got[r]) /\ (lo > hi => Len(got[r]) = 0)
      BY <2>1, <2>2, <2>5, SMTT(30)
    <3>3. \A i \in 1..Len(got[r]) : got[r][i] = log[lo + i - 1]
      <4>1. \A i \in 1..Len(got[r]) : start[r] + i = lo + i - 1
        BY <2>1
      <4> QED
        BY <2>3, <2>5, <4>1, Zenon
    <3> HIDE DEF lo, hi
    <3>4. /\ s \in Seq(Values)
          /\ Len(s) = IF lo <= hi THEN hi - lo + 1 ELSE 0
          /\ \A i \in 1..(hi - lo + 1) : s[i] = log[lo + i - 1]
      BY <3>1, <3>2
    <3> HIDE DEF s
    <3>5. Len(s) = Len(got[r])
      BY <3>2, <3>4
    <3>6. got[r] = s
      BY <2>1, <3>2, <3>3, <3>4, <3>5, SameSeq, Zenon
    <3> QED
      BY <3>6, Zenon DEF s, lo, hi
  <2> QED
    BY <1>2, <2>2, <2>4, <2>5, Zenon
<1> QED
  BY <1>1, <1>2, <1>3, <1>4, <1>5, Zenon DEF Accounts

\* However the receivers lag, subscribe and drop: each message is given or counted
\* in a Lagged exactly once, and no receiver sleeps through one or the closing.
THEOREM BroadcastSafe ==
    ASSUME First \in Receivers, Capacity \in Nat \ {0}
    PROVE  Spec => [](TypeOK /\ Accounts /\ NoSleep)
<1>1. Capacity \in Nat
  BY Zenon
<1> QED
  BY <1>1, CastInit, CastStep, CastSafe, PTL DEF Spec

------------------------------------------------------------------------------
(* JoinSet *)

Js == INSTANCE JoinSet WITH Tasks <- Members

JsType ==
    /\ handles \in Seq(Members) /\ joined \in Seq(Members) /\ dropped \in BOOLEAN
    /\ task \in [Members -> {"no", "running", "done"}]
    /\ aborted \in SUBSET Members /\ waiting \in SUBSET Members
    /\ owner \in {"free", "joining", "closing"} /\ at \in Nat /\ awake \in BOOLEAN

\* Handles are of spawned tasks and results of finished ones, all different, and
\* every spawned task of a set that exists has one or the other.
JsOnce ==
    /\ \A i, j \in 1..Len(handles) : i # j => handles[i] # handles[j]
    /\ \A i, j \in 1..Len(joined) : i # j => joined[i] # joined[j]
    /\ \A i \in 1..Len(handles), j \in 1..Len(joined) : handles[i] # joined[j]
    /\ \A i \in 1..Len(handles) : task[handles[i]] # "no"
    /\ \A i \in 1..Len(joined) : task[joined[i]] = "done"
    /\ ~dropped => \A t \in Members : task[t] # "no" =>
                       \/ \E i \in 1..Len(handles) : handles[i] = t
                       \/ \E i \in 1..Len(joined) : joined[i] = t

\* A poll that goes on has left its waker in every handle before `at` or has been
\* woken; a suspended one, in every handle.
JsWaits ==
    /\ owner = "free" => at = 0
    /\ ~awake /\ owner # "free" =>
           \A i \in 1..Len(handles) : at = 0 \/ i < at => handles[i] \in waiting

JsDropped ==
    dropped => /\ handles = <<>> /\ owner = "free"
               /\ \A t \in Members : task[t] = "running" => t \in aborted

JsInv == JsType /\ JsOnce /\ JsWaits /\ JsDropped

\* A new set is empty.
LEMMA JsInit == Js!Init => JsInv
<1> SUFFICES ASSUME Js!Init PROVE JsInv
  BY Zenon
<1>0. handles \in Seq(Members) /\ joined \in Seq(Members)
  BY DEF Js!Init
<1>1. JsType
  BY <1>0, Zenon DEF Js!Init, JsType
<1>2. JsWaits /\ JsDropped
  BY Zenon DEF Js!Init, JsWaits, JsDropped
<1>3. Len(handles) = 0 /\ Len(joined) = 0
  BY Zenon DEF Js!Init
<1>4. JsOnce
  BY <1>3 DEF Js!Init, JsOnce
<1> QED
  BY <1>1, <1>2, <1>4, Zenon DEF JsInv

\* swap_remove takes out one handle and keeps the others, in whatever order.
LEMMA SwapRemoved ==
    ASSUME JsType, JsOnce, NEW i \in 1..Len(handles)
    PROVE  LET s == Js!SwapRemove(i)
           IN  /\ s \in Seq(Members) /\ Len(s) = Len(handles) - 1
               /\ \A k, l \in 1..Len(s) : k # l => s[k] # s[l]
               /\ \A k \in 1..Len(s) : \E l \in 1..Len(handles) : l # i /\ s[k] = handles[l]
               /\ \A l \in 1..Len(handles) : l # i => \E k \in 1..Len(s) : s[k] = handles[l]
<1> DEFINE n == Len(handles)
           h == [handles EXCEPT ![i] = handles[n]]
           s == SubSeq(h, 1, n - 1)
<1>1. handles \in Seq(Members) /\ n \in Nat \ {0} /\ handles[n] \in Members /\ n \in 1..n
  BY DEF JsType
<1>2. \A k \in 1..n : h[k] = IF k = i THEN handles[n] ELSE handles[k]
  BY <1>1
<1>3. \A k \in 1..(n - 1) : h[k] \in Members
  BY <1>1, <1>2
<1> HIDE DEF h
<1>4. /\ s \in Seq(Members) /\ Len(s) = IF 1 <= n - 1 THEN (n - 1) - 1 + 1 ELSE 0
      /\ \A k \in 1..((n - 1) - 1 + 1) : s[k] = h[1 + k - 1]
  BY <1>1, <1>3
<1> HIDE DEF s
<1> HIDE DEF n
<1>a. (n - 1) - 1 + 1 = n - 1 /\ \A k \in 1..(n - 1) : 1 + k - 1 = k
  BY <1>1
<1>5. Len(s) = n - 1 /\ \A k \in 1..(n - 1) : s[k] = h[k]
  BY <1>1, <1>4, <1>a
<1>6. \A k \in 1..Len(s) : s[k] = IF k = i THEN handles[n] ELSE handles[k]
  BY <1>1, <1>2, <1>5
<1>7. \A k, l \in 1..n : k # l => handles[k] # handles[l]
  BY Zenon DEF JsOnce, n
<1>8. ASSUME NEW k \in 1..Len(s), NEW l \in 1..Len(s), k # l PROVE s[k] # s[l]
  BY <1>1, <1>5, <1>6, <1>7, <1>8
<1>9. ASSUME NEW k \in 1..Len(s) PROVE \E l \in 1..n : l # i /\ s[k] = handles[l]
  BY <1>1, <1>5, <1>6, SMTT(30)
<1>10. ASSUME NEW l \in 1..n, l # i PROVE \E k \in 1..Len(s) : s[k] = handles[l]
  <2>1. CASE l = n
    <3>1. i \in 1..Len(s) /\ s[i] = handles[l]
      BY <1>1, <1>5, <1>6, <1>10, <2>1 DEF n
    <3> QED
      BY <3>1, Zenon
  <2>2. CASE l # n
    <3>1. l \in 1..Len(s) /\ s[l] = handles[l]
      BY <1>1, <1>5, <1>6, <1>10, <2>2
    <3> QED
      BY <3>1, Zenon
  <2> QED
    BY <2>1, <2>2, Zenon
<1>11. s = Js!SwapRemove(i)
  BY Zenon DEF s, h, n, Js!SwapRemove
<1> QED
  BY <1>4, <1>5, <1>8, <1>9, <1>10, <1>11, Zenon DEF n

\* A result is returned: its handle becomes a result, and nothing else moves.
LEMMA JsJoined ==
    ASSUME JsInv, at \in 1..Len(handles), task[handles[at]] = "done",
           handles' = Js!SwapRemove(at), joined' = Append(joined, handles[at]),
           owner' = (IF owner = "joining" THEN "free" ELSE owner),
           at' = (IF owner = "joining" THEN 0 ELSE 1),
           UNCHANGED <<waiting, dropped, task, aborted, awake>>
    PROVE  JsInv'
<1>0. JsType /\ JsOnce /\ JsWaits /\ JsDropped
  BY Zenon DEF JsInv
<1> DEFINE t == handles[at]
<1>1. /\ handles' \in Seq(Members) /\ Len(handles') = Len(handles) - 1
      /\ \A k, l \in 1..Len(handles') : k # l => handles'[k] # handles'[l]
      /\ \A k \in 1..Len(handles') : \E l \in 1..Len(handles) : l # at /\ handles'[k] = handles[l]
      /\ \A l \in 1..Len(handles) : l # at => \E k \in 1..Len(handles') : handles'[k] = handles[l]
  BY <1>0, SwapRemoved, ZenonT(30)
<1>2. t \in Members
  BY <1>0 DEF JsType
<1>3. joined \in Seq(Members) /\ handles \in Seq(Members)
  BY <1>0, Zenon DEF JsType
<1>4. /\ joined' \in Seq(Members) /\ Len(joined') = Len(joined) + 1
      /\ \A i \in 1..Len(joined) : joined'[i] = joined[i]
      /\ joined'[Len(joined) + 1] = t
  BY <1>2, <1>3
<1>5. Len(joined) \in Nat /\ Len(joined') \in Nat
  BY <1>3, <1>4
<1>6. \A i \in 1..Len(joined') : i \in 1..Len(joined) \/ i = Len(joined) + 1
  BY <1>4, <1>5
<1>7. JsType'
  BY <1>0, <1>1, <1>4, Zenon DEF JsType
<1>8. JsOnce'
  <2>1. \A i, j \in 1..Len(joined') : i # j => joined'[i] # joined'[j]
    BY <1>0, <1>4, <1>5, <1>6 DEF JsOnce
  <2>2. ASSUME NEW i \in 1..Len(handles'), NEW j \in 1..Len(joined')
        PROVE  handles'[i] # joined'[j]
    <3>1. PICK l \in 1..Len(handles) : l # at /\ handles'[i] = handles[l]
      BY <1>1, Zenon
    <3>2. handles[l] # handles[at]
      BY <1>0, <3>1, Zenon DEF JsOnce
    <3>3. CASE j \in 1..Len(joined)
      BY <1>0, <1>4, <3>1, <3>3 DEF JsOnce
    <3>4. CASE j = Len(joined) + 1
      BY <1>4, <3>1, <3>2, <3>4, Zenon
    <3> QED
      BY <1>6, <3>3, <3>4, Zenon
  <2>3. ASSUME NEW i \in 1..Len(handles') PROVE task[handles'[i]] # "no"
    <3>1. PICK l \in 1..Len(handles) : l # at /\ handles'[i] = handles[l]
      BY <1>1, Zenon
    <3> QED
      BY <1>0, <3>1, Zenon DEF JsOnce
  <2>4. \A i \in 1..Len(joined') : task[joined'[i]] = "done"
    BY <1>0, <1>4, <1>6 DEF JsOnce
  <2>5. ASSUME ~dropped, NEW u \in Members, task[u] # "no"
        PROVE  \/ \E i \in 1..Len(handles') : handles'[i] = u
               \/ \E i \in 1..Len(joined') : joined'[i] = u
    <3>1. CASE u = t
      <4>1. Len(joined) + 1 \in 1..Len(joined')
        BY <1>4, <1>5
      <4> QED
        BY <1>4, <3>1, <4>1, Zenon
    <3>2. ASSUME NEW l \in 1..Len(handles), handles[l] = u, u # t
          PROVE  \E i \in 1..Len(handles') : handles'[i] = u
      BY <1>1, <3>2, Zenon
    <3>3. ASSUME NEW l \in 1..Len(joined), joined[l] = u
          PROVE  \E i \in 1..Len(joined') : joined'[i] = u
      <4>1. l \in 1..Len(joined') /\ joined'[l] = u
        BY <1>4, <1>5, <3>3
      <4> QED
        BY <4>1, Zenon
    <3> QED
      BY <1>0, <2>5, <3>1, <3>2, <3>3, Zenon DEF JsOnce
  <2> QED
    BY <1>1, <2>1, <2>2, <2>3, <2>4, <2>5, Zenon DEF JsOnce
<1>9. JsWaits'
  BY <1>0, <1>1 DEF JsWaits, JsType
<1>10. ~dropped
  BY <1>0 DEF JsDropped
<1> QED
  BY <1>0, <1>7, <1>8, <1>9, <1>10, Zenon DEF JsInv, JsDropped

\* Every step of the set keeps its invariant.
LEMMA JsStep == JsInv /\ [Js!Next]_(Js!vars) => JsInv'
<1> SUFFICES ASSUME JsInv, [Js!Next]_(Js!vars) PROVE JsInv'
  BY Zenon
<1>0. JsType /\ JsOnce /\ JsWaits /\ JsDropped
  BY Zenon DEF JsInv
<1>1. ASSUME NEW t \in Members, Js!Spawn(t) PROVE JsInv'
  <2>1. /\ handles' = Append(handles, t) /\ task' = [task EXCEPT ![t] = "running"]
        /\ task[t] = "no" /\ ~dropped /\ owner = "free"
        /\ UNCHANGED <<dropped, aborted, waiting, owner, at, awake, joined>>
    BY <1>1, Zenon DEF Js!Spawn
  <2>2. /\ handles' \in Seq(Members) /\ Len(handles') = Len(handles) + 1
        /\ \A i \in 1..Len(handles) : handles'[i] = handles[i]
        /\ handles'[Len(handles) + 1] = t
    BY <1>0, <2>1 DEF JsType
  <2>3. Len(handles) \in Nat
    BY <1>0 DEF JsType
  <2>4. \A i \in 1..Len(handles') : i \in 1..Len(handles) \/ i = Len(handles) + 1
    BY <2>2, <2>3
  <2>5. JsType'
    BY <1>0, <2>1, <2>2, Zenon DEF JsType
  <2>6. JsOnce'
    <3>1. \A i \in 1..Len(handles) : handles[i] # t
      BY <1>0, <2>1, Zenon DEF JsOnce
    <3>2. \A i \in 1..Len(joined) : joined[i] # t
      BY <1>0, <2>1, Zenon DEF JsOnce
    <3>3. /\ \A i, j \in 1..Len(handles') : i # j => handles'[i] # handles'[j]
          /\ \A i \in 1..Len(handles'), j \in 1..Len(joined) : handles'[i] # joined[j]
      BY <1>0, <2>2, <2>4, <3>1, <3>2, SMTT(30) DEF JsOnce
    <3>4. /\ \A i \in 1..Len(handles') : task'[handles'[i]] # "no"
          /\ \A i \in 1..Len(joined) : task'[joined[i]] = "done"
      BY <1>0, <2>1, <2>2, <2>4, <3>1, <3>2 DEF JsOnce, JsType
    <3>5. ASSUME NEW u \in Members, task'[u] # "no"
          PROVE  \/ \E i \in 1..Len(handles') : handles'[i] = u
                 \/ \E i \in 1..Len(joined) : joined[i] = u
      <4>1. CASE u = t
        <5>1. Len(handles) + 1 \in 1..Len(handles')
          BY <2>2, <2>3
        <5> QED
          BY <2>2, <4>1, <5>1, Zenon
      <4>2. CASE u # t
        <5>1. task[u] # "no"
          BY <1>0, <2>1, <3>5, <4>2, Zenon DEF JsType
        <5>2. ASSUME NEW i \in 1..Len(handles), handles[i] = u
              PROVE  \E k \in 1..Len(handles') : handles'[k] = u
          <6>1. i \in 1..Len(handles') /\ handles'[i] = u
            BY <2>2, <2>3, <5>2
          <6> QED
            BY <6>1, Zenon
        <5> QED
          BY <1>0, <2>1, <5>1, <5>2, Zenon DEF JsOnce
      <4> QED
        BY <4>1, <4>2, Zenon
    <3> QED
      BY <1>0, <2>1, <3>3, <3>4, <3>5, SMTT(30) DEF JsOnce
  <2>7. JsWaits' /\ JsDropped'
    BY <1>0, <2>1, Zenon DEF JsWaits, JsDropped
  <2> QED
    BY <2>5, <2>6, <2>7, Zenon DEF JsInv
<1>2. ASSUME NEW t \in Members, Js!TaskFinishes(t) PROVE JsInv'
  <2>1. /\ task[t] = "running" /\ task' = [task EXCEPT ![t] = "done"]
        /\ awake' = (awake \/ t \in waiting) /\ waiting' = waiting \ {t}
        /\ UNCHANGED <<handles, dropped, aborted, owner, at, joined>>
    BY <1>2, Zenon DEF Js!TaskFinishes
  <2>2. JsType'
    BY <1>0, <2>1, Zenon DEF JsType
  <2>3. \A u \in Members : task'[u] = "no" <=> task[u] = "no"
    BY <1>0, <2>1, Zenon DEF JsType
  <2>4. /\ \A i \in 1..Len(handles) : handles[i] \in Members
        /\ \A i \in 1..Len(joined) : joined[i] \in Members
    BY <1>0, SMTT(30) DEF JsType
  <2>5. JsOnce'
    <3>1. \A i \in 1..Len(joined) : task'[joined[i]] = "done"
      BY <1>0, <2>1, <2>4, Zenon DEF JsOnce, JsType
    <3> QED
      BY <1>0, <2>1, <2>3, <2>4, <3>1, SMTT(30) DEF JsOnce
  <2>6. JsWaits'
    BY <1>0, <2>1, Zenon DEF JsWaits
  <2>7. JsDropped'
    BY <1>0, <2>1, Zenon DEF JsDropped, JsType
  <2> QED
    BY <2>2, <2>5, <2>6, <2>7, Zenon DEF JsInv
<1>3. CASE Js!PollJoinNext
  <2>1. /\ owner' = (IF owner = "free" THEN "joining" ELSE owner) /\ at' = 1 /\ awake' = FALSE
        /\ ~dropped
        /\ UNCHANGED <<handles, dropped, task, aborted, waiting, joined>>
    BY <1>3, Zenon DEF Js!PollJoinNext
  <2>2. JsType' /\ JsOnce' /\ JsDropped'
    BY <1>0, <2>1, ZenonT(40) DEF JsType, JsOnce, JsDropped
  <2>3. JsWaits'
    BY <2>1 DEF JsWaits
  <2> QED
    BY <2>2, <2>3, Zenon DEF JsInv
<1>4. CASE Js!PollHandle
  <2>1. /\ at \in 1..Len(handles) /\ UNCHANGED <<dropped, task, aborted, awake>>
        /\ \/ /\ task[handles[at]] = "done"
              /\ handles' = Js!SwapRemove(at) /\ joined' = Append(joined, handles[at])
              /\ owner' = (IF owner = "joining" THEN "free" ELSE owner)
              /\ at' = (IF owner = "joining" THEN 0 ELSE 1)
              /\ waiting' = waiting
           \/ /\ waiting' = waiting \cup {handles[at]}
              /\ at' = (IF at = Len(handles) THEN 0 ELSE at + 1)
              /\ UNCHANGED <<handles, joined, owner>>
    BY <1>4, Zenon DEF Js!PollHandle
  <2>2. CASE waiting' = waiting \cup {handles[at]} /\ UNCHANGED <<handles, joined, owner>>
             /\ at' = (IF at = Len(handles) THEN 0 ELSE at + 1)
    <3>1. handles[at] \in Members /\ Len(handles) \in Nat /\ at # 0 /\ at \in Nat
      BY <1>0, <2>1 DEF JsType
    <3>2. JsType' /\ JsOnce' /\ JsDropped'
      BY <1>0, <2>1, <2>2, <3>1 DEF JsType, JsOnce, JsDropped
    <3>3. owner # "free"
      BY <1>0, <3>1, Zenon DEF JsWaits
    <3>4. \A i \in 1..Len(handles) : at' = 0 \/ i < at' => i < at \/ i = at
      BY <2>1, <2>2, <3>1
    <3>5. JsWaits'
      BY <1>0, <2>1, <2>2, <3>1, <3>3, <3>4, Zenon DEF JsWaits
    <3> QED
      BY <3>2, <3>5, Zenon DEF JsInv
  <2> QED
    BY <2>1, <2>2, JsJoined, Zenon
<1>5. CASE Js!PollEmpty \/ Js!Cancel
  <2>1. owner' = "free" /\ at' = 0 /\ UNCHANGED <<handles, dropped, task, aborted, waiting, awake, joined>>
    BY <1>5, Zenon DEF Js!PollEmpty, Js!Cancel
  <2> QED
    BY <1>0, <2>1 DEF JsInv, JsType, JsOnce, JsWaits, JsDropped
<1>6. CASE Js!DropSet
  <2>1. /\ owner = "free" /\ dropped' = TRUE /\ aborted' = aborted \cup Js!Range(handles)
        /\ ~dropped /\ handles' = <<>> /\ UNCHANGED <<task, waiting, owner, at, awake, joined>>
    BY <1>6, Zenon DEF Js!DropSet
  <2>2. Js!Range(handles) = {handles[i] : i \in 1..Len(handles)}
    BY <1>0 DEF Js!Range, JsType
  <2>3. JsType'
    BY <1>0, <2>1, <2>2 DEF JsType
  <2>4. JsWaits'
    BY <1>0, <2>1, Zenon DEF JsWaits
  <2>6. JsOnce'
    <3>1. Len(handles') = 0
      BY <2>1, Zenon
    <3> QED
      BY <1>0, <2>1, <3>1 DEF JsOnce
  <2>5. JsDropped'
    BY <1>0, <2>1, <2>2 DEF JsDropped, JsOnce, JsType
  <2> QED
    BY <2>3, <2>4, <2>5, <2>6, Zenon DEF JsInv
<1>7. ASSUME NEW next \in {"free", "closing"}, Js!AbortAll(next) PROVE JsInv'
  <2>1. /\ ~dropped /\ owner = "free" /\ aborted' = aborted \cup Js!Range(handles)
        /\ owner' = next /\ at' = (IF next = "closing" THEN 1 ELSE 0)
        /\ UNCHANGED <<handles, dropped, task, waiting, awake, joined>>
    BY <1>7, Zenon DEF Js!AbortAll
  <2>2. Js!Range(handles) = {handles[i] : i \in 1..Len(handles)}
    BY <1>0 DEF Js!Range, JsType
  <2>3. JsType'
    BY <1>0, <2>1, <2>2, SMTT(30) DEF JsType
  <2>4. JsOnce' /\ JsWaits' /\ JsDropped'
    BY <1>0, <2>1, SMTT(30) DEF JsOnce, JsWaits, JsDropped
  <2> QED
    BY <2>3, <2>4, Zenon DEF JsInv
<1>8. CASE UNCHANGED Js!vars
  BY <1>0, <1>8 DEF Js!vars, JsInv, JsType, JsOnce, JsWaits, JsDropped
<1> QED
  BY <1>1, <1>2, <1>3, <1>4, <1>5, <1>6, <1>7, <1>8, Zenon DEF Js!Next

\* What the invariant says of the set.
LEMMA JsSafe == JsInv => Js!JoinSetComplete
<1> SUFFICES ASSUME JsInv PROVE Js!JoinSetComplete
  BY Zenon
<1>0. JsType /\ JsOnce /\ JsWaits /\ JsDropped
  BY Zenon DEF JsInv
<1>1. /\ Js!Range(handles) = {handles[i] : i \in 1..Len(handles)}
      /\ Js!Range(joined) = {joined[i] : i \in 1..Len(joined)}
  BY <1>0 DEF Js!Range, JsType
<1>2. \A i, j \in 1..Len(joined) : i # j => joined[i] # joined[j]
  BY <1>0, Zenon DEF JsOnce
<1>3. ASSUME ~dropped, NEW t \in Members, task[t] # "no"
      PROVE  (t \in Js!Range(handles)) # (t \in Js!Range(joined))
  BY <1>0, <1>1, <1>3 DEF JsOnce
<1>4. owner # "free" /\ at = 0 /\ ~awake => Js!Range(handles) \subseteq waiting
  BY <1>0, <1>1, Zenon DEF JsWaits
<1> QED
  BY <1>0, <1>2, <1>3, <1>4, Zenon DEF JsDropped, Js!JoinSetComplete

\* However the members finish between the turns of join_next's loop, every task
\* is returned once, nobody sleeps on a finished one, and a dropped set leaves
\* none running without an abort.
THEOREM JoinSetSafe == Js!Init /\ [][Js!Next]_(Js!vars) => []Js!JoinSetComplete
  BY JsInit, JsStep, JsSafe, PTL

------------------------------------------------------------------------------
(* OnceCell *)

Once == INSTANCE OnceCell

Writing(t) == phase[t] \in {"init", "publish"}

\* What tasks that park and wake each other have in common: the types, and that
\* only a task that is done has wakers to call.
CellType ==
    /\ wakers \in SUBSET Tasks
    /\ phase \in [Tasks -> {"claim", "wait", "parked", "init", "publish", "done"}]
    /\ awake \in [Tasks -> BOOLEAN]
    /\ toWake \in [Tasks -> SUBSET Tasks]
    /\ value \in Tasks \cup {Nothing} /\ got \in [Tasks -> Tasks \cup {Nothing}]
    /\ \A t \in Tasks : phase[t] # "done" => toWake[t] = {}

\* The state says whether somebody writes the value, at most one does, and what
\* was returned is the value of an initialised cell.
OnceWriter ==
    /\ state \in {"Uninit", "Initializing", "Initialized"}
    /\ state = "Initializing" <=> \E t \in Tasks : Writing(t)
    /\ \A t, u \in Tasks : Writing(t) /\ Writing(u) => t = u
    /\ \A t \in Tasks : got[t] # Nothing => state = "Initialized" /\ got[t] = value

OnceInv == CellType /\ OnceWriter /\ Once!NobodyForgotten

\* One waker.wake() after the unlock: the other tasks stay in the hands of the
\* one that will wake them.
LEMMA WakeOne ==
    ASSUME awake \in [Tasks -> BOOLEAN], toWake \in [Tasks -> SUBSET Tasks],
           NEW t \in Tasks, NEW u \in toWake[t],
           toWake' = [toWake EXCEPT ![t] = @ \ {u}],
           awake' = [awake EXCEPT ![u] = phase[u] = "parked"]
    PROVE  /\ awake' \in [Tasks -> BOOLEAN] /\ toWake' \in [Tasks -> SUBSET Tasks]
           /\ u \in Tasks /\ (phase[u] = "parked" => awake'[u])
           /\ \A v \in Tasks : v # u => awake'[v] = awake[v]
           /\ \A v, w \in Tasks : v # u /\ v \in toWake[w] => v \in toWake'[w]
  BY Zenon

\* A new cell has no waiter and no writer.
LEMMA OnceInit == Once!Init => OnceInv
<1> SUFFICES ASSUME Once!Init PROVE OnceInv
  BY Zenon
<1>1. CellType
  BY Zenon DEF Once!Init, CellType
<1> QED
  BY <1>1, Zenon DEF Once!Init, OnceInv, OnceWriter, Writing, Once!NobodyForgotten

\* Every step of the cell keeps the types and the one writer.
LEMMA OnceWriterStep ==
    ASSUME CellType, OnceWriter, NEW t \in Tasks,
           \/ Once!Get(t) \/ Once!Set(t) \/ Once!TryClaim(t) \/ Once!PollWait(t)
           \/ Once!WriteValue(t) \/ Once!Publish(t) \/ Once!Reset(t) \/ Once!Cancel(t)
           \/ Once!Wake(t)
    PROVE  CellType' /\ OnceWriter'
<1> USE DEF Once!Goto, Once!Return, Once!TakeWakers
<1>1. CASE Once!Get(t) \/ Once!Cancel(t) \/ Once!PollWait(t)
  <2>1. CellType'
    <3>1. CASE Once!Get(t) \/ Once!Cancel(t)
      BY <3>1 DEF Once!Get, Once!Cancel, CellType
    <3>2. CASE Once!PollWait(t)
      BY <3>2, Zenon DEF Once!PollWait, CellType
    <3> QED
      BY <1>1, <3>1, <3>2, Zenon
  <2>2. /\ state' = state /\ value' = value /\ \A u \in Tasks : Writing(u)' <=> Writing(u)
        /\ got' = got \/ (got' = [got EXCEPT ![t] = value] /\ state = "Initialized")
    BY <1>1, Zenon DEF Once!Get, Once!Cancel, Once!PollWait, CellType, Writing
  <2>3. OnceWriter'
    BY <2>2, Zenon DEF OnceWriter, CellType
  <2> QED
    BY <2>1, <2>3, Zenon
<1>2. CASE Once!Set(t) \/ Once!TryClaim(t)
  <2>1. CellType'
    BY <1>2, SMTT(30) DEF Once!Set, Once!TryClaim, CellType
  <2>2. OnceWriter'
    BY <1>2, SMTT(30) DEF Once!Set, Once!TryClaim, CellType, OnceWriter, Writing
  <2> QED
    BY <2>1, <2>2, Zenon
<1>3. CASE Once!WriteValue(t) \/ Once!Publish(t) \/ Once!Reset(t)
  <2>1. CellType'
    BY <1>3 DEF Once!WriteValue, Once!Publish, Once!Reset, CellType
  <2>2. OnceWriter'
    BY <1>3,
       ZenonT(40) DEF Once!WriteValue, Once!Publish, Once!Reset, CellType, OnceWriter, Writing
  <2> QED
    BY <2>1, <2>2, Zenon
<1>4. CASE Once!Wake(t)
  <2>1. CellType'
    BY <1>4 DEF Once!Wake, CellType
  <2>2. OnceWriter'
    BY <1>4, Zenon DEF Once!Wake, OnceWriter, Writing
  <2> QED
    BY <2>1, <2>2, Zenon
<1> QED
  BY <1>1, <1>2, <1>3, <1>4, Zenon

\* No step of the cell leaves a parked task that nobody will wake.
LEMMA OnceForgetsNobody ==
    ASSUME OnceInv, NEW t \in Tasks,
           \/ Once!Get(t) \/ Once!Set(t) \/ Once!TryClaim(t) \/ Once!PollWait(t)
           \/ Once!WriteValue(t) \/ Once!Publish(t) \/ Once!Reset(t) \/ Once!Cancel(t)
           \/ Once!Wake(t)
    PROVE  Once!NobodyForgotten'
<1>5. CASE Once!Wake(t)
  <2>1. PICK u \in toWake[t] : /\ toWake' = [toWake EXCEPT ![t] = @ \ {u}]
                              /\ awake' = [awake EXCEPT ![u] = phase[u] = "parked"]
                              /\ wakers' = wakers /\ phase' = phase
    BY <1>5, Zenon DEF Once!Wake
  <2>a. awake \in [Tasks -> BOOLEAN] /\ toWake \in [Tasks -> SUBSET Tasks]
    BY Zenon DEF OnceInv, CellType
  <2>2. /\ u \in Tasks /\ (phase[u] = "parked" => awake'[u])
        /\ \A v \in Tasks : v # u => awake'[v] = awake[v]
        /\ \A v, w \in Tasks : v # u /\ v \in toWake[w] => v \in toWake'[w]
    BY <2>1, <2>a, WakeOne, Zenon
  <2> QED
    BY <2>1, <2>2, Zenon DEF OnceInv, Once!NobodyForgotten
<1> USE DEF Once!Goto, Once!Return, Once!TakeWakers, OnceInv, CellType, Once!NobodyForgotten
<1>1. CASE Once!Get(t) \/ Once!Cancel(t) \/ Once!TryClaim(t) \/ Once!WriteValue(t)
  BY <1>1, Zenon DEF Once!Get, Once!Cancel, Once!TryClaim, Once!WriteValue
<1>2. CASE Once!PollWait(t)
  BY <1>2 DEF Once!PollWait, OnceWriter, Writing
<1>3. CASE Once!Set(t)
  BY <1>3 DEF Once!Set
<1>4. CASE Once!Publish(t) \/ Once!Reset(t)
  <2>1. /\ toWake' = [toWake EXCEPT ![t] = wakers] /\ toWake[t] = {}
        /\ phase' = [phase EXCEPT ![t] = "done"] /\ awake' = awake
    BY <1>4, Zenon DEF Once!Publish, Once!Reset
  <2> QED
    BY <2>1, Zenon
<1> QED
  BY <1>1, <1>2, <1>3, <1>4, <1>5, Zenon

\* Every step of the cell keeps its invariant.
LEMMA OnceStep == OnceInv /\ [Once!Next]_(Once!vars) => OnceInv'
<1>1. ASSUME OnceInv, Once!Next PROVE OnceInv'
  BY <1>1, OnceWriterStep, OnceForgetsNobody, Zenon DEF Once!Next, OnceInv
<1>2. ASSUME OnceInv, UNCHANGED Once!vars PROVE OnceInv'
  BY <1>2,
     Zenon DEF Once!vars, OnceInv, CellType, OnceWriter, Writing, Once!NobodyForgotten
<1> QED
  BY <1>1, <1>2, Zenon

\* What the invariant says of the cell.
LEMMA OnceSafe == OnceInv => Once!OneWriter /\ Once!NobodyForgotten
<1> SUFFICES ASSUME OnceInv PROVE Once!OneWriter
  BY Zenon DEF OnceInv
<1> DEFINE W == {t \in Tasks : phase[t] \in {"init", "publish"}}
<1>1. Once!Cardinality(W) = Cardinality(W)
  BY Zenon DEF Once!Cardinality, Cardinality
<1>2. CASE state = "Initializing"
  <2>1. PICK t \in Tasks : W = {t}
    BY <1>2, Zenon DEF OnceInv, OnceWriter, Writing
  <2>2. Cardinality(W) = 1
    BY <2>1, FS_Singleton, Zenon
  <2> QED
    BY <1>1, <1>2, <2>2, Zenon DEF OnceInv, OnceWriter, Once!OneWriter
<1>3. CASE state # "Initializing"
  <2>1. W = {}
    BY <1>3, Zenon DEF OnceInv, OnceWriter, Writing
  <2>2. Cardinality(W) = 0
    BY <2>1, FS_EmptySet, Zenon
  <2> QED
    BY <1>1, <1>3, <2>2, Zenon DEF OnceInv, OnceWriter, Once!OneWriter
<1> QED
  BY <1>2, <1>3, Zenon

\* get_or_init runs one initialiser at a time, whichever task wins, panics or is
\* dropped, and every call that returns a value returns the one in the cell.
THEOREM OnceCellSafe == Once!Spec => [](Once!OneWriter /\ Once!NobodyForgotten)
  BY OnceInit, OnceStep, OnceSafe, PTL DEF Once!Spec

------------------------------------------------------------------------------
(* SetOnce *)

SetO == INSTANCE SetOnce

SetInv ==
    /\ CellType
    /\ state \in {"Uninit", "Initialized"}
    /\ SetO!NeverOverwritten
    /\ SetO!NobodyForgotten

\* A new cell has no waiter.
LEMMA SetInit == SetO!Init => SetInv
<1> SUFFICES ASSUME SetO!Init PROVE SetInv
  BY Zenon
<1>1. CellType
  BY Zenon DEF SetO!Init, CellType
<1> QED
  BY <1>1, Zenon DEF SetO!Init, SetInv, SetO!NeverOverwritten, SetO!NobodyForgotten

\* Every step of the cell keeps its invariant.
LEMMA SetStep == SetInv /\ [SetO!Next]_(SetO!vars) => SetInv'
<1> SUFFICES ASSUME SetInv, [SetO!Next]_(SetO!vars) PROVE SetInv'
  BY Zenon
<1> USE DEF SetInv, CellType, SetO!NeverOverwritten, SetO!NobodyForgotten
<1>1. ASSUME NEW t \in Tasks, SetO!Set(t) PROVE SetInv'
  BY <1>1 DEF SetO!Set
<1>2. ASSUME NEW t \in Tasks, SetO!Get(t) PROVE SetInv'
  BY <1>2, Zenon DEF SetO!Get
<1>3. ASSUME NEW t \in Tasks, SetO!PollWait(t) PROVE SetInv'
  BY <1>3 DEF SetO!PollWait
<1>4. ASSUME NEW t \in Tasks, SetO!Wake(t) PROVE SetInv'
  <2>1. PICK u \in toWake[t] : /\ toWake' = [toWake EXCEPT ![t] = @ \ {u}]
                              /\ awake' = [awake EXCEPT ![u] = phase[u] = "parked"]
                              /\ UNCHANGED <<state, value, wakers, phase, got>>
    BY <1>4, Zenon DEF SetO!Wake
  <2>2. CellType' /\ SetO!NeverOverwritten'
    BY <2>1, Zenon
  <2>3. /\ u \in Tasks /\ (phase[u] = "parked" => awake'[u])
        /\ \A v \in Tasks : v # u => awake'[v] = awake[v]
        /\ \A v, w \in Tasks : v # u /\ v \in toWake[w] => v \in toWake'[w]
    BY <2>1, WakeOne, Zenon
  <2>4. SetO!NobodyForgotten'
    BY <2>1, <2>3
  <2> QED
    BY <2>1, <2>2, <2>4, Zenon
<1>5. CASE UNCHANGED SetO!vars
  BY <1>5, Zenon DEF SetO!vars
<1> QED
  BY <1>1, <1>2, <1>3, <1>4, <1>5, Zenon DEF SetO!Next

\* set never overwrites a value, and wait leaves nobody behind.
THEOREM SetOnceSafe == SetO!Spec => [](SetO!NeverOverwritten /\ SetO!NobodyForgotten)
<1>1. SetInv => SetO!NeverOverwritten /\ SetO!NobodyForgotten
  BY Zenon DEF SetInv
<1> QED
  BY <1>1, SetInit, SetStep, PTL DEF SetO!Spec

------------------------------------------------------------------------------
(* Barrier *)

Bar == INSTANCE Barrier

BarType ==
    /\ arrived \in Nat /\ generation \in 0..MaxRounds
    /\ wakers \in SUBSET Tasks
    /\ phase \in [Tasks -> {"idle", "arrived", "parked"}]
    /\ mine \in [Tasks -> 0..MaxRounds]
    /\ awake \in [Tasks -> BOOLEAN]
    /\ toWake \in [Tasks -> SUBSET Tasks]
    /\ leaders \in [0..MaxRounds -> Nat] /\ arrivals \in [0..MaxRounds -> Nat]

BarInv == BarType /\ Bar!RoundsExact /\ Bar!NobodyForgotten

\* A new barrier is in round 0, with nobody there; new asserts that n > 0.
LEMMA BarInit == ASSUME N \in Nat, MaxRounds \in Nat PROVE Bar!Init => BarInv
<1> SUFFICES ASSUME Bar!Init PROVE BarInv
  BY Zenon
<1>1. BarType
  BY DEF Bar!Init, BarType, Bar!Rounds
<1>2. Bar!RoundsExact
  BY DEF Bar!Init, Bar!RoundsExact, Bar!Rounds
<1>3. Bar!NobodyForgotten
  BY Zenon DEF Bar!Init, Bar!NobodyForgotten
<1> QED
  BY <1>1, <1>2, <1>3, Zenon DEF BarInv

\* Every step of the barrier keeps its invariant.
LEMMA BarStep ==
    ASSUME N \in Nat, MaxRounds \in Nat PROVE BarInv /\ [Bar!Next]_(Bar!vars) => BarInv'
<1> SUFFICES ASSUME BarInv, [Bar!Next]_(Bar!vars) PROVE BarInv'
  BY Zenon
<1> USE DEF BarInv, BarType
<1>1. ASSUME NEW t \in Tasks, Bar!Arrive(t), arrived + 1 = N PROVE BarInv'
  <2>1. /\ arrivals' = [arrivals EXCEPT ![generation] = @ + 1]
        /\ leaders' = [leaders EXCEPT ![generation] = @ + 1]
        /\ arrived' = 0 /\ generation' = generation + 1 /\ generation < MaxRounds
    BY <1>1, Zenon DEF Bar!Arrive
  <2>2. /\ wakers' = {} /\ toWake' = [toWake EXCEPT ![t] = wakers] /\ toWake[t] = {}
        /\ phase' = phase /\ mine' = mine /\ awake' = awake
    BY <1>1, Zenon DEF Bar!Arrive
  <2>3. BarType'
    <3>1. generation' \in 0..MaxRounds /\ arrived' \in Nat
      BY <2>1
    <3>2. leaders' \in [0..MaxRounds -> Nat]
      BY <2>1, SMTT(30)
    <3>4. arrivals' \in [0..MaxRounds -> Nat]
      BY <2>1, SMTT(30)
    <3>3. /\ toWake' \in [Tasks -> SUBSET Tasks] /\ mine' \in [Tasks -> 0..MaxRounds]
          /\ phase' \in [Tasks -> {"idle", "arrived", "parked"}]
      BY <2>2, Zenon
    <3> QED
      BY <2>2, <3>1, <3>2, <3>3, <3>4, Zenon
  <2>4. Bar!RoundsExact'
    BY <1>1, <2>1, SMTT(30) DEF Bar!RoundsExact, Bar!Rounds
  <2>5. Bar!NobodyForgotten'
    BY <2>2, Zenon DEF Bar!NobodyForgotten
  <2> QED
    BY <2>3, <2>4, <2>5, Zenon
<1>2. ASSUME NEW t \in Tasks, Bar!Arrive(t), arrived + 1 # N PROVE BarInv'
  <2>1. /\ arrivals' = [arrivals EXCEPT ![generation] = @ + 1]
        /\ arrived' = arrived + 1 /\ generation' = generation /\ leaders' = leaders
    BY <1>2, Zenon DEF Bar!Arrive
  <2>2. /\ wakers' = wakers /\ toWake' = toWake /\ awake' = awake
        /\ mine' = [mine EXCEPT ![t] = generation] /\ phase' = [phase EXCEPT ![t] = "arrived"]
    BY <1>2, Zenon DEF Bar!Arrive
  <2>3. BarType'
    <3>1. generation' \in 0..MaxRounds /\ arrived' \in Nat
      BY <2>1
    <3>2. leaders' \in [0..MaxRounds -> Nat]
      BY <2>1, Zenon
    <3>4. arrivals' \in [0..MaxRounds -> Nat]
      BY <2>1, SMTT(30)
    <3>3. /\ toWake' \in [Tasks -> SUBSET Tasks] /\ mine' \in [Tasks -> 0..MaxRounds]
          /\ phase' \in [Tasks -> {"idle", "arrived", "parked"}]
      BY <2>2, Zenon
    <3> QED
      BY <2>2, <3>1, <3>2, <3>3, <3>4, Zenon
  <2>4. Bar!RoundsExact'
    BY <1>2, <2>1, SMTT(30) DEF Bar!RoundsExact, Bar!Rounds
  <2>5. Bar!NobodyForgotten'
    BY <2>1, <2>2, Zenon DEF Bar!NobodyForgotten
  <2> QED
    BY <2>3, <2>4, <2>5, Zenon
<1>3. ASSUME NEW t \in Tasks, Bar!PollWait(t) \/ Bar!Cancel(t) PROVE BarInv'
  <2>1. UNCHANGED <<arrived, generation, mine, toWake, leaders, arrivals>>
    BY <1>3, Zenon DEF Bar!PollWait, Bar!Cancel
  <2>2. Bar!RoundsExact'
    BY <2>1, Zenon DEF Bar!RoundsExact
  <2>3. BarType'
    BY <1>3, <2>1, Zenon DEF Bar!PollWait, Bar!Cancel
  <2>4. /\ \A u \in Tasks \ {t} : phase'[u] = phase[u] /\ awake'[u] = awake[u]
        /\ phase'[t] = "parked" => mine[t] = generation /\ t \in wakers'
        /\ wakers \subseteq wakers'
    BY <1>3, Zenon DEF Bar!PollWait, Bar!Cancel
  <2>5. Bar!NobodyForgotten'
    BY <2>1, <2>4, Zenon DEF Bar!NobodyForgotten
  <2> QED
    BY <2>2, <2>3, <2>5, Zenon
<1>4. ASSUME NEW t \in Tasks, Bar!Wake(t) PROVE BarInv'
  <2>1. PICK u \in toWake[t] :
           /\ toWake' = [toWake EXCEPT ![t] = @ \ {u}]
           /\ awake' = [awake EXCEPT ![u] = phase[u] = "parked"]
           /\ UNCHANGED <<arrived, generation, wakers, phase, mine, leaders, arrivals>>
    BY <1>4, Zenon DEF Bar!Wake
  <2>2. BarType' /\ Bar!RoundsExact'
    BY <2>1, Zenon DEF Bar!RoundsExact
  <2>3. /\ u \in Tasks /\ (phase[u] = "parked" => awake'[u])
        /\ \A v \in Tasks : v # u => awake'[v] = awake[v]
        /\ \A v, w \in Tasks : v # u /\ v \in toWake[w] => v \in toWake'[w]
    BY <2>1, WakeOne, Zenon
  <2>4. Bar!NobodyForgotten'
    BY <2>1, <2>3, SMTT(30) DEF Bar!NobodyForgotten
  <2> QED
    BY <2>2, <2>4, Zenon
<1>5. CASE UNCHANGED Bar!vars
  BY <1>5, Zenon DEF Bar!vars, Bar!RoundsExact, Bar!NobodyForgotten
<1> QED
  BY <1>1, <1>2, <1>3, <1>4, <1>5, Zenon DEF Bar!Next

\* Every round of a barrier of n > 0 counts n calls and has one leader, and no
\* task sleeps through the end of its round.
THEOREM BarrierSafe ==
    ASSUME N \in Nat, MaxRounds \in Nat
    PROVE  Bar!Spec => [](Bar!RoundsExact /\ Bar!NobodyForgotten)
<1>1. BarInv => Bar!RoundsExact /\ Bar!NobodyForgotten
  BY Zenon DEF BarInv
<1> QED
  BY <1>1, BarInit, BarStep, PTL DEF Bar!Spec

------------------------------------------------------------------------------
(* Oneshot *)

One == INSTANCE Oneshot

\* What the slot says of the sender and the receiver.
OneSlot ==
    /\ sendOk => sender \in {"sent", "dropped"}
    /\ slot = "Value" => sendOk
    /\ sender = "refused" => slot = "Closed"
    /\ slot = "Closed" /\ phase \in {"idle", "waiting"} => ~sendOk /\ sender = "dropped"
    /\ slot = "Waiting" => phase = "waiting"
    /\ phase \in {"value", "error", "dropped"} => slot = "Closed"
    /\ slot \in {"Empty", "Waiting"} => sender = "live"

OneInv == One!TypeOK /\ OneSlot /\ One!Delivers

\* A new channel is empty, with a live sender and an idle receiver.
LEMMA OneInit == One!Init => OneInv
  BY Zenon DEF One!Init, OneInv, One!TypeOK, OneSlot, One!Delivers

\* Every step of the channel keeps its invariant.
LEMMA OneStep == OneInv /\ [One!Next]_(One!vars) => OneInv'
<1> SUFFICES ASSUME OneInv, [One!Next]_(One!vars) PROVE OneInv'
  BY Zenon
<1> USE DEF OneInv
<1>1. CASE One!Send
  <2>1. One!TypeOK'
    BY <1>1, Zenon DEF One!Send, One!TypeOK, One!WakeOld
  <2>2. OneSlot'
    BY <1>1 DEF One!Send, One!TypeOK, OneSlot, One!Delivers
  <2>3. One!Delivers'
    BY <1>1, Zenon DEF One!Send, One!TypeOK, OneSlot, One!Delivers, One!WakeOld
  <2> QED
    BY <2>1, <2>2, <2>3, Zenon
<1>2. CASE One!DropSender
  <2>1. One!TypeOK'
    BY <1>2, Zenon DEF One!DropSender, One!TypeOK, One!WakeOld
  <2>2. OneSlot'
    BY <1>2, Zenon DEF One!DropSender, One!TypeOK, OneSlot, One!Delivers
  <2>3. One!Delivers'
    <3>1. sender' = "dropped" /\ sendOk' = sendOk /\ phase' = phase
      BY <1>2, Zenon DEF One!DropSender
    <3>2. CASE slot \in {"Empty", "Waiting"}
      <4>1. slot' = "Closed" /\ (phase = "waiting" => awake') /\ ~sendOk
        BY <1>2, <3>2, Zenon DEF One!DropSender, One!WakeOld, One!TypeOK, OneSlot, One!Delivers
      <4> QED
        BY <3>1, <4>1, Zenon DEF One!Delivers
    <3>3. CASE slot \notin {"Empty", "Waiting"}
      BY <1>2, <3>1, <3>3, SMTT(30) DEF One!DropSender, One!Delivers
    <3> QED
      BY <3>2, <3>3, Zenon
  <2> QED
    BY <2>1, <2>2, <2>3, Zenon
<1>3. CASE One!Poll
  <2>1. One!TypeOK'
    BY <1>3, Zenon DEF One!Poll, One!TypeOK, One!WakeOld
  <2>2. OneSlot'
    BY <1>3, Zenon DEF One!Poll, One!TypeOK, OneSlot, One!Delivers
  <2>3. One!Delivers'
    BY <1>3, Zenon DEF One!Poll, One!TypeOK, OneSlot, One!Delivers, One!WakeOld
  <2> QED
    BY <2>1, <2>2, <2>3, Zenon
<1>4. CASE One!DropReceiver
  <2>1. One!TypeOK'
    BY <1>4, Zenon DEF One!DropReceiver, One!TypeOK, One!WakeOld
  <2>2. OneSlot'
    BY <1>4, Zenon DEF One!DropReceiver, One!TypeOK, OneSlot, One!Delivers
  <2>3. One!Delivers'
    BY <1>4, Zenon DEF One!DropReceiver, One!TypeOK, OneSlot, One!Delivers, One!WakeOld
  <2> QED
    BY <2>1, <2>2, <2>3, Zenon
<1>5. CASE UNCHANGED One!vars
  BY <1>5, Zenon DEF One!vars, One!TypeOK, OneSlot, One!Delivers
<1> QED
  BY <1>1, <1>2, <1>3, <1>4, <1>5, Zenon DEF One!Next

\* RecvError means that send was never called, a value that send accepted is
\* kept for a receiver that exists, and a receiver sleeps only while the sender
\* is there to wake it.
THEOREM OneshotSafe == One!Spec => [](One!TypeOK /\ One!Delivers)
<1>1. OneInv => One!TypeOK /\ One!Delivers
  BY Zenon DEF OneInv
<1> QED
  BY <1>1, OneInit, OneStep, PTL DEF One!Spec

------------------------------------------------------------------------------
(* Watch *)

Wat == INSTANCE Watch

Alive == {r \in Receivers : phase[r] # "none"}

\* receivers_alive counts the receivers.
WatCount == IsFiniteSet(Alive) /\ receiversAlive = Cardinality(Alive)

\* A registered future of an open channel without news is in the list, nobody
\* has seen more than there is, and an idle receiver has no registration.
WatList ==
    \A r \in Receivers :
        /\ registered[r] <=> phase[r] = "waiting"
        /\ registered[r] /\ seen[r] = version /\ senderAlive => r \in wakers
        /\ seen[r] <= version
        /\ phase[r] = "waiting" /\ ~awake[r] => seen[r] = version /\ senderAlive
        /\ phase[r] = "closed" => ~senderAlive /\ seen[r] = version

WatInv == Wat!TypeOK /\ WatCount /\ WatList

\* A new channel has one receiver, which has seen the initial value.
LEMMA WatInit == ASSUME First \in Receivers PROVE Wat!Init => WatInv
<1> SUFFICES ASSUME Wat!Init PROVE WatInv
  BY Zenon
<1>1. Alive = {First}
  BY Zenon DEF Wat!Init, Alive
<1>2. WatCount
  BY <1>1, FS_Singleton, Zenon DEF Wat!Init, WatCount
<1>3. Wat!TypeOK
  BY Zenon DEF Wat!Init, Wat!TypeOK
<1>4. WatList
  BY SMTT(30) DEF Wat!Init, WatList
<1> QED
  BY <1>2, <1>3, <1>4, Zenon DEF WatInv

\* A step after which the same receivers exist keeps their count.
LEMMA WatSame ==
    ASSUME WatCount, receiversAlive' = receiversAlive,
           \A r \in Receivers : phase'[r] = "none" <=> phase[r] = "none"
    PROVE  WatCount'
<1>1. Alive' = Alive
  BY Zenon DEF Alive
<1> QED
  BY <1>1, Zenon DEF WatCount

\* Every step of the channel keeps its invariant.
LEMMA WatStep == WatInv /\ [Wat!Next]_(Wat!vars) => WatInv'
<1> SUFFICES ASSUME WatInv, [Wat!Next]_(Wat!vars) PROVE WatInv'
  BY Zenon
<1> USE DEF WatInv, Wat!TypeOK
<1>1. ASSUME NEW modify \in BOOLEAN, Wat!Send(modify) \/ Wat!DropSender PROVE WatInv'
  <2>1. phase' = phase /\ receiversAlive' = receiversAlive
    BY <1>1, Zenon DEF Wat!Send, Wat!DropSender
  <2>2. WatCount'
    BY <2>1, WatSame, Zenon
  <2>3. Wat!TypeOK'
    <3>1. wakers' = {} /\ awake' \in [Receivers -> BOOLEAN]
      <4>1. Wat!WakeAll
        BY <1>1, Zenon DEF Wat!Send, Wat!DropSender
      <4> QED
        BY <4>1, Zenon DEF Wat!WakeAll
    <3>2. version' \in Nat /\ UNCHANGED <<seen, registered>>
      BY <1>1 DEF Wat!Send, Wat!DropSender
    <3>3. senderAlive' = senderAlive \/ senderAlive' = FALSE
      BY <1>1, Zenon DEF Wat!Send, Wat!DropSender
    <3> QED
      BY <2>1, <3>1, <3>2, <3>3, Zenon
  <2>4. WatList'
    <3>1. /\ seen' = seen /\ registered' = registered
          /\ \/ version' = version + 1 /\ senderAlive' = senderAlive /\ senderAlive
             \/ version' = version /\ senderAlive' = FALSE
      BY <1>1, Zenon DEF Wat!Send, Wat!DropSender
    <3>2. \A r \in Receivers : phase[r] = "waiting" /\ ~awake'[r] => ~awake[r] /\ r \notin wakers
      BY <1>1, Zenon DEF Wat!Send, Wat!DropSender, Wat!WakeAll
    <3> QED
      BY <2>1, <3>1, <3>2, SMTT(30) DEF WatList
  <2> QED
    BY <2>2, <2>3, <2>4, Zenon
<1>2. ASSUME NEW r \in Receivers, Wat!BorrowAndUpdate(r) \/ Wat!Cancel(r) PROVE WatInv'
  <2>1. /\ receiversAlive' = receiversAlive
        /\ \A q \in Receivers : phase'[q] = "none" <=> phase[q] = "none"
    BY <1>2, Zenon DEF Wat!BorrowAndUpdate, Wat!Cancel
  <2>2. WatCount'
    BY <2>1, WatSame, Zenon
  <2>3. Wat!TypeOK'
    BY <1>2, Zenon DEF Wat!BorrowAndUpdate, Wat!Cancel
  <2>4. WatList'
    BY <1>2, SMTT(30) DEF Wat!BorrowAndUpdate, Wat!Cancel, WatList
  <2> QED
    BY <2>2, <2>3, <2>4, Zenon
<1>3. ASSUME NEW r \in Receivers, Wat!Changed(r) PROVE WatInv'
  <2>1. /\ receiversAlive' = receiversAlive
        /\ \A q \in Receivers : phase'[q] = "none" <=> phase[q] = "none"
    BY <1>3, Zenon DEF Wat!Changed
  <2>2. WatCount'
    BY <2>1, WatSame, Zenon
  <2>3. Wat!TypeOK'
    BY <1>3, ZenonT(30) DEF Wat!Changed
  <2>4. WatList'
    BY <1>3 DEF Wat!Changed, WatList
  <2> QED
    BY <2>2, <2>3, <2>4, Zenon
<1>4. ASSUME NEW r \in Receivers, NEW q \in Receivers, Wat!Clone(r, q) PROVE WatInv'
  <2>1. Alive' = Alive \cup {q} /\ q \notin Alive
    BY <1>4, Zenon DEF Wat!Clone, Alive
  <2>2. IsFiniteSet(Alive \cup {q}) /\ Cardinality(Alive \cup {q}) = Cardinality(Alive) + 1
    BY <2>1, FS_AddElement, Zenon DEF WatCount
  <2>3. WatCount'
    BY <1>4, <2>1, <2>2, ZenonT(40) DEF Wat!Clone, WatCount
  <2>4. Wat!TypeOK' /\ WatList'
    BY <1>4 DEF Wat!Clone, WatList
  <2> QED
    BY <2>3, <2>4, Zenon
<1>5. ASSUME NEW r \in Receivers, Wat!DropReceiver(r) PROVE WatInv'
  <2>1. Alive' = Alive \ {r} /\ r \in Alive
    BY <1>5, Zenon DEF Wat!DropReceiver, Alive
  <2>2. /\ IsFiniteSet(Alive \ {r}) /\ Cardinality(Alive \ {r}) = Cardinality(Alive) - 1
        /\ Cardinality(Alive \ {r}) \in Nat
    BY <2>1, FS_RemoveElement, FS_CardinalityType, Zenon DEF WatCount
  <2>3. WatCount' /\ receiversAlive' \in Nat
    BY <1>5, <2>1, <2>2, Zenon DEF Wat!DropReceiver, WatCount
  <2>4. Wat!TypeOK' /\ WatList'
    BY <1>5, <2>3, Zenon DEF Wat!DropReceiver, WatList
  <2> QED
    BY <2>3, <2>4, Zenon
<1>6. CASE UNCHANGED Wat!vars
  BY <1>6, Zenon DEF Wat!vars, WatCount, WatList, Alive
<1> QED
  BY <1>1, <1>2, <1>3, <1>4, <1>5, <1>6, Zenon DEF Wat!Next

\* What the invariant says of the channel.
LEMMA WatSafe == WatInv => Wat!TypeOK /\ Wat!NoMissedChange
<1>1. Wat!Cardinality(Alive) = Cardinality(Alive)
  BY Zenon DEF Wat!Cardinality, Cardinality
<1> QED
  BY <1>1, Zenon DEF WatInv, WatCount, WatList, Wat!NoMissedChange, Alive

\* The "real lost wakeup" of watch.rs cannot happen, and changed() fails only
\* for a receiver that has seen the last change, for any set of receivers.
THEOREM WatchSafe ==
    ASSUME First \in Receivers PROVE Wat!Spec => [](Wat!TypeOK /\ Wat!NoMissedChange)
  BY WatInit, WatStep, WatSafe, PTL DEF Wat!Spec

==============================================================================
