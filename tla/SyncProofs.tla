----------------------------- MODULE SyncProofs -----------------------------
(***************************************************************************)
(* The invariants of the components lifted to the composition that TLC     *)
(* checks: a step of MCSync is a step of the component that `part` names,  *)
(* so the properties of the run hold for any tasks, receivers, capacities  *)
(* and bounds.                                                             *)
(***************************************************************************)
EXTENDS MCSync, TLAPS

\* The inductive invariant of whichever component runs.
SyncInv ==
    /\ part = "mutex" => Lock!MutexInv
    /\ part = "rwlock" => Lock!RwInv
    /\ part = "semaphore" => Lock!SemInv
    /\ part = "notify" => Lock!NtInv
    /\ part = "once" => Rend!OnceInv
    /\ part = "setonce" => Rend!SetInv
    /\ part = "barrier" => Rend!BarInv
    /\ part = "oneshot" => Rend!OneInv
    /\ part = "watch" => Rend!WatInv
    /\ part = "broadcast" => Rend!CastInv
    /\ part = "mpsc" => Bnd!MpInv
    /\ part = "unbounded" => Unb!MpInv
    /\ part = "joinset" => Rend!JsInv

\* Whichever component is made, it starts in its invariant.
LEMMA SyncInit == Init => SyncInv
  BY SizesAssumption, Lock!MutexInit, Lock!RwInit, Lock!SemInit, Lock!NtInit,
     Rend!OnceInit, Rend!SetInit, Rend!BarInit, Rend!OneInit, Rend!WatInit,
     Rend!CastInit, Bnd!MpInit, Unb!MpInit, Rend!JsInit, ZenonT(40) DEF Init, SyncInv

\* A step that changes nothing leaves every variable alone.
LEMMA Still ==
    ASSUME UNCHANGED vars
    PROVE  /\ part' = part /\ x1' = x1 /\ x2' = x2 /\ x3' = x3 /\ x4' = x4
           /\ x5' = x5 /\ x6' = x6 /\ x7' = x7 /\ x8' = x8 /\ x9' = x9
           /\ x10' = x10 /\ x11' = x11 /\ x12' = x12 /\ x13' = x13
           /\ x14' = x14 /\ x15' = x15
  BY ZenonT(40) DEF vars, from6, from7, from8, from9, from10, from12, from13, from15

\* The component stays the one that was made, and a step is one of its steps or
\* leaves its variables alone.
LEMMA StepAlone ==
    ASSUME [Next]_vars
    PROVE  /\ part' = "mutex" => part = "mutex" /\ [Lock!Mutex!Next]_(Lock!Mutex!vars)
           /\ part' = "rwlock" => part = "rwlock" /\ [Lock!Rw!Next]_(Lock!Rw!vars)
           /\ part' = "semaphore" => part = "semaphore" /\ [Lock!Next]_(Lock!vars)
           /\ part' = "notify" => part = "notify" /\ [Lock!Nt!Next]_(Lock!Nt!vars)
           /\ part' = "once" => part = "once" /\ [Rend!Once!Next]_(Rend!Once!vars)
           /\ part' = "setonce" => part = "setonce" /\ [Rend!SetO!Next]_(Rend!SetO!vars)
           /\ part' = "barrier" => part = "barrier" /\ [Rend!Bar!Next]_(Rend!Bar!vars)
           /\ part' = "oneshot" => part = "oneshot" /\ [Rend!One!Next]_(Rend!One!vars)
           /\ part' = "watch" => part = "watch" /\ [Rend!Wat!Next]_(Rend!Wat!vars)
           /\ part' = "broadcast" => part = "broadcast" /\ [Rend!Next]_(Rend!vars)
           /\ part' = "mpsc" => part = "mpsc" /\ [Bnd!Next]_(Bnd!vars)
           /\ part' = "unbounded" => part = "unbounded" /\ [Unb!Next]_(Unb!vars)
           /\ part' = "joinset" => part = "joinset" /\ [Rend!Js!Next]_(Rend!Js!vars)
<1> USE Still DEF Next, OnMutex, OnRw, OnSem, OnNt, OnOnce, OnSetO, OnBar,
   OnOne, OnWat, OnCast, OnBnd, OnUnb, OnLs, OnJs, OnAm
<1>1. part' = "mutex" => part = "mutex" /\ [Lock!Mutex!Next]_(Lock!Mutex!vars)
  BY ZenonT(40) DEF Lock!Mutex!vars
<1>2. part' = "rwlock" => part = "rwlock" /\ [Lock!Rw!Next]_(Lock!Rw!vars)
  BY ZenonT(40) DEF Lock!Rw!vars
<1>3. part' = "semaphore" => part = "semaphore" /\ [Lock!Next]_(Lock!vars)
  BY ZenonT(40) DEF Lock!vars
<1>4. part' = "notify" => part = "notify" /\ [Lock!Nt!Next]_(Lock!Nt!vars)
  BY ZenonT(40) DEF Lock!Nt!vars
<1>5. part' = "once" => part = "once" /\ [Rend!Once!Next]_(Rend!Once!vars)
  BY ZenonT(40) DEF Rend!Once!vars
<1>6. part' = "setonce" => part = "setonce" /\ [Rend!SetO!Next]_(Rend!SetO!vars)
  BY ZenonT(40) DEF Rend!SetO!vars
<1>7. part' = "barrier" => part = "barrier" /\ [Rend!Bar!Next]_(Rend!Bar!vars)
  BY ZenonT(40) DEF Rend!Bar!vars
<1>8. part' = "oneshot" => part = "oneshot" /\ [Rend!One!Next]_(Rend!One!vars)
  BY ZenonT(40) DEF Rend!One!vars
<1>9. part' = "watch" => part = "watch" /\ [Rend!Wat!Next]_(Rend!Wat!vars)
  BY ZenonT(40) DEF Rend!Wat!vars
<1>10. part' = "broadcast" => part = "broadcast" /\ [Rend!Next]_(Rend!vars)
  BY ZenonT(40) DEF Rend!vars, Rend!inner, Rend!hist
<1>11. part' = "mpsc" => part = "mpsc" /\ [Bnd!Next]_(Bnd!vars)
  BY ZenonT(40) DEF Bnd!vars, Bnd!txVars, Bnd!rxVars, Bnd!hist
<1>12. part' = "unbounded" => part = "unbounded" /\ [Unb!Next]_(Unb!vars)
  BY ZenonT(40) DEF Unb!vars, Unb!txVars, Unb!rxVars, Unb!hist
<1>13. part' = "joinset" => part = "joinset" /\ [Rend!Js!Next]_(Rend!Js!vars)
  BY ZenonT(40) DEF Rend!Js!vars
<1> QED
  BY <1>1, <1>2, <1>3, <1>4, <1>5, <1>6, <1>7, <1>8, <1>9, <1>10, <1>11,
     <1>12, <1>13, ZenonT(40)

\* No step breaks the invariant of the component that runs.
LEMMA SyncStep == SyncInv /\ [Next]_vars => SyncInv'
<1> SUFFICES ASSUME SyncInv, [Next]_vars PROVE SyncInv'
  BY ZenonT(40)
<1> USE StepAlone DEF SyncInv
<1>1. /\ part' = "mutex" => Lock!MutexInv'
      /\ part' = "rwlock" => Lock!RwInv'
  BY Lock!MutexStep, Lock!RwStep, ZenonT(40)
<1>2. /\ part' = "semaphore" => Lock!SemInv'
      /\ part' = "notify" => Lock!NtInv'
  BY SizesAssumption, Lock!SemStep, Lock!NtStep, ZenonT(40)
<1>3. /\ part' = "once" => Rend!OnceInv'
      /\ part' = "setonce" => Rend!SetInv'
      /\ part' = "barrier" => Rend!BarInv'
      /\ part' = "oneshot" => Rend!OneInv'
  BY SizesAssumption, Rend!OnceStep, Rend!SetStep, Rend!BarStep, Rend!OneStep, ZenonT(40)
<1>4. /\ part' = "watch" => Rend!WatInv'
      /\ part' = "broadcast" => Rend!CastInv'
      /\ part' = "joinset" => Rend!JsInv'
  BY SizesAssumption, Rend!WatStep, Rend!CastStep, Rend!JsStep, ZenonT(40)
<1>5. /\ part' = "mpsc" => Bnd!MpInv'
      /\ part' = "unbounded" => Unb!MpInv'
  BY SizesAssumption, Bnd!MpStep, Unb!MpStep, ZenonT(40)
<1> QED
  BY <1>1, <1>2, <1>3, <1>4, <1>5, ZenonT(40)

\* The invariant holds in every state of the composition.
LEMMA SyncInductive == Spec => []SyncInv
  BY SyncInit, SyncStep, PTL DEF Spec

------------------------------------------------------------------------------
(* The properties of the run *)

\* A mutex has at most one guard, and a write guard of an RwLock excludes every
\* other; both counts are exact.
THEOREM LocksExclusiveHolds == Spec => []LocksExclusive
<1>1. SyncInv => LocksExclusive
  BY Lock!MutexSafe, Lock!RwExcludes, ZenonT(40) DEF SyncInv, LocksExclusive
<1> QED
  BY <1>1, SyncInductive, PTL

\* A free mutex that is waited for has an awake waiter, unless a waiting lock()
\* was dropped or polled unwoken.
THEOREM MutexHandOffHolds == Spec => []MutexHandOff
<1>1. SyncInv => MutexHandOff
  BY Lock!MutexSafe, ZenonT(40) DEF SyncInv, MutexHandOff
<1> QED
  BY <1>1, SyncInductive, PTL

\* A semaphore neither makes up nor loses a permit, but for the future that is
\* dropped, and its first waiter never fits.
THEOREM SemaphoreConservedHolds == Spec => []SemaphoreConserved
<1>1. SyncInv => SemaphoreConserved
  BY Lock!SemSafe, ZenonT(40) DEF SyncInv, SemaphoreConserved
<1> QED
  BY <1>1, SyncInductive, PTL

\* Every notify_one and notify_last is banked, which happens only while no future
\* is queued, or given to one future, which learns of it unless it is dropped.
THEOREM NotifyBankedHolds == Spec => []NotifyBanked
<1>1. SyncInv => NotifyBanked
  BY Lock!NtSafe, ZenonT(40) DEF SyncInv, NotifyBanked
<1> QED
  BY <1>1, SyncInductive, PTL

\* No interleaving of poll, enable and notify leaves a notified future asleep.
THEOREM NotifyWakesHolds == Spec => []NotifyWakes
<1>1. SyncInv => NotifyWakes
  BY Lock!NtSafe, ZenonT(40) DEF SyncInv, NotifyWakes
<1> QED
  BY <1>1, SyncInductive, PTL

\* OnceCell and SetOnce have one writer and one value, and a round of a Barrier
\* N arrivals and one leader.
THEOREM RendezvousExactHolds == Spec => []RendezvousExact
<1>1. SyncInv => RendezvousExact
  BY Rend!OnceSafe, ZenonT(40) DEF SyncInv, RendezvousExact, Rend!SetInv, Rend!BarInv
<1> QED
  BY <1>1, SyncInductive, PTL

\* Nobody sleeps through the end of an initialiser, a value that is set or the
\* end of a round.
THEOREM RendezvousAwakeHolds == Spec => []RendezvousAwake
<1>1. SyncInv => RendezvousAwake
  BY Rend!OnceSafe, ZenonT(40) DEF SyncInv, RendezvousAwake, Rend!SetInv, Rend!BarInv
<1> QED
  BY <1>1, SyncInductive, PTL

\* A oneshot receiver gets RecvError only if send was never called, and does
\* not sleep on.
THEOREM OneshotDeliversHolds == Spec => []OneshotDelivers
<1>1. SyncInv => OneshotDelivers
  BY ZenonT(40) DEF SyncInv, OneshotDelivers, Rend!OneInv
<1> QED
  BY <1>1, SyncInductive, PTL

\* A watch receiver sleeps through no change and no closing.
THEOREM WatchNoMissedChangeHolds == Spec => []WatchNoMissedChange
<1>1. SyncInv => WatchNoMissedChange
  BY Rend!WatSafe, ZenonT(40) DEF SyncInv, WatchNoMissedChange
<1> QED
  BY <1>1, SyncInductive, PTL

\* Each broadcast message is given to a receiver or counted in a Lagged, once.
THEOREM BroadcastAccountsHolds == Spec => []BroadcastAccounts
<1>1. SyncInv => BroadcastAccounts
  BY SizesAssumption, Rend!CastSafe, ZenonT(40) DEF SyncInv, BroadcastAccounts
<1> QED
  BY <1>1, SyncInductive, PTL

\* An mpsc channel respects its capacity and its reservations and loses no
\* message, bounded or not.
THEOREM MpscBoundedHolds == Spec => []MpscBounded
<1>1. SyncInv => MpscBounded
  BY SizesAssumption, Bnd!MpSafe, Unb!MpSafe, ZenonT(40) DEF SyncInv, MpscBounded
<1> QED
  BY <1>1, SyncInductive, PTL

\* Receivers sleep only on an empty, open channel, and senders of single slots
\* only on a full one, unless a waiting sender was dropped or polled unwoken.
THEOREM ChannelsAwakeHolds == Spec => []ChannelsAwake
<1>1. SyncInv => ChannelsAwake
  BY SizesAssumption, Rend!CastSafe, Bnd!MpSafe, Unb!MpSafe, ZenonT(40) DEF SyncInv,
     ChannelsAwake
<1> QED
  BY <1>1, SyncInductive, PTL
==============================================================================
