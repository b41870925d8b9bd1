------------------------------ MODULE Interval -------------------------------
(***************************************************************************)
(* Interval (time/mod.rs): ticks at scheduled instants, with the three     *)
(* ways of going on after a missed tick.  The Sleep inside is abstracted   *)
(* to the deadline it was made with; the clock only goes forward here.     *)
(***************************************************************************)
EXTENDS Naturals

CONSTANTS
    Period,     \* the period
    MaxNow      \* the horizon of the clock

None == MaxNow + 3 * Period   \* no Sleep, no earlier tick

VARIABLES
    now,        \* current_time()
    behavior,   \* missed_tick_behavior
    next,       \* next_deadline
    sleep,      \* the deadline of the Sleep, or None
    base,       \* history: where the running schedule started
    fired,      \* history: the instant returned by the last tick since then
    seenAt,     \* history: when it was returned
    mixed       \* history: the behaviour changed since the schedule started

vars == <<now, behavior, next, sleep, base, fired, seenAt, mixed>>

Behaviors == {"Burst", "Delay", "Skip"}

\* interval_at with a start no more than a period away; interval is the last of them.
Init ==
    /\ now = 0 /\ behavior = "Burst" /\ next \in 0..Period /\ sleep = None
    /\ base = next /\ fired = None /\ seenAt = None /\ mixed = FALSE

Pass ==
    /\ now < MaxNow /\ now' = now + 1
    /\ UNCHANGED <<behavior, next, sleep, base, fired, seenAt, mixed>>

SetMissedTickBehavior(b) ==
    /\ behavior' = b
    /\ mixed' = (mixed \/ fired # None \/ b # behavior)
    /\ UNCHANGED <<now, next, sleep, base, fired, seenAt>>

\* reset, reset_immediately, reset_after, reset_at
Reset(at) ==
    /\ next' = at /\ sleep' = None
    /\ base' = at /\ fired' = None /\ seenAt' = None /\ mixed' = FALSE
    /\ UNCHANGED <<now, behavior>>

\* Skip: the first point of the schedule that is still to come.
NextOnGrid == next + Period * (1 + (IF now < next THEN 0 ELSE (now - next) \div Period))

NextDeadline ==
    CASE behavior = "Burst" -> next + Period
      [] behavior = "Delay" -> now + Period
      [] behavior = "Skip" -> NextOnGrid

\* poll_tick makes the Sleep if there is none, and leaves it when it is pending ...
PollPending ==
    LET at == IF sleep = None THEN next ELSE sleep
    IN  now < at /\ sleep' = at
        /\ UNCHANGED <<now, behavior, next, base, fired, seenAt, mixed>>

\* ... and returns the scheduled instant when it is over.
PollReady ==
    LET at == IF sleep = None THEN next ELSE sleep
    IN  /\ now >= at
        /\ fired' = next /\ seenAt' = now
        /\ next' = NextDeadline /\ sleep' = None
        /\ UNCHANGED <<now, behavior, base, mixed>>

Next ==
    \/ Pass \/ PollPending \/ PollReady
    \/ \E b \in Behaviors : SetMissedTickBehavior(b)
    \/ \E at \in 0..(now + Period) : at <= MaxNow /\ Reset(at)

Spec == Init /\ [][Next]_vars

------------------------------------------------------------------------------
\* The promises of the three behaviours, however late and irregular the polls are:
\* no tick is returned before the instant it names or for a Sleep of an earlier
\* schedule; Burst and Skip never leave the grid of the start ("ticks don't drift
\* under load"), Burst returns every point of it and Skip none that is over; Delay
\* leaves a whole period after the tick it was late with.
ScheduleKept ==
    /\ fired # None => fired <= seenAt
    /\ sleep # None => sleep = next
    /\ fired # None /\ ~mixed =>
         /\ behavior \in {"Burst", "Skip"} => (next - base) % Period = 0
         /\ behavior = "Burst" => next = fired + Period
         /\ behavior = "Skip" => next > seenAt /\ next >= fired + Period
                                 /\ (next - Period <= seenAt \/ next = fired + Period)
         /\ behavior = "Delay" => next = seenAt + Period
==============================================================================
