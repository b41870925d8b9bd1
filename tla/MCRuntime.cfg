CONSTANTS
    Sleeps = {s1, s2}
    Timeouts = {s2}
    First = s1
    MaxTime = 2
    Period = 3
    MaxNow = 10
    Jobs = {j1, j2, j3}
    Job = j1
    Slots = {p1, p2, p3}
    max_threads = 2
    Tasks = {j1, j2}
    Workers = {p1, p2}
    Spares = {p3}
    Nothing = Nothing
    Caller = Caller
SPECIFICATION Spec
CHECK_DEADLOCK FALSE
INVARIANTS TimersServed PoolAccounts ShutdownOrderly
PROPERTY RuntimeLive
