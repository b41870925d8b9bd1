CONSTANTS
    Tasks = {t1, t2, t3}
    MaxWaiters = 4
    MaxSupply = 3
    MaxNeeded = 2
    Notifiers = {p1, p2}
    MaxNotify = 3
    Nothing = Nothing
    N = 2
    MaxRounds = 3
    Rx = {e1, r2}
    Tx = {e1, p1, p2}
    First = e1
    MaxVersion = 3
    Values = {p1, p2}
    Capacity = 2
    MaxSent = 4
    MaxQueued = 3
    MaxSenders = 2
    MaxMany = 2
    MaxSendWaiters = 2
    LocalTasks = {a1, a2}
    Threads = {w1, w2}
    Members = {m1, m2, m3}
    Runtimes = {q1, q2}
    Budget = 1
    MaxDepth = 4
SYMMETRY Symmetry
SPECIFICATION Spec
CHECK_DEADLOCK FALSE
INVARIANTS LocksExclusive MutexHandOff SemaphoreConserved NotifyBanked NotifyWakes RendezvousExact RendezvousAwake OneshotDelivers WatchNoMissedChange BroadcastAccounts MpscBounded ChannelsAwake LocalTasksServed AmbientRestored
