CONSTANTS
    Tasks = {t1}
    Workers = {w1, w2}
    Wakers = {k1, k2}
    Aborters = {a1}
    ForgetWakers = TRUE
    NoTask = NoTask
SPECIFICATION Spec
CHECK_DEADLOCK FALSE
INVARIANTS TypeOK QueuedOnce RunExclusive ActiveExact JoinerWoken
PROPERTIES JoinResultStable AbortStopsPolling ImplementsLifecycle
