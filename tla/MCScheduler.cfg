CONSTANTS
    w1 = w1
    w2 = w2
    Tasks = {t1, t2}
    Threads = {w1, w2, r1}
    N = 2
    First <- TwoWorkers
    NoTask = NoTask
SPECIFICATION FairSpec
CHECK_DEADLOCK FALSE
INVARIANTS ConservedTasks OneServerPerIndex NoneAbandoned ParkParity
PROPERTIES ImplementsLifecycle LocalQueueServed InjectorServed
