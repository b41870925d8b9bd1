CONSTANTS
    Tasks = {t1}
    Workers = {w1}
    Wakers = {k1}
    Aborters = {a1}
    ForgetWakers = FALSE
    NoTask = NoTask
SPECIFICATION Spec
CHECK_DEADLOCK FALSE
INVARIANT BeginPollCasSucceeds
