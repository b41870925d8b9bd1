CONSTANTS
    Tasks = {t1}
    Workers = {w1, w2}
    Wakers = {k1}
    Aborters = {a1}
    ForgetWakers = FALSE
    NoTask = NoTask
SPECIFICATION FairSpec
CHECK_DEADLOCK FALSE
PROPERTIES NoLostWake AbortHonoured
