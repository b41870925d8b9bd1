CONSTANTS
    Tasks = {t1, t2, t3}
    MaxWaiters = 4
SPECIFICATION Spec
CHECK_DEADLOCK FALSE
INVARIANT HandOff
