CONSTANTS
    Senders = {e1, s2, s3}
    First = e1
    Unbounded = FALSE
    Capacity = 1
    MaxMany = 1
    MaxSent = 3
    MaxWaiters = 3
SPECIFICATION Spec
CHECK_DEADLOCK FALSE
INVARIANT SenderAwake
