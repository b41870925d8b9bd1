CONSTANTS
    None = None
    Two = {t1, t2}
    Three = {h1, h2, h3}
    A = A
    B = B
    Task = Task
SYMMETRY Symmetry
SPECIFICATION Spec
CHECK_DEADLOCK FALSE
INVARIANTS ReadinessDelivered PollsOutstanding BytesFaithful FileOpsSound ServicesAnswer
