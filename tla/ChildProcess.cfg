CONSTANTS
    Streams = {stdout, stderr}
    MaxOut = 2
    PipeCap = 1
SPECIFICATION Spec
CHECK_DEADLOCK FALSE
INVARIANT WaitKeepsInSync
