CONSTANTS
    Fds = {f1, f2}
    Socks = {s1, s2}
    NoSock = NoSock
    MaxAddrs = 2
SPECIFICATION Spec
CHECK_DEADLOCK FALSE
INVARIANT ConnectEstablished
