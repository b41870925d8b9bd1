------------------------------ MODULE Sockets -------------------------------
(***************************************************************************)
(* The life of a descriptor under io/tcp.rs, io/unix.rs, io/udp.rs,        *)
(* io/pipe.rs and io/async_fd.rs: created by a system call, made           *)
(* non-blocking, registered with the reactor, connected, split, reunited,  *)
(* handed back to blocking code and dropped, with the error path of every  *)
(* step.  A descriptor number names an open file description (a "socket"); *)
(* dup gives a socket a second number, close frees a number, which the     *)
(* next call of any task may be given again.  The reactor keeps two things *)
(* per number: the kernel's epoll entry, keyed by number and socket, which *)
(* the kernel drops with the socket's last number, and the registry entry, *)
(* keyed by number alone, which only deregister removes.                   *)
(***************************************************************************)
EXTENDS Naturals, FiniteSets

CONSTANTS Fds, Socks, NoSock,
          MaxAddrs          \* addresses a connect's host name resolves to

VARIABLES
    table,      \* the kernel's descriptor table
    nonblocking,\* sockets with O_NONBLOCK (a flag of the socket, not of the number)
    conn,       \* "unused", "idle", "listening", "connecting", "established", "refused"
    watched,    \* epoll's entries
    registry,   \* Reactor::registry: the socket whose ScheduledIo is filed under a number
    held,       \* who owns a number: "nobody", "bare" (an OwnedFd on its way),
                \* "socket" (a TcpSocket), "connect" (inside a connect future), "io" (a registered type),
                \* "halves", "half" (owned halves), "async_fd", "dropping", "std"
    addr,       \* TcpStream::connect: addresses tried so far, 0 when none runs
    outcome,    \* its result: "none", "ok", "error"
    leftover,   \* numbers whose registry entry a connect left behind
    adopted     \* history: sockets that connect took over in blocking mode

vars == <<table, nonblocking, conn, watched, registry, held, addr, outcome, leftover, adopted>>

Init ==
    /\ table = [f \in Fds |-> NoSock] /\ nonblocking = {}
    /\ conn = [s \in Socks |-> "unused"]
    /\ watched = {} /\ registry = [f \in Fds |-> NoSock]
    /\ held = [f \in Fds |-> "nobody"]
    /\ addr = 0 /\ outcome = "none" /\ leftover = {} /\ adopted = {}

TypeOK ==
    /\ table \in [Fds -> Socks \cup {NoSock}] /\ nonblocking \subseteq Socks
    /\ conn \in [Socks -> {"unused", "idle", "listening", "connecting", "established", "refused"}]
    /\ watched \subseteq Fds \X Socks /\ registry \in [Fds -> Socks \cup {NoSock}]
    /\ held \in [Fds -> {"nobody", "bare", "socket", "connect", "io", "halves", "half", "async_fd", "dropping", "std"}]
    /\ addr \in 0..MaxAddrs /\ outcome \in {"none", "ok", "error"} /\ leftover \subseteq Fds
    /\ adopted \subseteq Socks

Free == {f \in Fds : table[f] = NoSock}
Registered == {f \in Fds : held[f] \in {"connect", "io", "halves", "half", "async_fd"}}

-----------------------------------------------------------------------------
(* System calls.                                                             *)
\* A call that makes one new descriptor.
Opens(f, s, state, nb) ==
    /\ f \in Free /\ conn[s] = "unused"
    /\ table' = [table EXCEPT ![f] = s]
    /\ conn' = [conn EXCEPT ![s] = state]
    /\ nonblocking' = IF nb THEN nonblocking \cup {s} ELSE nonblocking \ {s}
    /\ UNCHANGED adopted

\* close(2): the last number of a socket takes the socket and its epoll
\* entries with it.
Closes(gone) ==
    LET left == [f \in Fds |-> IF f \in gone THEN NoSock ELSE table[f]]
        dead == {s \in Socks : conn[s] # "unused" /\ \A f \in Fds : left[f] # s}
    IN  /\ table' = left
        /\ conn' = [s \in Socks |-> IF s \in dead THEN "unused" ELSE conn[s]]
        /\ nonblocking' = nonblocking \ dead /\ adopted' = adopted \ dead
        /\ watched' = {w \in watched : w[2] \notin dead}

\* set_nonblocking(true) before a registration.
SetNonblocking(f) ==
    /\ nonblocking' = nonblocking \cup {table[f]}
    /\ adopted' = adopted \ {table[f]}

\* Reactor::register and Reactor::deregister.
Registers(f) ==
    /\ watched' = watched \cup {<<f, table[f]>>}
    /\ registry' = [registry EXCEPT ![f] = table[f]]
    /\ leftover' = leftover \ {f}

Deregisters(f) ==
    /\ watched' = watched \ {<<f, table[f]>>}
    /\ registry' = [registry EXCEPT ![f] = NoSock]
    /\ leftover' = leftover \ {f}

-----------------------------------------------------------------------------
(* Constructors.                                                             *)
\* PlatformTcpListener::bind and its siblings: a blocking listener.
Bind(f, s) ==
    /\ Opens(f, s, "listening", FALSE)
    /\ held' = [held EXCEPT ![f] = "bare"]
    /\ UNCHANGED <<watched, registry, addr, outcome, leftover>>

\* new_tcp_socket / new_unix_socket: a bare non-blocking socket, as TcpSocket.
NewSocket(f, s) ==
    /\ Opens(f, s, "idle", TRUE)
    /\ held' = [held EXCEPT ![f] = "socket"]
    /\ UNCHANGED <<watched, registry, addr, outcome, leftover>>

\* A socket that other code opened; it blocks, as sockets do.
ForeignSocket(f, s) ==
    /\ Opens(f, s, "idle", FALSE)
    /\ held' = [held EXCEPT ![f] = "std"]
    /\ UNCHANGED <<watched, registry, addr, outcome, leftover>>

\* TcpSocket::from_std_stream and from_raw_fd: the descriptor as it is.
TcpSocketFrom(f) ==
    /\ held[f] = "std"
    /\ held' = [held EXCEPT ![f] = "socket"]
    /\ UNCHANGED <<table, nonblocking, conn, watched, registry, addr, outcome, leftover, adopted>>

\* TcpSocket::listen, UnixSocket::listen; listen(2) refuses a connected socket.
Listen(f) ==
    /\ held[f] = "socket" /\ conn[table[f]] = "idle"
    /\ conn' = [conn EXCEPT ![table[f]] = "listening"]
    /\ SetNonblocking(f)
    /\ Registers(f)
    /\ held' = [held EXCEPT ![f] = "io"]
    /\ UNCHANGED <<table, addr, outcome>>

\* poll_accept on a registered listener: the accepted descriptor is blocking.
Accept(l, f, s) ==
    /\ held[l] = "io" /\ conn[table[l]] = "listening"
    /\ Opens(f, s, "established", FALSE)
    /\ held' = [held EXCEPT ![f] = "bare"]
    /\ UNCHANGED <<watched, registry, addr, outcome, leftover>>

\* set_nonblocking and register: a bind, an accept or a from_std completes.
Adopt(f) ==
    /\ held[f] \in {"bare", "std"} /\ conn[table[f]] \in {"listening", "established"}
    /\ SetNonblocking(f)
    /\ Registers(f)
    /\ held' = [held EXCEPT ![f] = "io"]
    /\ UNCHANGED <<table, conn, addr, outcome>>

\* ... or fails at either step, or before it, and the descriptor drops, as that of
\* a TcpSocket does.
AdoptFails(f) ==
    /\ held[f] \in {"bare", "std", "socket"}
    /\ Closes({f})
    /\ held' = [held EXCEPT ![f] = "nobody"]
    /\ UNCHANGED <<registry, addr, outcome, leftover>>

\* UnixStream::pair, pipe(): two descriptors, registered one after the other.
\* When the second cannot be, the first is a finished value and drops as one.
Pair(f, g, s, t) ==
    /\ {f, g} \subseteq Free /\ f # g /\ s # t
    /\ conn[s] = "unused" /\ conn[t] = "unused"
    /\ \/ /\ table' = [table EXCEPT ![f] = s, ![g] = t]
          /\ watched' = watched \cup {<<f, s>>, <<g, t>>}
          /\ registry' = [registry EXCEPT ![f] = s, ![g] = t]
          /\ held' = [held EXCEPT ![f] = "io", ![g] = "io"]
          /\ leftover' = leftover \ {f, g}
          /\ conn' = [conn EXCEPT ![s] = "established", ![t] = "established"]
          /\ nonblocking' = nonblocking \cup {s, t}
       \/ /\ table' = [table EXCEPT ![f] = s]
          /\ held' = [held EXCEPT ![f] = "dropping"]
          /\ registry' = [registry EXCEPT ![f] = NoSock]
          /\ leftover' = leftover \ {f}
          /\ conn' = [conn EXCEPT ![s] = "established"]
          /\ nonblocking' = nonblocking \cup {s}
          /\ UNCHANGED watched
    /\ UNCHANGED <<addr, outcome, adopted>>

-----------------------------------------------------------------------------
(* TcpStream::connect: connect_addr for each address until one succeeds.     *)
ConnectBegin ==
    /\ addr = 0 /\ \A f \in Fds : held[f] # "connect"
    /\ addr' = 1 /\ outcome' = "none"
    /\ UNCHANGED <<table, nonblocking, conn, watched, registry, held, leftover, adopted>>

\* new_tcp_socket, connect (EINPROGRESS is success here), register.
ConnectCall(f, s) ==
    /\ addr > 0 /\ \A g \in Fds : held[g] # "connect"
    /\ Opens(f, s, "connecting", TRUE)
    /\ watched' = watched \cup {<<f, s>>}
    /\ registry' = [registry EXCEPT ![f] = s]
    /\ leftover' = leftover \ {f}
    /\ held' = [held EXCEPT ![f] = "connect"]
    /\ UNCHANGED <<addr, outcome>>

\* TcpSocket::connect: the same on a socket made before, one address only.  It
\* leaves the socket's mode alone, and a blocking one connects in the call.
SocketConnect(f) ==
    /\ addr = 0 /\ \A g \in Fds : held[g] # "connect"
    /\ held[f] = "socket" /\ conn[table[f]] = "idle"
    /\ LET s == table[f]
           waits == s \notin nonblocking
       IN  /\ conn' = [conn EXCEPT ![s] = IF waits THEN "established" ELSE "connecting"]
           /\ adopted' = IF waits THEN adopted \cup {s} ELSE adopted
    /\ Registers(f)
    /\ held' = [held EXCEPT ![f] = "connect"]
    /\ UNCHANGED <<table, nonblocking, addr, outcome>>

\* The next address, or the last error.
Failed ==
    /\ addr' = IF addr \in 1..(MaxAddrs - 1) THEN addr + 1 ELSE 0
    /\ outcome' = IF addr \in 1..(MaxAddrs - 1) THEN "none" ELSE "error"

\* The attempt fails before it registers: refused at once, or no descriptor.
ConnectCallFails ==
    /\ addr > 0 /\ \A g \in Fds : held[g] # "connect"
    /\ Failed
    /\ UNCHANGED <<table, nonblocking, conn, watched, registry, held, leftover, adopted>>

\* The network answers.
Network(s) ==
    /\ conn[s] = "connecting"
    /\ \E c \in {"established", "refused"} : conn' = [conn EXCEPT ![s] = c]
    /\ UNCHANGED <<table, nonblocking, watched, registry, held, addr, outcome, leftover, adopted>>

\* take_socket_error: SO_ERROR has no error for a handshake still under way.
take_socket_error(s) == conn[s] # "refused"

\* A poll of ready_io: a fresh ScheduledIo is optimistically writable, so the
\* check runs in the first poll.  The error path drops the inner socket, which
\* closes; nothing deregisters it.
ConnectPoll(f) ==
    /\ held[f] = "connect"
    /\ \/ /\ take_socket_error(table[f])
          /\ held' = [held EXCEPT ![f] = "io"]
          /\ addr' = 0 /\ outcome' = "ok"
          /\ UNCHANGED <<table, nonblocking, conn, watched, registry, leftover, adopted>>
       \/ /\ ~take_socket_error(table[f])
          /\ held' = [held EXCEPT ![f] = "nobody"]
          /\ Closes({f})
          /\ leftover' = leftover \cup {f}
          /\ Failed
          /\ UNCHANGED registry

\* The connect future is dropped (its first poll was over the task's budget).
ConnectDropped(f) ==
    /\ held[f] = "connect"
    /\ held' = [held EXCEPT ![f] = "nobody"]
    /\ Closes({f})
    /\ leftover' = leftover \cup {f}
    /\ addr' = 0 /\ outcome' = "none"
    /\ UNCHANGED registry

-----------------------------------------------------------------------------
(* Splitting, handing over, dropping.                                        *)
IntoSplit(f) ==
    /\ held[f] = "io" /\ conn[table[f]] # "listening"
    /\ held' = [held EXCEPT ![f] = "halves"]
    /\ UNCHANGED <<table, nonblocking, conn, watched, registry, addr, outcome, leftover, adopted>>

\* reunite: both halves of one socket; Arc::try_unwrap cannot fail.
Reunite(f) ==
    /\ held[f] = "halves"
    /\ held' = [held EXCEPT ![f] = "io"]
    /\ UNCHANGED <<table, nonblocking, conn, watched, registry, addr, outcome, leftover, adopted>>

DropHalf(f) ==
    /\ held[f] = "halves"
    /\ held' = [held EXCEPT ![f] = "half"]
    /\ UNCHANGED <<table, nonblocking, conn, watched, registry, addr, outcome, leftover, adopted>>

\* Drop of the last owner: deregister; the fields, and with them the
\* descriptor, drop afterwards.
Drop(f) ==
    /\ held[f] \in {"io", "half"}
    /\ Deregisters(f)
    /\ held' = [held EXCEPT ![f] = "dropping"]
    /\ UNCHANGED <<table, nonblocking, conn, addr, outcome, adopted>>

DropFields(f) ==
    /\ held[f] = "dropping"
    /\ Closes({f})
    /\ held' = [held EXCEPT ![f] = "nobody"]
    /\ UNCHANGED <<registry, addr, outcome, leftover>>

\* into_std (and PipeSender::into_blocking_fd): back to blocking, dup, and self
\* drops.  When dup fails only the drop is left.
IntoStd(f) ==
    /\ held[f] = "io"
    /\ nonblocking' = nonblocking \ {table[f]}
    /\ Deregisters(f)
    /\ \/ \E g \in Free :
            /\ table' = [table EXCEPT ![g] = table[f]]
            /\ held' = [held EXCEPT ![f] = "dropping", ![g] = "std"]
       \/ /\ held' = [held EXCEPT ![f] = "dropping"]
          /\ UNCHANGED table
    /\ adopted' = adopted \ {table[f]}
    /\ UNCHANGED <<conn, addr, outcome>>

\* AsyncFd::new registers what the caller owns, blocking or not.
AsyncFdNew(f) ==
    /\ held[f] = "std"
    /\ Registers(f)
    /\ held' = [held EXCEPT ![f] = "async_fd"]
    /\ UNCHANGED <<table, nonblocking, conn, addr, outcome, adopted>>

\* AsyncFd::into_inner: the value is taken out, and the drop deregisters.
AsyncFdIntoInner(f) ==
    /\ held[f] = "async_fd"
    /\ Deregisters(f)
    /\ held' = [held EXCEPT ![f] = "std"]
    /\ UNCHANGED <<table, nonblocking, conn, addr, outcome, adopted>>

Next ==
    \/ \E f \in Fds, s \in Socks : Bind(f, s) \/ NewSocket(f, s) \/ ForeignSocket(f, s) \/ ConnectCall(f, s)
    \/ \E l, f \in Fds, s \in Socks : Accept(l, f, s)
    \/ \E f, g \in Fds, s, t \in Socks : Pair(f, g, s, t)
    \/ \E f \in Fds : TcpSocketFrom(f) \/ Listen(f) \/ SocketConnect(f) \/ Adopt(f) \/ AdoptFails(f)
    \/ ConnectBegin \/ ConnectCallFails
    \/ \E s \in Socks : Network(s)
    \/ \E f \in Fds : ConnectPoll(f) \/ ConnectDropped(f)
    \/ \E f \in Fds : IntoSplit(f) \/ Reunite(f) \/ DropHalf(f) \/ Drop(f) \/ DropFields(f)
    \/ \E f \in Fds : IntoStd(f) \/ AsyncFdNew(f) \/ AsyncFdIntoInner(f)

Spec == Init /\ [][Next]_vars

-----------------------------------------------------------------------------
\* The reactor reports a socket's events to that socket's ScheduledIo and to no
\* other: every registered value is filed and watched under its own number, for
\* the socket that number names now; no number is watched or filed without a
\* registered value, whatever closes, dups and reuses happen, except the filing
\* that a failed or dropped connect leaves under a number nobody has registered
\* since; and a socket the runtime reads and writes never blocks its worker, but
\* for one that a TcpSocket adopted in blocking mode and connected: connect makes
\* none non-blocking, although from_std_stream says "those steps stay deferred to
\* whichever of connect/listen the caller uses next".
EventsReachOwner ==
    /\ \A f \in Registered : registry[f] = table[f] /\ <<f, table[f]>> \in watched
    /\ \A w \in watched : w[1] \in Registered /\ table[w[1]] = w[2]
    /\ \A f \in Fds : (registry[f] # NoSock /\ f \notin Registered) => f \in leftover
    /\ \A f \in Registered : held[f] # "async_fd" => table[f] \in nonblocking \cup adopted

\* "the caller waits for the socket to become writable and then calls
\* [`take_socket_error`] to find out whether the connection actually succeeded":
\* a stream that connect returned has an established connection.
ConnectEstablished ==
    \A f \in Fds : held[f] \in {"io", "halves", "half"} => conn[table[f]] \in {"established", "listening"}
=============================================================================
