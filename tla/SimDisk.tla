------------------------------ MODULE SimDisk -------------------------------
(***************************************************************************)
(* SimDriver of io/uring_fs.rs, the in-memory disk with injected faults    *)
(* that storage code is tested against: paths name handles, handles name   *)
(* file contents of which a prefix is durable, and a crash keeps that      *)
(* prefix.  Every operation runs under one lock.  Contents are sequences   *)
(* of cells; a cell is 0 (the zero fill) or the number of the write that   *)
(* put it there.                                                           *)
(***************************************************************************)
EXTENDS Naturals, Sequences, FiniteSets, FiniteSetsExt, Functions

CONSTANTS Paths, MaxHandles, MaxLen, MaxWrites, Capacity, NoCap

Handles == 0..(MaxHandles - 1)

VARIABLES
    paths,          \* SimState::paths
    files,          \* SimState::files: handle -> [data, durable_len]
    next_handle, closed, capacity, bytes_used, fsync_lies,
    torn,           \* torn_write: how many of the next write's cells land, or NoCap
    writes,         \* writes made so far
    synced,         \* handle -> contents at the last fsync that told the truth
    poisoned        \* a read beyond the end panicked with the lock held

vars == <<paths, files, next_handle, closed, capacity, bytes_used, fsync_lies, torn, writes, synced, poisoned>>

NoFiles == [h \in {} |-> 0]

Init ==
    /\ paths = [p \in {} |-> 0] /\ files = NoFiles /\ next_handle = 0 /\ closed = {}
    /\ capacity = NoCap /\ bytes_used = 0 /\ fsync_lies = FALSE /\ torn = NoCap
    /\ writes = 0 /\ synced = NoFiles /\ poisoned = FALSE

Length(h) == IF h \in DOMAIN files THEN Len(files[h].data) ELSE 0

TypeOK ==
    /\ DOMAIN paths \subseteq Paths /\ \A p \in DOMAIN paths : paths[p] \in Handles
    /\ DOMAIN files \subseteq Handles /\ DOMAIN synced \subseteq Handles
    /\ \A h \in DOMAIN files : /\ files[h].data \in Seq(0..MaxWrites)
                               /\ files[h].durable_len \in 0..Len(files[h].data)
    /\ next_handle \in 0..MaxHandles /\ closed \subseteq Handles /\ capacity \in {Capacity, NoCap}
    /\ bytes_used \in Nat /\ fsync_lies \in BOOLEAN /\ writes \in 0..MaxWrites /\ poisoned \in BOOLEAN

-----------------------------------------------------------------------------
(* Fault injection.                                                          *)
set_disk_full_at ==
    /\ ~poisoned /\ capacity = NoCap
    /\ capacity' = Capacity
    /\ UNCHANGED <<paths, files, next_handle, closed, bytes_used, fsync_lies, torn, writes, synced, poisoned>>

set_fsync_lies ==
    /\ ~poisoned
    /\ fsync_lies' = ~fsync_lies
    /\ UNCHANGED <<paths, files, next_handle, closed, capacity, bytes_used, torn, writes, synced, poisoned>>

inject_torn_write ==
    /\ ~poisoned /\ torn = NoCap
    /\ torn' = 1
    /\ UNCHANGED <<paths, files, next_handle, closed, capacity, bytes_used, fsync_lies, writes, synced, poisoned>>

-----------------------------------------------------------------------------
(* OpDriver for SimDriver.                                                   *)
\* open: an existing path answers its handle again.
Open(p, create, excl, trunc) ==
    LET exists == p \in DOMAIN paths
        h == IF exists THEN paths[p] ELSE next_handle
        fresh == [data |-> <<>>, durable_len |-> 0]
    IN  /\ ~poisoned
        /\ ~(exists /\ create /\ excl) /\ (exists \/ create)
        /\ ~exists => next_handle < MaxHandles
        /\ paths' = [q \in DOMAIN paths \cup {p} |-> IF q = p THEN h ELSE paths[q]]
        /\ next_handle' = IF exists THEN next_handle ELSE next_handle + 1
        /\ files' = IF ~exists \/ (trunc /\ h \in DOMAIN files)
                      THEN [g \in DOMAIN files \cup {h} |-> IF g = h THEN fresh ELSE files[g]]
                      ELSE files
        /\ synced' = IF ~exists \/ trunc
                       THEN [g \in DOMAIN synced \cup {h} |-> IF g = h THEN <<>> ELSE synced[g]]
                       ELSE synced
        /\ bytes_used' = IF trunc THEN bytes_used - Length(h) ELSE bytes_used
        /\ closed' = closed \ {h}
        /\ UNCHANGED <<capacity, fsync_lies, torn, writes, poisoned>>

\* grow_to: fails at the capacity, else zero-fills.
Growth(h, n) == IF n > Length(h) THEN n - Length(h) ELSE 0
Fits(h, n) == IF capacity = NoCap THEN TRUE ELSE Growth(h, n) = 0 \/ bytes_used + Growth(h, n) <= capacity
Grown(h, n) == files[h].data \o [i \in 1..Growth(h, n) |-> 0]

\* read_at: a position beyond the end slices past the data.
ReadAt(h, pos) ==
    /\ ~poisoned /\ h \notin closed /\ h \in DOMAIN files
    /\ poisoned' = (pos > Length(h))
    /\ UNCHANGED <<paths, files, next_handle, closed, capacity, bytes_used, fsync_lies, torn, writes, synced>>

\* write_at of n cells: a torn write applies its first cells only.
WriteAt(h, pos, n) ==
    LET w == writes + 1
        lands == IF torn = NoCap THEN n ELSE torn
        full == Grown(h, pos + n)
    IN  /\ ~poisoned /\ writes < MaxWrites /\ pos + n <= MaxLen
        /\ h \notin closed /\ h \in DOMAIN files /\ Fits(h, pos + n)
        /\ files' = [files EXCEPT ![h].data =
                       [i \in DOMAIN full |-> IF i \in (pos + 1)..(pos + lands) THEN w ELSE full[i]]]
        /\ bytes_used' = bytes_used + Growth(h, pos + n)
        /\ writes' = w /\ torn' = NoCap
        /\ UNCHANGED <<paths, next_handle, closed, capacity, fsync_lies, synced, poisoned>>

Fsync(h) ==
    /\ ~poisoned /\ h \notin closed /\ ~fsync_lies /\ h \in DOMAIN files
    /\ files' = [files EXCEPT ![h].durable_len = Length(h)]
    /\ synced' = [synced EXCEPT ![h] = files[h].data]
    /\ UNCHANGED <<paths, next_handle, closed, capacity, bytes_used, fsync_lies, torn, writes, poisoned>>

\* fallocate and a growing set_len; neither looks at `closed`.
Fallocate(h, n) ==
    /\ ~poisoned /\ h \in DOMAIN files /\ Fits(h, n)
    /\ files' = [files EXCEPT ![h].data = Grown(h, n)]
    /\ bytes_used' = bytes_used + Growth(h, n)
    /\ UNCHANGED <<paths, next_handle, closed, capacity, fsync_lies, torn, writes, synced, poisoned>>

\* set_len, shrinking.
SetLen(h, n) ==
    /\ ~poisoned /\ h \in DOMAIN files /\ n < Length(h)
    /\ files' = [files EXCEPT ![h] = [data |-> SubSeq(@.data, 1, n),
                                      durable_len |-> IF @.durable_len < n THEN @.durable_len ELSE n]]
    /\ bytes_used' = bytes_used - (Length(h) - n)
    /\ synced' = [synced EXCEPT ![h] = SubSeq(@, 1, IF Len(@) < n THEN Len(@) ELSE n)]
    /\ UNCHANGED <<paths, next_handle, closed, capacity, fsync_lies, torn, writes, poisoned>>

Close(h) ==
    /\ ~poisoned /\ h \in Handles /\ h < next_handle
    /\ closed' = closed \cup {h}
    /\ UNCHANGED <<paths, files, next_handle, capacity, bytes_used, fsync_lies, torn, writes, synced, poisoned>>

\* The file of a handle goes, with the bytes it used.
Without(h) == Restrict(files, DOMAIN files \ {h})

Rename(from, to) ==
    LET h == paths[from]
        old == IF to \in DOMAIN paths THEN paths[to] ELSE h
    IN  /\ ~poisoned /\ from \in DOMAIN paths /\ from # to
        /\ paths' = [q \in (DOMAIN paths \cup {to}) \ {from} |-> IF q = to THEN h ELSE paths[q]]
        /\ files' = IF old = h THEN files ELSE Without(old)
        /\ bytes_used' = IF old = h THEN bytes_used ELSE bytes_used - Length(old)
        /\ UNCHANGED <<next_handle, closed, capacity, fsync_lies, torn, writes, synced, poisoned>>

RemoveFile(p) ==
    /\ ~poisoned /\ p \in DOMAIN paths
    /\ paths' = Restrict(paths, DOMAIN paths \ {p})
    /\ files' = Without(paths[p])
    /\ bytes_used' = bytes_used - Length(paths[p])
    /\ UNCHANGED <<next_handle, closed, capacity, fsync_lies, torn, writes, synced, poisoned>>

\* crash_and_reopen: each file is cut to its durable length; the capacity stays.
CrashAndReopen ==
    /\ ~poisoned
    /\ files' = [h \in DOMAIN files |-> [data |-> SubSeq(files[h].data, 1, files[h].durable_len),
                                         durable_len |-> files[h].durable_len]]
    /\ bytes_used' = SumFunction([h \in DOMAIN files |-> files[h].durable_len])
    /\ closed' = Range(paths)
    /\ fsync_lies' = FALSE /\ torn' = NoCap
    /\ UNCHANGED <<paths, next_handle, capacity, writes, synced, poisoned>>

Next ==
    \/ set_disk_full_at \/ set_fsync_lies \/ inject_torn_write \/ CrashAndReopen
    \/ \E p \in Paths, create, excl, trunc \in BOOLEAN : Open(p, create, excl, trunc)
    \/ \E h \in Handles, n \in 1..MaxLen, pos \in 0..MaxLen : WriteAt(h, pos, n)
    \/ \E h \in Handles, n \in 0..MaxLen : ReadAt(h, n) \/ Fallocate(h, n) \/ SetLen(h, n)
    \/ \E h \in Handles : Fsync(h) \/ Close(h)
    \/ \E p, q \in Paths : Rename(p, q)
    \/ \E p \in Paths : RemoveFile(p)

Spec == Init /\ [][Next]_vars

-----------------------------------------------------------------------------
\* SimDriver's books balance through every operation, fault and crash: the bytes
\* in use are the files' lengths; every path names a file, no two paths the same
\* one; and what an honest fsync saw is still there, as far as it was not written
\* over since.
DiskBooksBalance ==
    /\ bytes_used = SumFunction([h \in DOMAIN files |-> Len(files[h].data)])
    /\ \A p \in DOMAIN paths : paths[p] \in DOMAIN files
    /\ IsInjective(paths)
    /\ \A h \in DOMAIN files \cap DOMAIN synced :
         /\ Len(synced[h]) <= Len(files[h].data)
         /\ \A i \in DOMAIN synced[h] : files[h].data[i] >= synced[h][i]
=============================================================================
