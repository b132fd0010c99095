------------------------------- MODULE Memfd -------------------------------
(***************************************************************************)
(* A memfd: the anonymous file of fs/memfd.rs with its seals, the locks of *)
(* the file and of each description's offset, and the shared writable      *)
(* mappings whose count decides whether F_SEAL_WRITE may be added.         *)
(*                                                                         *)
(* The content is its length and the number of writes made to it.  A call  *)
(* takes a step for each section of code under a lock; a section that      *)
(* takes one lock and gives it back before taking another is one step,     *)
(* enabled when the lock is free.                                          *)
(***************************************************************************)
EXTENDS Naturals, FiniteSets

CONSTANTS MemThread,   \* threads
          MemOps,      \* the calls each of them makes
          MemDesc,     \* open file descriptions
          FirstDesc,   \* the one memfd_create returns
          MaxMemLen,   \* bound on the length of the file
          MaxMemCalls, \* bound on the calls made
          ViewPages,   \* the lengths of mappings
          NoMemThread

VARIABLES len, edits,   \* MemfdInner::data: its length and how often it was written
          seals,        \* MemfdInner::seals
          shared,       \* writable_shared_mmaps
          innerLock,    \* holder of `inner'
          offsetLock,   \* holder of `offset', of every description
          offset,       \* where every description stands
          openDesc,     \* the descriptions there are
          views,        \* the shared mappings: [space, pages, writable, n]
          mcalls,       \* how many calls were made
          m             \* every thread's call

memVars == <<len, edits, seals, shared, innerLock, offsetLock, offset, openDesc, views,
             mcalls, m>>

Seals == {"seal", "shrink", "grow", "write"}

MemIdle == [at |-> "idle", d |-> FirstDesc, n |-> 0, pos |-> 0, append |-> FALSE]

\* make_memfd(allow_sealing)
MemInit ==
    /\ len = 0 /\ edits = 0 /\ shared = 0 /\ mcalls = 0
    /\ seals \in {{}, {"seal"}}
    /\ innerLock = NoMemThread
    /\ offsetLock = [d \in MemDesc |-> NoMemThread]
    /\ offset = [d \in MemDesc |-> 0]
    /\ openDesc = {FirstDesc}
    /\ views = {}
    /\ m = [t \in MemThread |-> MemIdle]

InnerFree == innerLock = NoMemThread
OffsetFree(d) == offsetLock[d] = NoMemThread

Begin(t, op) == m[t].at = "idle" /\ op \in MemOps[t] /\ mcalls < MaxMemCalls
Counted == mcalls' = mcalls + 1

\* check_write_at_inner and check_set_len_inner
WriteAllowed(pos, n) == "write" \notin seals /\ (pos + n > len => "grow" \notin seals)
SetLenAllowed(n) == (n < len => "shrink" \notin seals) /\ (n > len => "grow" \notin seals)

\* write_at_inner, when the check allows it.
MutWriteAtInner(pos, n) ==
    /\ edits' = edits + 1
    /\ len' = IF pos + n > len THEN pos + n ELSE len

WriteAtInner(pos, n) ==
    IF WriteAllowed(pos, n)
    THEN /\ edits' = edits + 1
         /\ len' = IF pos + n > len THEN pos + n ELSE len
    ELSE UNCHANGED <<edits, len>>

Written(pos, n) == IF WriteAllowed(pos, n) THEN n ELSE 0

---------------------------------------------------------------------------
(* write(2) and read(2)                                                    *)

\* check_write: find the position, then check it under the lock of the file.
EnterWrite(t) ==
    \E d \in openDesc, append \in BOOLEAN :
        /\ Begin(t, "write") /\ Counted
        /\ IF append THEN InnerFree ELSE OffsetFree(d)
        /\ m' = [m EXCEPT ![t] = [at |-> "check", d |-> d, n |-> 1, append |-> append,
                                  pos |-> IF append THEN len ELSE offset[d]]]
        /\ UNCHANGED <<len, edits, seals, shared, innerLock, offsetLock, offset, openDesc, views>>

CheckWrite(t) ==
    /\ m[t].at = "check" /\ InnerFree
    /\ m' = IF WriteAllowed(m[t].pos, m[t].n) /\ m[t].pos < MaxMemLen
            THEN [m EXCEPT ![t].at = "lock", ![t].pos = 0] ELSE [m EXCEPT ![t] = MemIdle]
    /\ UNCHANGED <<len, edits, seals, shared, innerLock, offsetLock, offset, openDesc, views,
                   mcalls>>

\* write and read take `inner', then `offset'.
LockOrder == <<"inner", "offset">>

EnterRead(t) ==
    \E d \in openDesc :
        /\ Begin(t, "read") /\ Counted
        /\ m' = [m EXCEPT ![t] = [MemIdle EXCEPT !.at = "readlock", !.d = d]]
        /\ UNCHANGED <<len, edits, seals, shared, innerLock, offsetLock, offset, openDesc, views>>

ReadLock(t) ==
    /\ m[t].at = "readlock"
    /\ m' = [m EXCEPT ![t].at = "read"]
    /\ IF LockOrder[1] = "inner"
       THEN InnerFree /\ innerLock' = t /\ UNCHANGED offsetLock
       ELSE OffsetFree(m[t].d) /\ offsetLock' = [offsetLock EXCEPT ![m[t].d] = t]
                /\ UNCHANGED innerLock
    /\ UNCHANGED <<len, edits, seals, shared, offset, openDesc, views, mcalls>>

Read(t) ==
    /\ m[t].at = "read"
    /\ IF LockOrder[2] = "offset" THEN OffsetFree(m[t].d) ELSE InnerFree
    /\ offset' = [offset EXCEPT ![m[t].d] = IF @ < len THEN @ + 1 ELSE @]
    /\ innerLock' = NoMemThread
    /\ offsetLock' = [offsetLock EXCEPT ![m[t].d] = NoMemThread]
    /\ m' = [m EXCEPT ![t] = MemIdle]
    /\ UNCHANGED <<len, edits, seals, shared, openDesc, views, mcalls>>

WriteLock(t) ==
    /\ m[t].at = "lock" /\ InnerFree
    /\ innerLock' = t
    /\ m' = [m EXCEPT ![t].at = "write"]
    /\ UNCHANGED <<len, edits, seals, shared, offsetLock, offset, openDesc, views, mcalls>>

\* write and write_append: an appending write takes `offset' after the data.
Write(t) ==
    LET d == m[t].d
        pos == IF m[t].append THEN len ELSE offset[d]
    IN  /\ m[t].at = "write" /\ OffsetFree(d)
        /\ pos + m[t].n <= MaxMemLen
        /\ WriteAtInner(pos, m[t].n)
        /\ offset' = [offset EXCEPT ![d] = pos + Written(pos, m[t].n)]
        /\ innerLock' = NoMemThread
        /\ m' = [m EXCEPT ![t] = MemIdle]
        /\ UNCHANGED <<seals, shared, offsetLock, openDesc, views, mcalls>>

\* Past the bound on the length the write is given up.
WriteBound(t) ==
    /\ m[t].at = "write" /\ OffsetFree(m[t].d)
    /\ (IF m[t].append THEN len ELSE offset[m[t].d]) + m[t].n > MaxMemLen
    /\ innerLock' = NoMemThread
    /\ m' = [m EXCEPT ![t] = MemIdle]
    /\ UNCHANGED <<len, edits, seals, shared, offsetLock, offset, openDesc, views, mcalls>>

---------------------------------------------------------------------------
(* lseek(2), ftruncate(2), F_ADD_SEALS, open of /proc/self/fd              *)

\* seek takes `offset', then `inner' for the size.
SeekLock(t) ==
    \E d \in openDesc :
        /\ Begin(t, "seek") /\ Counted
        /\ OffsetFree(d)
        /\ offsetLock' = [offsetLock EXCEPT ![d] = t]
        /\ m' = [m EXCEPT ![t] = [MemIdle EXCEPT !.at = "seek", !.d = d]]
        /\ UNCHANGED <<len, edits, seals, shared, innerLock, offset, openDesc, views>>

Seek(t) ==
    /\ m[t].at = "seek" /\ InnerFree
    /\ \E pos \in {0, len} : offset' = [offset EXCEPT ![m[t].d] = pos]
    /\ offsetLock' = [offsetLock EXCEPT ![m[t].d] = NoMemThread]
    /\ m' = [m EXCEPT ![t] = MemIdle]
    /\ UNCHANGED <<len, edits, seals, shared, innerLock, openDesc, views, mcalls>>

SetLen(t) ==
    \E n \in 0..MaxMemLen :
        /\ Begin(t, "truncate") /\ Counted /\ InnerFree
        /\ len' = IF SetLenAllowed(n) THEN n ELSE len
        /\ UNCHANGED <<edits, seals, shared, innerLock, offsetLock, offset, openDesc, views, m>>

SealAllowed(new) == "seal" \notin seals /\ ~("write" \in new /\ shared > 0)

AddSeals(t) ==
    \E new \in (SUBSET Seals) \ {{}} :
        /\ Begin(t, "seal") /\ Counted /\ InnerFree
        /\ seals' = IF SealAllowed(new) THEN seals \cup new ELSE seals
        /\ UNCHANGED <<len, edits, shared, innerLock, offsetLock, offset, openDesc, views, m>>

\* reopen_from_proc_fd, with O_TRUNC or without: a description of its own,
\* given up when the file may not be truncated.
Reopen(t) ==
    \E d \in MemDesc \ openDesc, trunc \in BOOLEAN :
        /\ Begin(t, "reopen") /\ Counted /\ (trunc => InnerFree)
        /\ IF trunc /\ ~SetLenAllowed(0) THEN UNCHANGED <<len, openDesc>>
           ELSE /\ len' = IF trunc THEN 0 ELSE len
                /\ openDesc' = openDesc \cup {d}
        /\ UNCHANGED <<edits, seals, shared, innerLock, offsetLock, offset, views, m>>

---------------------------------------------------------------------------
(* Shared mappings of the file                                             *)

Fresh == CHOOSE n \in 1..(Cardinality(views) + 1) : \A v \in views : v.n # n

\* sys_mmap_impl: refused while F_SEAL_WRITE is set; then the area; then the
\* count.  A mapping for reading is not counted.
MapCheck(t) ==
    \E pages \in ViewPages, writable \in BOOLEAN :
        /\ Begin(t, "mmap") /\ Counted /\ InnerFree
        /\ ~(writable /\ "write" \in seals)
        /\ m' = [m EXCEPT ![t] = [MemIdle EXCEPT !.at = "map", !.n = pages, !.append = writable]]
        /\ UNCHANGED <<len, edits, seals, shared, innerLock, offsetLock, offset, openDesc, views>>

MapArea(t) ==
    /\ m[t].at = "map"
    /\ views' = views \cup {[pages |-> m[t].n, writable |-> m[t].append, n |-> Fresh]}
    /\ m' = [m EXCEPT ![t] = IF @.append THEN [MemIdle EXCEPT !.at = "count"] ELSE MemIdle]
    /\ UNCHANGED <<len, edits, seals, shared, innerLock, offsetLock, offset, openDesc, mcalls>>

MapCount(t) ==
    /\ m[t].at = "count" /\ InnerFree
    /\ shared' = shared + 1
    /\ m' = [m EXCEPT ![t] = MemIdle]
    /\ UNCHANGED <<len, edits, seals, innerLock, offsetLock, offset, openDesc, views, mcalls>>

\* release_mmap_refs
Uncounted(v) == IF v.writable /\ shared > 0 THEN shared - 1 ELSE shared

\* munmap: of a whole mapping, or of a page of a longer one, whose area is
\* split first.
Munmap(t) ==
    \E v \in views :
        /\ Begin(t, "munmap") \/ (Begin(t, "split") /\ v.pages > 1)
        /\ Counted /\ InnerFree
        /\ views' = (views \ {v}) \cup
               (IF "split" \in MemOps[t] /\ v.pages > 1 THEN {[v EXCEPT !.pages = @ - 1]} ELSE {})
        /\ shared' = Uncounted(v)
        /\ UNCHANGED <<len, edits, seals, innerLock, offsetLock, offset, openDesc, m>>

\* mprotect: write access is refused while F_SEAL_WRITE is set.
Mprotect(t) ==
    \E v \in views :
        /\ Begin(t, "mprotect") /\ Counted /\ InnerFree
        /\ ~v.writable => "write" \notin seals
        /\ views' = (views \ {v}) \cup {[v EXCEPT !.writable = ~@]}
        /\ UNCHANGED <<len, edits, seals, shared, innerLock, offsetLock, offset, openDesc, m>>

MemNext ==
    \E t \in MemThread :
        \/ EnterWrite(t) \/ CheckWrite(t) \/ WriteLock(t) \/ Write(t) \/ WriteBound(t)
        \/ EnterRead(t) \/ ReadLock(t) \/ Read(t)
        \/ SeekLock(t) \/ Seek(t)
        \/ SetLen(t) \/ AddSeals(t) \/ Reopen(t)
        \/ MapCheck(t) \/ MapArea(t) \/ MapCount(t) \/ Munmap(t) \/ Mprotect(t)

MemSpec == MemInit /\ [][MemNext]_memVars

---------------------------------------------------------------------------
(* Correctness                                                             *)

\* A seal holds from the moment it is added, against calls that passed their check
\* before: no write(2) stores under F_SEAL_WRITE, not even one that also grows the
\* file; no write, truncation or reopening makes the file shorter under F_SEAL_SHRINK
\* or longer under F_SEAL_GROW; and F_SEAL_SEAL freezes the seals.
SealsHold ==
    [][/\ seals \subseteq seals'
       /\ "seal" \in seals => seals' = seals
       /\ "shrink" \in seals => len' >= len
       /\ "grow" \in seals => len' <= len
       /\ "write" \in seals => edits' = edits]_memVars

\* "Active writable MAP_SHARED mappings block F_SEAL_WRITE, matching the Linux rule
\* that sealing cannot race with already writable shared views": a file sealed against
\* writing has no writable shared mapping.
SealedMeansNoView ==
    "write" \in seals => \A v \in views : ~v.writable

\* Who waits for whom: a thread that holds one lock and needs the other.
WaitsFor(t) ==
    {u \in MemThread :
        \/ m[t].at \in {"read", "write"} /\ offsetLock[m[t].d] = u
        \/ m[t].at \in {"read", "seek"} /\ innerLock = u} \ {t}

\* No two threads wait for each other's lock: the lock of the file and the lock of an
\* offset are taken in one order.  seek takes them in the other one than read and write.
LocksOrdered == \A t, u \in MemThread : ~(u \in WaitsFor(t) /\ t \in WaitsFor(u))
=============================================================================
