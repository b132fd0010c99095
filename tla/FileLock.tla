------------------------------ MODULE FileLock ------------------------------
(***************************************************************************)
(* Advisory locks (syscall/fs/fd_lock.rs): record locks owned by a process *)
(* (F_SETLK) or an open file description (F_OFD_SETLK), flock locks, the   *)
(* waiters of the two tables, EDEADLK, and the release of locks when a     *)
(* descriptor is closed and when a process exits.  Each table is one lock; *)
(* closing takes the tables several times and looks at every descriptor    *)
(* table in between.                                                       *)
(***************************************************************************)
EXTENDS Integers, Sequences, SequencesExt, FiniteSetsExt

CONSTANTS LockThread, ProcOf,    \* threads, and the process of each
          Desc, KeyOf,           \* open file descriptions, and the file of each
          SharedBy,              \* the processes that have a description open at first
          Starts, Lens, EOF,     \* l_start and l_len; EOF is LOCK_TO_EOF
          Kinds,                 \* the lock calls made: "posix", "ofd", "flock"
          WaitOnly               \* calls always wait (F_SETLKW, no LOCK_NB)

Procs == {ProcOf[t] : t \in LockThread}
Owner == {<<"process", p>> : p \in Procs} \cup {<<"file", d>> : d \in Desc}

VARIABLES
    locks,      \* RECORD_LOCK_TABLE.locks: key, owner, type, start, end
    lwaiters,   \* RECORD_LOCK_TABLE.waiters, in order
    flocks,     \* FLOCK_TABLE.locks: key, owner, mode
    fwaiters,   \* FLOCK_TABLE.waiters
    refs,       \* the descriptions in each process's descriptor table
    lcall,      \* the lock call or close a thread is in
    lasleep,    \* TaskStatus::Blocked
    bytes       \* ghost: the lock of each owner on each byte

lockVars == <<locks, lwaiters, flocks, fwaiters, refs, lcall, lasleep, bytes>>

NoLockCall == [op |-> "none"]
Keys == {KeyOf[d] : d \in Desc}

LockInit ==
    /\ locks = {} /\ lwaiters = <<>> /\ flocks = {} /\ fwaiters = <<>>
    /\ refs = [p \in Procs |-> {d \in Desc : p \in SharedBy[d]}]
    /\ lcall = [t \in LockThread |-> NoLockCall]
    /\ lasleep = [t \in LockThread |-> FALSE]
    /\ bytes = [x \in Keys \X Owner \X (0 .. EOF) |-> "none"]

-----------------------------------------------------------------------------
(* RecordLockTable.                                                        *)

LockConflicts(a, b) == a = "WR" \/ b = "WR"
RangesOverlap(s1, e1, s2, e2) == s1 <= e2 /\ s2 <= e1

\* flock_range with l_whence = SEEK_SET.
FlockRange(start, len) ==
    IF len > 0 THEN <<start, start + len - 1>>
    ELSE IF len < 0 THEN <<start + len, start - 1>> ELSE <<start, EOF>>

FindConflicts(r) ==
    {l \in locks : /\ l.key = r.key /\ l.owner # r.owner /\ LockConflicts(l.type, r.type)
                   /\ RangesOverlap(l.start, l.end, r.start, r.end)}

Mine(r) == {l \in locks : /\ l.key = r.key /\ l.owner = r.owner
                          /\ RangesOverlap(l.start, l.end, r.start, r.end)}

\* What remove_owned_range keeps of a lock it cuts.
Pieces(l, r) ==
    (IF l.start < r.start THEN {[l EXCEPT !.end = r.start - 1]} ELSE {})
    \cup (IF r.end # EOF /\ r.end < l.end THEN {[l EXCEPT !.start = r.end + 1]} ELSE {})

RemoveOwnedRange(r) == (locks \ Mine(r)) \cup UNION {Pieces(l, r) : l \in Mine(r)}

\* merge_adjacent: the locks of one key, owner and type, by start, joined when they touch.
MergeGroup(group) ==
    LET ordered == SetToSortSeq(group, LAMBDA a, b : a.start < b.start \/ (a.start = b.start /\ a.end < b.end))
        join(l, acc) ==
            IF acc = <<>> THEN <<l>>
            ELSE LET last == Last(acc) IN
                 IF last.end = EOF \/ l.start <= last.end + 1
                 THEN Append(SubSeq(acc, 1, Len(acc) - 1),
                             [last EXCEPT !.end = IF l.end > @ THEN l.end ELSE @])
                 ELSE Append(acc, l) IN
    ToSet(FoldLeft(LAMBDA acc, l : join(l, acc), <<>>, ordered))
MergeAdjacent(ls) ==
    UNION {MergeGroup({l \in ls : l.key = g[1] /\ l.owner = g[2] /\ l.type = g[3]})
           : g \in Keys \X Owner \X {"RD", "WR"}}

\* A released range of lock l frees waiter w to try again.
Freed(w, l, r) ==
    w.key = l.key /\ RangesOverlap(w.start, w.end,
        IF l.start > r.start THEN l.start ELSE r.start, IF l.end < r.end THEN l.end ELSE r.end)

WakeLock(tasks) == lasleep' = [t \in LockThread |-> lasleep[t] /\ t \notin tasks]

\* set_lock once there is no conflict, for F_UNLCK too; take_waiters_for_released.
SetLock(r) ==
    LET wakes(w) == \E l \in Mine(r) : Freed(w, l, r) IN
    /\ locks' = IF r.type = "UN" THEN RemoveOwnedRange(r) ELSE MergeAdjacent(RemoveOwnedRange(r) \cup {r})
    /\ lwaiters' = SelectSeq(lwaiters, LAMBDA w : ~wakes(w))
    /\ WakeLock({lwaiters[i].task : i \in {j \in DOMAIN lwaiters : wakes(lwaiters[j])}})
    /\ bytes' = [x \in DOMAIN bytes |->
                   IF x[1] = r.key /\ x[2] = r.owner /\ r.start <= x[3] /\ x[3] <= r.end
                   THEN IF r.type = "UN" THEN "none" ELSE r.type
                   ELSE bytes[x]]

\* would_deadlock: an owner in the way waits for a lock of this one.
WouldDeadlock(r) ==
    \E c \in FindConflicts(r) : \E i \in DOMAIN lwaiters :
        LET w == lwaiters[i] IN
        /\ w.owner = c.owner
        /\ \E l \in locks : /\ l.owner = r.owner /\ l.key = w.key /\ LockConflicts(l.type, w.type)
                            /\ RangesOverlap(l.start, l.end, w.start, w.end)

-----------------------------------------------------------------------------
(* Lock calls.  A thread that sleeps tries again when it is woken.         *)

EnterLock(t) ==
    /\ lcall[t].op = "none"
    /\ \E d \in refs[ProcOf[t]], kind \in Kinds, type \in {"RD", "WR", "UN"}, start \in Starts, len \in Lens :
        LET range == FlockRange(start, len)
            owner == IF kind = "posix" THEN <<"process", ProcOf[t]>> ELSE <<"file", d>> IN
        /\ kind = "flock" => start = 0 /\ len = 0
        /\ range[1] >= 0 /\ range[1] <= range[2]
        /\ \E wait \in IF WaitOnly THEN {TRUE} ELSE BOOLEAN :
            lcall' = [lcall EXCEPT ![t] =
                        [op |-> kind, wait |-> wait,
                         req |-> [key |-> KeyOf[d], owner |-> owner, type |-> type,
                                  start |-> range[1], end |-> range[2]]]]
    /\ UNCHANGED <<locks, lwaiters, flocks, fwaiters, refs, lasleep, bytes>>

LockReturn(t) == lcall' = [lcall EXCEPT ![t] = NoLockCall]

\* EAGAIN, or EDEADLK for a process.
Refuse(t, r) == ~lcall[t].wait \/ (lcall[t].op = "posix" /\ WouldDeadlock(r))

\* fcntl_setlk_with_owner and one turn of fcntl_setlkw_with_owner.
RecordLock(t) ==
    LET r == lcall[t].req IN
    /\ lcall[t].op \in {"posix", "ofd"} /\ ~lasleep[t]
    /\ \/ /\ r.type = "UN" \/ FindConflicts(r) = {}
          /\ SetLock(r) /\ LockReturn(t)
       \/ /\ r.type # "UN" /\ FindConflicts(r) # {}
          /\ IF Refuse(t, r) THEN LockReturn(t) /\ UNCHANGED <<lwaiters, lasleep>>
             ELSE /\ lwaiters' = Append(lwaiters, [key |-> r.key, owner |-> r.owner, type |-> r.type,
                                                   start |-> r.start, end |-> r.end, task |-> t])
                  /\ lasleep' = [lasleep EXCEPT ![t] = TRUE]
                  /\ UNCHANGED lcall
          /\ UNCHANGED <<locks, bytes>>
    /\ UNCHANGED <<flocks, fwaiters, refs>>

FlockConflict(r) ==
    \E l \in flocks : l.key = r.key /\ l.owner # r.owner /\ LockConflicts(l.mode, r.type)

\* take_waiters_for_keys.
TakeFlockWaiters(keys) ==
    /\ fwaiters' = SelectSeq(fwaiters, LAMBDA w : w.key \notin keys)
    /\ WakeLock({fwaiters[i].task : i \in {j \in DOMAIN fwaiters : fwaiters[j].key \in keys}})

\* flock_operation; LOCK_SH, LOCK_EX and LOCK_UN are RD, WR and UN.
Flock(t) ==
    LET r == lcall[t].req
        others == {l \in flocks : l.key # r.key \/ l.owner # r.owner} IN
    /\ lcall[t].op = "flock" /\ ~lasleep[t]
    /\ \/ /\ r.type = "UN" \/ ~FlockConflict(r)
          /\ flocks' = IF r.type = "UN" THEN others
                       ELSE others \cup {[key |-> r.key, owner |-> r.owner, mode |-> r.type]}
          /\ TakeFlockWaiters({r.key}) /\ LockReturn(t)
       \/ /\ r.type # "UN" /\ FlockConflict(r)
          /\ IF ~lcall[t].wait THEN LockReturn(t) /\ UNCHANGED <<fwaiters, lasleep>>
             ELSE /\ fwaiters' = Append(fwaiters, [key |-> r.key, owner |-> r.owner, task |-> t])
                  /\ lasleep' = [lasleep EXCEPT ![t] = TRUE]
                  /\ UNCHANGED lcall
          /\ UNCHANGED flocks
    /\ UNCHANGED <<locks, lwaiters, refs, bytes>>

-----------------------------------------------------------------------------
(* Closing a descriptor.                                                   *)

\* ACTIVE_LOCK_CLASSES, published by every change of a table.
Active ==
    {x.owner[1] : x \in locks} \cup {lwaiters[i].owner[1] : i \in DOMAIN lwaiters}
    \cup (IF flocks # {} \/ fwaiters # <<>> THEN {"flock"} ELSE {})

ClosePhase(t, at) == lcall' = [lcall EXCEPT ![t].at = at]

\* The entry leaves the descriptor table before its locks are released.
CloseFd(t) ==
    /\ lcall[t].op = "none"
    /\ \E d \in refs[ProcOf[t]] :
        /\ refs' = [refs EXCEPT ![ProcOf[t]] = @ \ {d}]
        /\ lcall' = [lcall EXCEPT ![t] = [op |-> "close", at |-> "begin", left |-> {d}, exit |-> FALSE]]
    /\ UNCHANGED <<locks, lwaiters, flocks, fwaiters, lasleep, bytes>>

\* The exit of the last thread: the descriptor table is emptied, then
\* release_record_locks_for_process, then every entry is closed.
Exit(t) ==
    LET p == ProcOf[t]  me == <<"process", p>>
        mine == {l \in locks : l.owner = me}
        wakes(w) == \E l \in mine : w.key = l.key /\ RangesOverlap(w.start, w.end, l.start, l.end) IN
    /\ lcall[t].op = "none" /\ \A u \in LockThread : ProcOf[u] = p => u = t
    /\ refs' = [refs EXCEPT ![p] = {}]
    /\ locks' = locks \ mine
    /\ lwaiters' = SelectSeq(lwaiters, LAMBDA w : w.owner # me /\ ~wakes(w))
    /\ WakeLock({lwaiters[i].task : i \in {j \in DOMAIN lwaiters : wakes(lwaiters[j])}})
    /\ bytes' = [x \in DOMAIN bytes |-> IF x[2] = me THEN "none" ELSE bytes[x]]
    /\ lcall' = [lcall EXCEPT ![t] = IF refs[p] = {} THEN [op |-> "exited"]
                                     ELSE [op |-> "close", at |-> "begin", left |-> refs[p], exit |-> TRUE]]
    /\ UNCHANGED <<flocks, fwaiters>>

\* release_file_locks_for_close reads the active classes once.
CloseBegin(t) ==
    LET c == lcall[t] IN
    /\ c.op = "close" /\ c.at = "begin"
    /\ \E d \in c.left :
        lcall' = [lcall EXCEPT ![t] = [op |-> "close", at |-> "posix", left |-> c.left \ {d},
                                       exit |-> c.exit, desc |-> d, active |-> Active]]
    /\ UNCHANGED <<locks, lwaiters, flocks, fwaiters, refs, lasleep, bytes>>

Closed(t) ==
    LET c == lcall[t] IN
    lcall' = [lcall EXCEPT ![t] =
        IF c.left # {} THEN [op |-> "close", at |-> "begin", left |-> c.left, exit |-> c.exit]
        ELSE IF c.exit THEN [op |-> "exited"] ELSE NoLockCall]

\* release_record_locks_for_close: all locks of the process on the file.
ClosePosix(t) ==
    LET c == lcall[t]
        r == [key |-> KeyOf[c.desc], owner |-> <<"process", ProcOf[t]>>, type |-> "UN", start |-> 0, end |-> EOF] IN
    /\ c.op = "close" /\ c.at = "posix"
    /\ IF "process" \in c.active /\ \E l \in locks : l.owner = r.owner
       THEN SetLock(r) ELSE UNCHANGED <<locks, lwaiters, lasleep, bytes>>
    /\ ClosePhase(t, "ofd")
    /\ UNCHANGED <<flocks, fwaiters, refs>>

Referenced(d) == \E p \in Procs : d \in refs[p]

\* has_file_description_state and file_description_still_referenced, ...
CloseOfdCheck(t) ==
    LET c == lcall[t]  me == <<"file", c.desc>> IN
    /\ c.op = "close" /\ c.at = "ofd"
    /\ ClosePhase(t, IF /\ "file" \in c.active
                        /\ \/ \E l \in locks : l.owner = me
                           \/ \E i \in DOMAIN lwaiters : lwaiters[i].owner = me
                        /\ ~Referenced(c.desc)
                     THEN "ofd release" ELSE "flock")
    /\ UNCHANGED <<locks, lwaiters, flocks, fwaiters, refs, lasleep, bytes>>

\* ... release_for_file_description: the owner's waiters are removed, not woken.
CloseOfdRelease(t) ==
    LET c == lcall[t]  me == <<"file", c.desc>>
        mine == {l \in locks : l.owner = me}
        left == SelectSeq(lwaiters, LAMBDA w : w.owner # me)
        wakes(w) == \E l \in mine : w.key = l.key /\ RangesOverlap(w.start, w.end, l.start, l.end) IN
    /\ c.op = "close" /\ c.at = "ofd release"
    /\ locks' = locks \ mine
    /\ lwaiters' = SelectSeq(left, LAMBDA w : ~wakes(w))
    /\ WakeLock({left[i].task : i \in {j \in DOMAIN left : wakes(left[j])}})
    /\ bytes' = [x \in DOMAIN bytes |-> IF x[2] = me THEN "none" ELSE bytes[x]]
    /\ ClosePhase(t, "flock")
    /\ UNCHANGED <<flocks, fwaiters, refs>>

CloseFlockCheck(t) ==
    LET c == lcall[t]  me == <<"file", c.desc>> IN
    /\ c.op = "close" /\ c.at = "flock"
    /\ IF /\ "flock" \in c.active
          /\ \/ \E l \in flocks : l.owner = me
             \/ \E i \in DOMAIN fwaiters : fwaiters[i].owner = me
          /\ ~Referenced(c.desc)
       THEN ClosePhase(t, "flock release") ELSE Closed(t)
    /\ UNCHANGED <<locks, lwaiters, flocks, fwaiters, refs, lasleep, bytes>>

\* release_owner.
CloseFlockRelease(t) ==
    LET c == lcall[t]  me == <<"file", c.desc>>
        keys == {l.key : l \in {k \in flocks : k.owner = me}}
        left == SelectSeq(fwaiters, LAMBDA w : w.owner # me) IN
    /\ c.op = "close" /\ c.at = "flock release"
    /\ flocks' = {l \in flocks : l.owner # me}
    /\ fwaiters' = SelectSeq(left, LAMBDA w : w.key \notin keys)
    /\ WakeLock({left[i].task : i \in {j \in DOMAIN left : left[j].key \in keys}})
    /\ Closed(t)
    /\ UNCHANGED <<locks, lwaiters, refs, bytes>>

LockNext ==
    \E t \in LockThread :
        \/ EnterLock(t) \/ RecordLock(t) \/ Flock(t)
        \/ CloseFd(t) \/ Exit(t) \/ CloseBegin(t) \/ ClosePosix(t) \/ CloseOfdCheck(t) \/ CloseOfdRelease(t)
        \/ CloseFlockCheck(t) \/ CloseFlockRelease(t)

LockSpec == LockInit /\ [][LockNext]_lockVars

-----------------------------------------------------------------------------
\* The table says of every byte what the calls on it did: splitting, replacing and
\* merging ranges neither loses nor invents a byte of lock, and an owner's ranges
\* of one type neither overlap nor touch.
RangesExact ==
    /\ \A x \in DOMAIN bytes :
         LET here == {l \in locks : l.key = x[1] /\ l.owner = x[2] /\ l.start <= x[3] /\ x[3] <= l.end} IN
         {l.type : l \in here} = (IF bytes[x] = "none" THEN {} ELSE {bytes[x]}) /\ Cardinality(here) <= 1

\* No byte of a file has a write lock of one owner and any lock of another.
LocksExclude ==
    /\ \A a, b \in locks : a.owner # b.owner /\ a.key = b.key /\ RangesOverlap(a.start, a.end, b.start, b.end)
                           => a.type = "RD" /\ b.type = "RD"
    /\ \A a, b \in flocks : a.owner # b.owner /\ a.key = b.key => a.mode = "RD" /\ b.mode = "RD"

\* A thread asleep for a process's lock, or for a lock of a description that some
\* process still has open, is among the waiters and a lock is in its way.
LockSleepersMustWait ==
    \A t \in LockThread : lasleep[t] =>
        LET r == lcall[t].req IN
        r.owner[1] = "process" \/ Referenced(r.owner[2]) =>
            IF lcall[t].op = "flock"
            THEN FlockConflict(r) /\ \E i \in DOMAIN fwaiters : fwaiters[i].task = t
            ELSE FindConflicts(r) # {} /\ \E i \in DOMAIN lwaiters : lwaiters[i].task = t

\* Two processes do not wait for record locks of each other: one gets EDEADLK.
NoPairDeadlock ==
    \A t, u \in LockThread :
        /\ lasleep[t] /\ lcall[t].op = "posix" /\ lasleep[u] /\ lcall[u].op = "posix"
        => ~(/\ \E l \in FindConflicts(lcall[t].req) : l.owner = lcall[u].req.owner
             /\ \E l \in FindConflicts(lcall[u].req) : l.owner = lcall[t].req.owner)
=============================================================================
