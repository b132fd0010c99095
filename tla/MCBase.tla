------------------------------- MODULE MCBase -------------------------------
(* What the rest of the kernel stands on, on small instances: memory, and    *)
(* the primitives other components wait with (the reader/writer lock,        *)
(* snapshots, TLB shootdown, futexes, signals).  `on' names the one that     *)
(* runs; the variables of the others keep their initial values.              *)
EXTENDS FrameAlloc, SleepRwLock, Snapshot, Signals, TLC

CONSTANT Running    \* the instances of this run

VARIABLES
    areas, pte, mem, fault, brk, hint, live, calls, view,                 \* Vma
    disk, overlay, truth, lease, gen, pages, lru, stalled, loading, gatesDone, loads,
    rd, vmas, mapped, fl, wr, flushes, unsaved, seen, counts,             \* PageCache
    segs, skeyed, snext, srequested, shmAreas, retiring, shmCall, incs,   \* SysvShm
    len, edits, seals, shared, innerLock, offsetLock, offset, openDesc, views,
    mcalls, m,                                                            \* Memfd
    inodes, nextIno, want, opens,                                         \* Tmpfs
    tpte, given, tgen, actives, editing, cur, mode, tlb, obs, dirty, token, flush, job,
    pending, remaining, reqSeq, doneSeq, taken, tlbFault,                 \* Tlb
    value, queue, state, bucket, taskBucket, bits, status, at, word, expected, fseen,
    expired, timers, fsignal, woken, victim, futexFault,                  \* Futex
    futex, waiters, holder, place, read, next, holds, asleep, late, piSignal,  \* FutexPi
    on

\* The allocator: two CPUs, and a context that runs before CPUs have ids.
FrameContexts == "a" :> 1 @@ "b" :> 2 @@ "early" :> 0

Mapping(s, f, g) == [shared |-> s, file |-> f, grow |-> g]
\* One process: every call that places, splits, moves or drops areas.
Layout == INSTANCE Vma WITH
    Space <- {"p"}, Thread <- {"t"}, SpaceOf <- [t \in {"t"} |-> "p"], Frame <- {1},
    HeapTop <- 0, MmapLo <- 1, MmapHi <- 4, FixedAt <- {1, 2}, Lens <- {1, 2},
    FileLen <- 2, GuardGap <- 1,
    Kinds <- {Mapping(FALSE, TRUE, FALSE), Mapping(FALSE, FALSE, TRUE)},
    Perms <- {"r", "rw"}, Calls <- {"mmap", "fixed", "munmap", "protect", "remap", "advise"},
    MaxCalls <- 2, Stored <- {}

\* Parent and child that share frames after fork.
Sharing == INSTANCE Vma WITH
    Space <- {"p", "q"}, Thread <- {"t", "u"},
    SpaceOf <- [t \in {"t", "u"} |-> IF t = "t" THEN "p" ELSE "q"], Frame <- {1, 2, 3},
    HeapTop <- 1, MmapLo <- 1, MmapHi <- 2, FixedAt <- {1}, Lens <- {1},
    FileLen <- 3, GuardGap <- 1,
    Kinds <- {Mapping(FALSE, FALSE, FALSE), Mapping(TRUE, FALSE, FALSE)},
    Perms <- {"none", "rw"}, Calls <- {"mmap", "protect", "brk", "fork", "exit"},
    MaxCalls <- 3, Stored <- {1}

\* A reader with read-ahead against a writer, with failing reads.
Reading == INSTANCE PageCache WITH
    Reader <- {"r"}, Mapper <- {}, MapKind <- <<>>, Born <- {}, Writer <- {"w"},
    WriteOps <- {"cached", "direct", "sync"}, MapCalls <- {}, PageCount <- 2, Readahead <- 2,
    SoftMax <- 1, MaxWrites <- 2, MaxReads <- 2, MaxFaults <- 0, IoErrors <- {"r"},
    NoThread <- "none"

\* Two readers of two pages and direct writes.
TwoReaders == INSTANCE PageCache WITH
    Reader <- {"r", "s"}, Mapper <- {}, MapKind <- <<>>, Born <- {}, Writer <- {"w"},
    WriteOps <- {"direct"}, MapCalls <- {}, PageCount <- 2, Readahead <- 1,
    SoftMax <- 1, MaxWrites <- 1, MaxReads <- 2, MaxFaults <- 0, IoErrors <- {},
    NoThread <- "none"

\* One reader that loads its pages one by one while they are written.
OneReader == INSTANCE PageCache WITH
    Reader <- {"r"}, Mapper <- {}, MapKind <- <<>>, Born <- {}, Writer <- {"w"},
    WriteOps <- {"direct"}, MapCalls <- {}, PageCount <- 2, Readahead <- 1,
    SoftMax <- 1, MaxWrites <- 2, MaxReads <- 1, MaxFaults <- 0, IoErrors <- {},
    NoThread <- "none"

\* A private mapping of two pages that the file's writer races.
PrivateMap == INSTANCE PageCache WITH
    Reader <- {}, Mapper <- {"m"}, MapKind <- [x \in {"m"} |-> "private"],
    Born <- {"m"}, Writer <- {"w"}, WriteOps <- {"cached", "direct"},
    MapCalls <- {"unmap", "protect"}, PageCount <- 2, Readahead <- 2,
    SoftMax <- 1, MaxWrites <- 1, MaxReads <- 0, MaxFaults <- 2, IoErrors <- {},
    NoThread <- "none"

\* A private mapping that a fork copies.
ForkedMap == INSTANCE PageCache WITH
    Reader <- {}, Mapper <- {"m", "c"}, MapKind <- [x \in {"m", "c"} |-> "private"],
    Born <- {"m"}, Writer <- {"w"}, WriteOps <- {"cached", "direct"},
    MapCalls <- {"unmap", "protect", "fork"}, PageCount <- 1, Readahead <- 2,
    SoftMax <- 1, MaxWrites <- 1, MaxReads <- 0, MaxFaults <- 1, IoErrors <- {},
    NoThread <- "none"

\* One shared mapping that is stored to and unmapped.
SharedMap == INSTANCE PageCache WITH
    Reader <- {}, Mapper <- {"m"}, MapKind <- [x \in {"m"} |-> "shared"],
    Born <- {"m"}, Writer <- {"w"}, WriteOps <- {"cached"},
    MapCalls <- {"store", "unmap"}, PageCount <- 1, Readahead <- 2,
    SoftMax <- 1, MaxWrites <- 2, MaxReads <- 0, MaxFaults <- 3, IoErrors <- {},
    NoThread <- "none"

\* The same with msync.
SyncedMap == INSTANCE PageCache WITH
    Reader <- {}, Mapper <- {"m"}, MapKind <- [x \in {"m"} |-> "shared"],
    Born <- {"m"}, Writer <- {"w"}, WriteOps <- {"cached"},
    MapCalls <- {"store", "msync"}, PageCount <- 1, Readahead <- 2,
    SoftMax <- 1, MaxWrites <- 2, MaxReads <- 0, MaxFaults <- 2, IoErrors <- {},
    NoThread <- "none"

\* A parent and a child that attach, split and detach segments.
Shm == INSTANCE SysvShm WITH
    ShmProc <- {1, 2}, ShmBorn <- {1}, ShmKey <- {"k"}, Private <- "private",
    ShmOwner <- [p \in {1, 2} |-> "u"], Sizes <- {2}, SpaceTop <- 2, SHMMNI <- 2, SHMALL <- 2,
    NextShmIds <- {1}, MaxShmId <- 2, MaxInc <- 2

MemfdLocks == [t \in {"a", "b"} |-> IF t = "a" THEN {"write", "read"}
                                    ELSE {"write", "read", "truncate", "seal", "reopen"}]
MemfdViews == [t \in {"a", "b"} |-> IF t = "a" THEN {"mmap", "munmap", "seal"} ELSE {"write"}]
MemfdSeals == [t \in {"a", "b"} |-> IF t = "a" THEN {"mmap"} ELSE {"seal"}]
MemfdAlone == [t \in {"a"} |-> {"write", "seek", "mmap", "mprotect", "munmap", "read"}]

\* Reads and writes beside truncations, seals and descriptions of their own.
Locking == INSTANCE Memfd WITH
    MemThread <- {"a", "b"}, MemOps <- MemfdLocks, MemDesc <- {1, 2}, FirstDesc <- 1,
    MaxMemLen <- 2, MaxMemCalls <- 4, ViewPages <- {1, 2}, NoMemThread <- "none"
\* Writable views, and seals added by the thread that makes them, beside writes.
Viewing == INSTANCE Memfd WITH
    MemThread <- {"a", "b"}, MemOps <- MemfdViews, MemDesc <- {1, 2}, FirstDesc <- 1,
    MaxMemLen <- 2, MaxMemCalls <- 3, ViewPages <- {1, 2}, NoMemThread <- "none"
\* One thread maps, another seals.
Sealing == INSTANCE Memfd WITH
    MemThread <- {"a", "b"}, MemOps <- MemfdSeals, MemDesc <- {1}, FirstDesc <- 1,
    MaxMemLen <- 0, MaxMemCalls <- 2, ViewPages <- {1}, NoMemThread <- "none"
\* One thread that also seeks and changes the rights of its views.
Alone == INSTANCE Memfd WITH
    MemThread <- {"a"}, MemOps <- MemfdAlone, MemDesc <- {1, 2}, FirstDesc <- 1,
    MaxMemLen <- 2, MaxMemCalls <- 3, ViewPages <- {1, 2}, NoMemThread <- "none"

FileCalls == {"create", "write", "truncate", "allocate", "zero", "punch"}
\* Sparse files.
Sparse == INSTANCE Tmpfs WITH
    TmpOps <- FileCalls, TmpNames <- {"x"}, TmpKinds <- {"file"}, MaxIno <- 3, MaxOpens <- 1,
    MaxEnd <- 3, Buffers <- {<<1>>, <<1, 2>>, <<1, 1, 2>>}, ZeroInside <- FALSE,
    InlineLimit <- 0, ExtentLimit <- 2, PayloadLimit <- 20, Quota <- 99, QuotaStep <- 1,
    NoQuota <- 99
\* Files that start inline.
Inline == INSTANCE Tmpfs WITH
    TmpOps <- FileCalls, TmpNames <- {"x"}, TmpKinds <- {"file"}, MaxIno <- 3, MaxOpens <- 1,
    MaxEnd <- 4, Buffers <- {<<1>>, <<1, 2>>, <<1, 1, 2>>}, ZeroInside <- FALSE,
    InlineLimit <- 2, ExtentLimit <- 2, PayloadLimit <- 20, Quota <- 99, QuotaStep <- 1,
    NoQuota <- 99
\* Files that stay inline, with a payload limit.
Small == INSTANCE Tmpfs WITH
    TmpOps <- FileCalls, TmpNames <- {"x"}, TmpKinds <- {"file"}, MaxIno <- 3, MaxOpens <- 1,
    MaxEnd <- 4, Buffers <- {<<1>>, <<1, 2>>, <<0, 0>>}, ZeroInside <- TRUE,
    InlineLimit <- 4, ExtentLimit <- 2, PayloadLimit <- 3, Quota <- 99, QuotaStep <- 1,
    NoQuota <- 99
\* Appends of zeros and of bytes that repeat.
Tails == INSTANCE Tmpfs WITH
    TmpOps <- {"create", "write", "truncate", "punch"}, TmpNames <- {"x"},
    TmpKinds <- {"file"}, MaxIno <- 3, MaxOpens <- 1, MaxEnd <- 4,
    Buffers <- {<<1>>, <<1, 2>>, <<0>>, <<0, 0>>, <<1, 0, 0>>}, ZeroInside <- FALSE,
    InlineLimit <- 0, ExtentLimit <- 2, PayloadLimit <- 20, Quota <- 99, QuotaStep <- 1,
    NoQuota <- 99
\* A mount with a quota.
Limited == INSTANCE Tmpfs WITH
    TmpOps <- {"create", "write", "allocate", "punch"}, TmpNames <- {"x", "y"},
    TmpKinds <- {"file"}, MaxIno <- 4, MaxOpens <- 1, MaxEnd <- 2,
    Buffers <- {<<1>>, <<1, 2>>}, ZeroInside <- FALSE, InlineLimit <- 0, ExtentLimit <- 2,
    PayloadLimit <- 20, Quota <- 3, QuotaStep <- 1, NoQuota <- 99
\* Names and directories.
Names == INSTANCE Tmpfs WITH
    TmpOps <- {"create", "link", "unlink", "renamewithin", "exchange", "open"},
    TmpNames <- {"x", "y"}, TmpKinds <- {"dir", "other"}, MaxIno <- 5, MaxOpens <- 1,
    MaxEnd <- 0, Buffers <- {<<1>>}, ZeroInside <- FALSE, InlineLimit <- 0,
    ExtentLimit <- 2, PayloadLimit <- 20, Quota <- 99, QuotaStep <- 1, NoQuota <- 99

\* Snapshots with a reader that claims its slot with a plain store; the readers of
\* the run's own constants use an atomic operation.
PlainSnap == INSTANCE Snapshot WITH PlainStore <- {"s"}, MaxPublish <- 1, MaxBuffer <- 2

\* Two CPUs and one address space.
Shootdown == INSTANCE Tlb WITH
    Cpu <- {1, 2}, UserCpu <- {1, 2}, Space <- {"a"}, NoSpace <- "none", MaxEdit <- 2,
    pte <- tpte, gen <- tgen, freed <- given

\* One waiter that is timed, signalled and terminated.
OneWaiter == INSTANCE Futex WITH
    Waiter <- {"a"}, Waker <- {"k"}, Word <- {1, 2}, Bucket <- [w \in {1, 2} |-> w],
    Bits <- {1}, Timed <- {"a"}, Signalled <- {"a"}, Killed <- {"a"},
    NoThread <- "none", NoWord <- 0, NoBucket <- 0, seen <- fseen, fault <- futexFault, signal <- fsignal
\* Two waiters.
TwoWaiters == INSTANCE Futex WITH
    Waiter <- {"a", "b"}, Waker <- {"k"}, Word <- {1, 2}, Bucket <- [w \in {1, 2} |-> w],
    Bits <- {1}, Timed <- {}, Signalled <- {}, Killed <- {},
    NoThread <- "none", NoWord <- 0, NoBucket <- 0, seen <- fseen, fault <- futexFault, signal <- fsignal

\* Three threads on one CPU, two with timeouts and one with signals.
Pi == INSTANCE FutexPi WITH
    PiThread <- {"a", "b", "c"}, PiTimed <- {"a", "b"}, PiSignalled <- {"b", "c"}, Cpus <- 1,
    Free <- "none", signal <- piSignal

\* The signals of a process of two threads.  The run's own constants are those of two
\* CPUs: one thread polls while the other installs dispositions.
Disposition(h, reset, mask) == [h |-> h, reset |-> reset, defer |-> TRUE, mask |-> mask]
User == Disposition("user", FALSE, {})
PollActions ==
    {User, DefaultAct, Disposition("ignore", FALSE, {}), Disposition("user", TRUE, {})}
PollDispositions == [s \in {10, 17} |-> DefaultAct]
PollCalls == <<{"ppoll"}, {"sigaction"}>>
PollSends == [k \in {"k"} |-> {"kill", "tkill"}]

\* On one CPU, a thread in sigsuspend() whose handlers nest.
Suspending == INSTANCE Signals WITH
    Sig <- {10, 34}, Deliverable <- {10, 34}, Action <- {Disposition("user", FALSE, {34})},
    Dispositions <- [s \in {10, 34} |-> Disposition("user", FALSE, {34})],
    MaskChoices <- {{}, {10}}, WantChoices <- {{10}},
    Calls <- <<{"sigprocmask", "sigsuspend"}, {}>>, Sends <- [k \in {"k"} |-> {"kill", "tkill"}],
    MaxSends <- 3, MaxActions <- 0, Smp <- FALSE

\* On one CPU, a thread in sigtimedwait() beside one in ppoll().
Waiting == INSTANCE Signals WITH
    Sig <- {10, 15}, Deliverable <- {10, 15}, Action <- {User},
    Dispositions <- [s \in {10, 15} |-> User],
    MaskChoices <- {{}, {10}}, WantChoices <- {{10}, {10, 15}},
    Calls <- <<{"sigtimedwait"}, {"ppoll", "sigprocmask"}>>,
    Sends <- [k \in {"k"} |-> {"kill"}], MaxSends <- 2, MaxActions <- 0, Smp <- FALSE

\* Children that exit, faults, and signal frames that hit an unmapped stack.
Faulting == INSTANCE Signals WITH
    Sig <- {11, 17}, Deliverable <- {11, 17}, Action <- {User, DefaultAct},
    Dispositions <- [s \in {11, 17} |-> User], MaskChoices <- {{}}, WantChoices <- {{17}},
    Calls <- <<{"sigtimedwait", "ppoll"}, {"fault"}>>,
    Sends <- [k \in {"k"} |-> {"exit", "sigqueue"}],
    MaxSends <- 2, MaxActions <- 0, FrameFaults <- TRUE

pcVars == <<disk, overlay, truth, lease, gen, pages, lru, stalled, loading, gatesDone, loads,
            rd, vmas, mapped, fl, wr, flushes, unsaved, seen, counts>>
vmaVars == <<areas, pte, mem, fault, brk, hint, live, calls, view>>
shmVars == <<segs, skeyed, snext, srequested, shmAreas, retiring, shmCall, incs>>
memVars == <<len, edits, seals, shared, innerLock, offsetLock, offset, openDesc, views,
             mcalls, m>>
tmpVars == <<inodes, nextIno, want, opens>>
tlbVars == <<tpte, given, tgen, actives, editing, cur, mode, tlb, obs, dirty, token, flush,
             job, pending, remaining, reqSeq, doneSeq, taken, tlbFault>>
futexVars == <<value, queue, state, bucket, taskBucket, bits, status, at, word, expected,
               fseen, expired, timers, fsignal, woken, victim, futexFault>>
piVars == <<futex, waiters, holder, place, read, next, holds, asleep, late, piSignal>>
memoryVars == <<frameVars, vmaVars, pcVars, shmVars, memVars, tmpVars>>
syncVars == <<vars, snapVars, tlbVars, futexVars, piVars, sigVars>>
baseVars == <<memoryVars, syncVars, on>>

Memory == {"frames", "layout", "sharing", "reading", "one reader", "two readers",
           "private", "forked", "shared", "synced", "shm", "locking", "viewing", "alone", "sealing",
           "sparse", "inline", "small", "tails", "limited", "names"}
Synchronisation ==
    {"rwlock", "snapshot", "plain store", "tlb", "one waiter", "two waiters", "pi",
     "polling", "suspending", "waiting", "faulting"}
All == Memory \cup Synchronisation
Seal == {"sealing"}

MemoryInit ==
    /\ FrameInit /\ Shm!ShmInit
    /\ IF on = "sharing" THEN Sharing!VmaInit ELSE Layout!VmaInit
    /\ CASE on = "one reader" -> OneReader!PcInit
         [] on = "two readers" -> TwoReaders!PcInit
         [] on = "private" -> PrivateMap!PcInit
         [] on = "forked" -> ForkedMap!PcInit
         [] on = "shared" -> SharedMap!PcInit
         [] on = "synced" -> SyncedMap!PcInit
         [] OTHER -> Reading!PcInit
    /\ CASE on = "alone" -> Alone!MemInit
         [] on = "sealing" -> Sealing!MemInit
         [] OTHER -> Locking!MemInit
    /\ on \notin {"locking", "viewing", "alone", "sealing"} => seals = {}
    /\ CASE on = "inline" -> Inline!TmpInit
         [] on = "small" -> Small!TmpInit
         [] on = "tails" -> Tails!TmpInit
         [] on = "limited" -> Limited!TmpInit
         [] on = "names" -> Names!TmpInit
         [] OTHER -> Sparse!TmpInit

SyncInit ==
    /\ Init /\ SnapInit /\ Shootdown!TlbInit /\ Pi!PiInit
    /\ IF on = "two waiters" THEN TwoWaiters!Init ELSE OneWaiter!Init
    /\ CASE on = "suspending" -> Suspending!SigInit
         [] on = "waiting" -> Waiting!SigInit
         [] on = "faulting" -> Faulting!SigInit
         [] OTHER -> SigInit

BaseInit == on \in Running /\ MemoryInit /\ SyncInit

MemoryNext ==
    /\ UNCHANGED syncVars
    /\ \/ /\ on = "frames" /\ FrameNext
          /\ UNCHANGED <<vmaVars, pcVars, shmVars, memVars, tmpVars>>
       \/ /\ \/ on = "layout" /\ Layout!VmaNext
             \/ on = "sharing" /\ Sharing!VmaNext
          /\ UNCHANGED <<frameVars, pcVars, shmVars, memVars, tmpVars>>
       \/ /\ \/ on = "reading" /\ Reading!PcNext
             \/ on = "one reader" /\ OneReader!PcNext
             \/ on = "two readers" /\ TwoReaders!PcNext
             \/ on = "private" /\ PrivateMap!PcNext
             \/ on = "forked" /\ ForkedMap!PcNext
             \/ on = "shared" /\ SharedMap!PcNext
             \/ on = "synced" /\ SyncedMap!PcNext
          /\ UNCHANGED <<frameVars, vmaVars, shmVars, memVars, tmpVars>>
       \/ /\ on = "shm" /\ Shm!ShmNext
          /\ UNCHANGED <<frameVars, vmaVars, pcVars, memVars, tmpVars>>
       \/ /\ \/ on = "locking" /\ Locking!MemNext
             \/ on = "viewing" /\ Viewing!MemNext
             \/ on = "alone" /\ Alone!MemNext
             \/ on = "sealing" /\ Sealing!MemNext
          /\ UNCHANGED <<frameVars, vmaVars, pcVars, shmVars, tmpVars>>
       \/ /\ \/ on = "sparse" /\ Sparse!TmpNext
             \/ on = "inline" /\ Inline!TmpNext
             \/ on = "small" /\ Small!TmpNext
             \/ on = "tails" /\ Tails!TmpNext
             \/ on = "limited" /\ Limited!TmpNext
             \/ on = "names" /\ Names!TmpNext
          /\ UNCHANGED <<frameVars, vmaVars, pcVars, shmVars, memVars>>

SyncNext ==
    /\ UNCHANGED memoryVars
    /\ \/ /\ on = "rwlock" /\ Next
          /\ UNCHANGED <<snapVars, tlbVars, futexVars, piVars, sigVars>>
       \/ /\ \/ on = "snapshot" /\ SnapNext
             \/ on = "plain store" /\ PlainSnap!SnapNext
          /\ UNCHANGED <<vars, tlbVars, futexVars, piVars, sigVars>>
       \/ /\ on = "tlb" /\ Shootdown!TlbNext
          /\ UNCHANGED <<vars, snapVars, futexVars, piVars, sigVars>>
       \/ /\ \/ on = "one waiter" /\ OneWaiter!Next
             \/ on = "two waiters" /\ TwoWaiters!Next
          /\ UNCHANGED <<vars, snapVars, tlbVars, piVars, sigVars>>
       \/ /\ on = "pi" /\ Pi!PiNext
          /\ UNCHANGED <<vars, snapVars, tlbVars, futexVars, sigVars>>
       \/ /\ \/ on = "polling" /\ SigNext
             \/ on = "suspending" /\ Suspending!SigNext
             \/ on = "waiting" /\ Waiting!SigNext
             \/ on = "faulting" /\ Faulting!SigNext
          /\ UNCHANGED <<vars, snapVars, tlbVars, futexVars, piVars>>

BaseNext == UNCHANGED on /\ (MemoryNext \/ SyncNext)

BaseSpec == BaseInit /\ [][BaseNext]_baseVars

-----------------------------------------------------------------------------
(* What the components promise.  FramesExact of FrameAlloc, Exclusion,       *)
(* CountersExact, NoIdleQueue and OwnersWoken of SleepRwLock, ReadsAreFresh  *)
(* of Snapshot and SignalsInterrupt of Signals are taken as they stand; the  *)
(* conjuncts below are explained where they are defined.                     *)

\* Areas never overlap, and every leaf of a page table belongs to an area and keeps
\* its frame, writable only where no other leaf shares it, whatever mmap, munmap,
\* mprotect, mremap, brk, growth and fork do (user_space.rs, area.rs).
AddressSpaceExact ==
    /\ on = "layout" => Layout!AreasDisjoint /\ Layout!LeavesOwned
    /\ on = "sharing" => Sharing!AreasDisjoint /\ Sharing!LeavesOwned

\* A page shows the file's data or the last store to it, through splits, remaps,
\* copy-on-write and racing faults (user_space.rs, area.rs).  madvise() after fork is
\* left out.
PagesShowData == /\ on = "layout" => Layout!PagesShowData
                 /\ on = "sharing" => Sharing!PagesShowData

\* A cached page of the current generation holds what the file holds, and one read
\* call returns the file's contents at one instant, never a mix of two
\* (page_cache.rs, read_regular_cached_at).
FileReadsCurrent ==
    /\ on = "reading" => Reading!CacheCurrent /\ Reading!ReadsOneEpoch
    /\ on = "one reader" => OneReader!CacheCurrent /\ OneReader!ReadsOneEpoch
    /\ on = "two readers" => TwoReaders!CacheCurrent /\ TwoReaders!ReadsOneEpoch
    /\ on = "private" => PrivateMap!CacheCurrent
    /\ on = "forked" => ForkedMap!CacheCurrent
    /\ on = "shared" => SharedMap!CacheCurrent
    /\ on = "synced" => SyncedMap!CacheCurrent

\* A page's reference count is the number of leaves and faults that use it, and
\* reclaim is marked stalled only while every page is pinned or dirty
\* (page_cache.rs).
CachePinsExact ==
    /\ on = "private" => PrivateMap!RefsExact /\ PrivateMap!StallMeansPinned
    /\ on = "forked" => ForkedMap!RefsExact /\ ForkedMap!StallMeansPinned
    /\ on = "shared" => SharedMap!RefsExact /\ SharedMap!StallMeansPinned
    /\ on = "synced" => SyncedMap!RefsExact /\ SyncedMap!StallMeansPinned

\* A store through a shared mapping is in a flush record by the time its page leaves
\* the cache, with munmap and with msync (user_space.rs, page_cache.rs).  One process
\* maps the file: mappings inherited by fork are left out.
SharedStoresKept ==
    /\ on = "shared" => SharedMap!SharedStoresKept
    /\ on = "synced" => SyncedMap!SharedStoresKept

\* A segment's attach count is the number of areas that map it, its frames live as
\* long as one does, and a key leads to the live segment created under it (shm.rs).
SegmentsExact ==
    on = "shm" => Shm!AttachExact /\ Shm!MappedFramesLive /\ Shm!KeysFindSegments

\* A tmpfs file reads back what the calls on it made it, its extents and payload are
\* counted exactly and stay within the quota, and link counts are the names that lead
\* to a node (tmpfs.rs).  Not among the calls: zeroes written before the end of a
\* sparse file, and the rename of a directory into another one.
TmpfsExact ==
    /\ on = "sparse" => Sparse!ContentExact /\ Sparse!AccountingExact
    /\ on = "inline" => Inline!ContentExact /\ Inline!AccountingExact
    /\ on = "small" => Small!ContentExact /\ Small!AccountingExact
    /\ on = "tails" => Tails!ContentExact /\ Tails!AccountingExact
    /\ on = "limited" => Limited!AccountingExact /\ Limited!QuotaKept
    /\ on = "names" => Names!TmpNamesExact /\ Names!DirectoryLinksExact

\* A seal holds from the moment it is added: no later step of write(2), ftruncate(2),
\* open(2) or F_ADD_SEALS does what it forbids, whenever it passed its check (memfd.rs).
SealsHold == Locking!SealsHold

\* "Active writable MAP_SHARED mappings block F_SEAL_WRITE, matching the Linux rule
\* that sealing cannot race with already writable shared views" (memfd.rs).
SealedMeansNoView == Sealing!SealedMeansNoView

\* What was given back is not used: a reader of a ReadMostlySnapshot, which claims its
\* slot with an atomic read-modify-write, never holds a value publish() has freed
\* (read_mostly.rs); no CPU in user mode translates through an entry whose frame was
\* freed, and the assertions of the shootdown requests and of the generation hold
\* (address_space.rs, smp.rs).
NoUseAfterRelease ==
    /\ on = "snapshot" => NoUseAfterFree
    /\ on = "tlb" => Shootdown!NoStaleTranslation /\ Shootdown!TlbNoFault

\* A futex waiter whose word was changed is about to be woken or was requeued, a
\* sleeper that no longer queues has a waker, the cleanup of a wait finds its
\* waiter however often it was requeued and the assertions on a waiter's life hold.
\* On one CPU, with timeouts and signals, two threads never both own a PI futex, and
\* one with waiters says so and names an owner (futex.rs).
FutexesSound ==
    /\ on = "one waiter" => /\ OneWaiter!NoLostWake /\ OneWaiter!DequeuedIsWoken
                            /\ OneWaiter!CleanupFinds /\ OneWaiter!NoFault
    /\ on = "two waiters" => /\ TwoWaiters!NoLostWake /\ TwoWaiters!DequeuedIsWoken
                             /\ TwoWaiters!CleanupFinds /\ TwoWaiters!NoFault
    /\ on = "pi" => Pi!PiExclusion /\ Pi!PiMarked

\* On one CPU sigsuspend() and sigtimedwait() do not sleep through a signal either;
\* on several CPUs one sent between their check and their block is slept through, and
\* this does not speak of it.  signal_pending is exact, a signal is taken once, a mask is put back whatever
\* interrupted the thread, and a handler is not re-entered (task/signal.rs,
\* syscall/signal.rs).
SignalsSound ==
    /\ FastExact /\ TakenOnce /\ MasksReturn /\ HandlersNotReentered
    /\ on = "suspending" => Suspending!SignalsInterrupt
    /\ on = "waiting" => Waiting!SignalsInterrupt /\ Waiting!WaitedSignalsArrive
=============================================================================
