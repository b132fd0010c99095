----------------------------- MODULE MCProgress -----------------------------
(* What must happen in the end, on small instances: the rendezvous of CPUs,  *)
(* and calls that wait for one another.  `on' names the component that runs; *)
(* the variables of the others keep their initial values.                    *)
EXTENDS RemoteSync

VARIABLES
    locked, waitQueue, lpc, status, waking, signalled,                  \* SleepLock
    snapSequence, current, freed, slots, buffer, rstep, seenSeq, borrowed, since, wstep,
    waiting,                                                            \* Snapshot
    pte, given, tlbGen, actives, editing, cur, mode, tlb, obs, dirty, token, flush, job,
    tlbPending, tlbRemaining, reqSeq, doneSeq, tlbTaken, tlbFault,      \* Tlb
    disk, overlay, truth, pageLease, gen, pages, lru, stalled, loading, gatesDone, loads,
    rd, vmas, mapped, fl, wr, flushes, unsaved, seen, counts,           \* PageCache
    backend, dpages, dsize, total, onList, dqueue, pins, mapLease, fop, content, fseen,
    misplaced, fcalls, dirtyFault,                                      \* DirtyFile
    entry, attr, ver, lease, slot, slotLock, dcache, flight, epochs, nodeEpoch, direct,
    ns, done, settled, stale,                                           \* Namespace
    pending, writers, wlock, readers, coord, completed, shadow, shadowEpoch, buf,
    dirtyEpoch, platter, acked, x, extCalls,                            \* Ext4Core
    device, wide, narrow, coordinator, stamp, physical, logical, io, ios, latest, misread,
                                                                        \* BlockIo
    free, avail, used, irq, inflight, condvars, req, signalling, kicks, reused, panicked,
    kindOf, card, limits, mcall, mfaults, transfers, expected, corrupt, \* BlockDriver
    pcb, registered, th, forks, lifeFault,                              \* ProcessLife
    value, queue, state, bucket, taskBucket, bits, fstatus, at, word, fexpected, fseenAt,
    expired, timers, fsignal, woken, victim, fault,                     \* Futex
    on

\* The threads, tasks and CPUs of every component but RemoteSync go by these names.
Party == {"a", "b", "c"}
CpuOf == [a |-> 0, b |-> 1]
TokenOf == [a |-> 1, b |-> 2, c |-> 3]
TaskOf == [a |-> <<1, 1>>, b |-> <<2, 1>>, c |-> <<2, 2>>]
\* the two threads of a group that exit at the same time
Rival == [a |-> <<2, 1>>, b |-> <<2, 2>>]

SleepingLock == INSTANCE SleepLock WITH
    Thread <- Party, NoThread <- "none", Signals <- FALSE, GroupExits <- FALSE, pc <- lpc

Snap == INSTANCE Snapshot WITH
    Reader <- {"a", "b"}, PlainStore <- {}, MaxPublish <- 1, MaxBuffer <- 0,
    sequence <- snapSequence, active <- slots

\* Two CPUs that shoot down each other's translations.
Shootdown == INSTANCE Tlb WITH
    Cpu <- {"a", "b"}, UserCpu <- {}, Space <- {"p", "q"}, NoSpace <- "none", MaxEdit <- 2,
    freed <- given, gen <- tlbGen, pending <- tlbPending, remaining <- tlbRemaining,
    taken <- tlbTaken

\* Two readers of a page, one of which fails.
Readers == INSTANCE PageCache WITH
    Reader <- {"a", "b"}, Mapper <- {}, Writer <- {"c"}, MapKind <- <<>>, Born <- {},
    WriteOps <- {"cached"}, MapCalls <- {}, PageCount <- 1, Readahead <- 1, SoftMax <- 1,
    MaxWrites <- 1, MaxReads <- 2, MaxFaults <- 0, IoErrors <- {"a"}, NoThread <- "none",
    lease <- pageLease
\* A page fault beside a write.
Faults == INSTANCE PageCache WITH
    Reader <- {}, Mapper <- {"a"}, Writer <- {"c"}, MapKind <- [a |-> "private"],
    Born <- {"a"}, WriteOps <- {"cached"}, MapCalls <- {"unmap"}, PageCount <- 1,
    Readahead <- 1, SoftMax <- 1, MaxWrites <- 1, MaxReads <- 0, MaxFaults <- 2,
    IoErrors <- {}, NoThread <- "none", lease <- pageLease

\* Two writers under dirty pressure.
Overlay == INSTANCE DirtyFile WITH
    File <- {1, 2}, FileThread <- {"a", "b"},
    CallsOf <- [a |-> {"write", "aligned"}, b |-> {"write"}],
    FilesOf <- [a |-> {1}, b |-> {2}], PageCells <- 1, ChunkCells <- 2, FileOffs <- {0},
    FileLens <- {2}, MaxSize <- 2, DirtyMax <- 1, PressureInodes <- 1, PressurePages <- 1,
    FileErrors <- {"a"}, MaxFileCalls <- 3, NoFileThread <- "none", logical <- dsize

\* A rename and an exchange between two directories.
Crossing == INSTANCE Namespace WITH
    NsThread <- {"a", "b"}, NsOps <- [a |-> {"rename"}, b |-> {"exchange"}],
    NsCpu <- [a |-> 0, b |-> 1], Root <- 1, Dirs <- {1, 2}, Regs <- {10, 11},
    Leaf <- {"a", "b"},
    Tree <- [k \in {1, 2} \X {"a", "b"} |->
                CASE k = <<1, "a">> -> 2 [] k = <<1, "b">> -> 10 [] k = <<2, "a">> -> 11
                  [] OTHER -> 0],
    DentryMax <- 1, MaxMutations <- 2, MaxStats <- 1, NoNsThread <- "none"

Core == INSTANCE Ext4Core WITH
    ExtThread <- {"a", "b"}, ExtOps <- [a |-> {"mutate", "create"}, b |-> {"chmod", "sync"}],
    ExtCpu <- [a |-> 0, b |-> 1], Inodes <- {1}, BlockOf <- [i \in {1} |-> 1],
    OneCpu <- FALSE, ExtErrors <- FALSE, MaxExtCalls <- 3, NoExt <- "none",
    waiting <- writers, active <- readers

Blocks == INSTANCE BlockIo WITH
    IoThread <- {"a", "b"}, IoOps <- [t \in {"a", "b"} |-> {"planwrite", "write", "planread"}],
    Disk <- 3, Line <- 2, Region <- 2, LineCap <- 1, IoRuns <- {<<1, 2>>},
    Parts <- {{0}, {1, 2}}, MaxIo <- 2, sequence <- stamp

Disks == INSTANCE BlockDriver WITH
    AsyncTask <- {"a", "b"}, SyncTask <- {"c"}, Token <- {1, 2, 3}, Handler <- {"a", "b"},
    BootOnly <- TRUE, TimerPolls <- TRUE, MaxRequests <- 1, MaxKicks <- 1, NoToken <- 0,
    CardKinds <- {"good"}, FsBlocks <- 1, Scratch <- 1, Many <- 1, MaxFaults <- 0,
    MaxTransfers <- 0, handling <- signalling

\* exec and exit_group beside one another in a process of two threads.
Group == INSTANCE ProcessLife WITH
    Pid <- {1, 2}, InitPid <- 1, Nobody <- 0,
    LifeOps <- <<{"fork"}, {"thread", "exit", "exec", "wait", "fork"}>>,
    Dispositions <- <<{"ignore"}, {}>>, SmpCpus <- FALSE, MaxForks <- 2

\* A timed futex wait.
Wait == INSTANCE Futex WITH
    Waiter <- {"a"}, Waker <- {"b"}, Word <- {1}, Bucket <- [w \in {1} |-> w], Bits <- {1},
    Timed <- {"a"}, Signalled <- {"a"}, Killed <- {}, NoThread <- "none", NoWord <- 0,
    NoBucket <- 0, status <- fstatus, expected <- fexpected, seen <- fseenAt,
    signal <- fsignal

lockVars == <<locked, waitQueue, lpc, status, waking, signalled>>
snapVars == <<snapSequence, current, freed, slots, buffer, rstep, seenSeq, borrowed,
              since, wstep, waiting>>
tlbVars == <<pte, given, tlbGen, actives, editing, cur, mode, tlb, obs, dirty, token,
             flush, job, tlbPending, tlbRemaining, reqSeq, doneSeq, tlbTaken, tlbFault>>
pageVars == <<disk, overlay, truth, pageLease, gen, pages, lru, stalled, loading,
              gatesDone, loads, rd, vmas, mapped, fl, wr, flushes, unsaved, seen,
              counts>>
dirtyVars == <<backend, dpages, dsize, total, onList, dqueue, pins, mapLease, fop,
               content, fseen, misplaced, fcalls, dirtyFault>>
nsVars == <<entry, attr, ver, lease, slot, slotLock, dcache, flight, epochs, nodeEpoch,
            direct, ns, done, settled, stale>>
extVars == <<pending, writers, wlock, readers, coord, completed, shadow, shadowEpoch,
             buf, dirtyEpoch, platter, acked, x, extCalls>>
ioVars == <<device, wide, narrow, coordinator, stamp, physical, logical, io, ios,
            latest, misread>>
virtVars == <<free, avail, used, irq, inflight, condvars, req, signalling, kicks,
              reused, panicked>>
mmcVars == <<kindOf, card, limits, mcall, mfaults, transfers, expected, corrupt>>
plVars == <<pcb, registered, th, forks, lifeFault>>
futexVars == <<value, queue, state, bucket, taskBucket, bits, fstatus, at, word,
               fexpected, fseenAt, expired, timers, fsignal, woken, victim, fault>>
allVars == <<vars, lockVars, snapVars, tlbVars, pageVars, dirtyVars, nsVars,
             extVars, ioVars, virtVars, plVars, futexVars, mmcVars, on>>

\* A step of one component leaves the others and `on' alone.
RemoteOnly ==
    UNCHANGED <<lockVars, snapVars, tlbVars, pageVars, dirtyVars, nsVars, extVars,
                ioVars, virtVars, plVars, futexVars, mmcVars, on>>
LockOnly ==
    UNCHANGED <<vars, snapVars, tlbVars, pageVars, dirtyVars, nsVars, extVars, ioVars,
                virtVars, plVars, futexVars, mmcVars, on>>
SnapOnly ==
    UNCHANGED <<vars, lockVars, tlbVars, pageVars, dirtyVars, nsVars, extVars, ioVars,
                virtVars, plVars, futexVars, mmcVars, on>>
ShootdownOnly ==
    UNCHANGED <<vars, lockVars, snapVars, pageVars, dirtyVars, nsVars, extVars, ioVars,
                virtVars, plVars, futexVars, mmcVars, on>>
PageOnly ==
    UNCHANGED <<vars, lockVars, snapVars, tlbVars, dirtyVars, nsVars, extVars, ioVars,
                virtVars, plVars, futexVars, mmcVars, on>>
OverlayOnly ==
    UNCHANGED <<vars, lockVars, snapVars, tlbVars, pageVars, nsVars, extVars, ioVars,
                virtVars, plVars, futexVars, mmcVars, on>>
RenameOnly ==
    UNCHANGED <<vars, lockVars, snapVars, tlbVars, pageVars, dirtyVars, extVars,
                ioVars, virtVars, plVars, futexVars, mmcVars, on>>
CoreOnly ==
    UNCHANGED <<vars, lockVars, snapVars, tlbVars, pageVars, dirtyVars, nsVars, ioVars,
                virtVars, plVars, futexVars, mmcVars, on>>
BlockOnly ==
    UNCHANGED <<vars, lockVars, snapVars, tlbVars, pageVars, dirtyVars, nsVars,
                extVars, virtVars, plVars, futexVars, mmcVars, on>>
VirtioOnly ==
    UNCHANGED <<vars, lockVars, snapVars, tlbVars, pageVars, dirtyVars, nsVars,
                extVars, ioVars, plVars, futexVars, mmcVars, on>>
GroupOnly ==
    UNCHANGED <<vars, lockVars, snapVars, tlbVars, pageVars, dirtyVars, nsVars,
                extVars, ioVars, virtVars, futexVars, mmcVars, on>>
FutexOnly ==
    UNCHANGED <<vars, lockVars, snapVars, tlbVars, pageVars, dirtyVars, nsVars,
                extVars, ioVars, virtVars, plVars, mmcVars, on>>

ProgressInit ==
    /\ on \in {"remote", "sleeping lock", "snapshot", "shootdown", "readers", "faults",
               "overlay", "renames", "core", "blocks", "virtio", "group", "futex"}
    /\ Init /\ SleepingLock!Init /\ Snap!SnapInit /\ Shootdown!TlbInit /\ Overlay!DirtyInit
    /\ Crossing!NsInit /\ Core!ExtInit /\ Blocks!IoInit /\ Disks!VirtInit
    /\ Group!LifeInit /\ Wait!Init /\ Disks!MmcInit
    /\ IF on = "faults" THEN Faults!PcInit ELSE Readers!PcInit

ProgressNext ==
    \/ on = "remote" /\ Next /\ RemoteOnly
    \/ on = "sleeping lock" /\ SleepingLock!Next /\ LockOnly
    \/ on = "snapshot" /\ Snap!SnapNext /\ SnapOnly
    \/ on = "shootdown" /\ Shootdown!TlbNext /\ ShootdownOnly
    \/ on = "readers" /\ Readers!PcNext /\ PageOnly
    \/ on = "faults" /\ Faults!PcNext /\ PageOnly
    \/ on = "overlay" /\ Overlay!DirtyNext /\ OverlayOnly
    \/ on = "renames" /\ Crossing!NsNext /\ RenameOnly
    \/ on = "core" /\ Core!ExtNext /\ CoreOnly
    \/ on = "blocks" /\ Blocks!IoNext /\ BlockOnly
    \/ on = "virtio" /\ Disks!VirtNext /\ VirtioOnly
    \/ on = "group" /\ Group!LifeNext /\ GroupOnly
    \/ on = "futex" /\ Wait!Next /\ FutexOnly

\* What each component's fairness asks for, gathered by party.  `on' never changes,
\* so fairness of a disjunction is the fairness of the component that runs.
Run(t) ==
    \/ on = "remote" /\ t \in DOMAIN CpuOf /\ SubmitStep(CpuOf[t]) /\ RemoteOnly
    \/ on = "sleeping lock" /\ SleepingLock!Resume(t) /\ LockOnly
    \/ on = "snapshot" /\ t \in {"a", "b"} /\ Snap!ReaderStep(t) /\ SnapOnly
    \/ on = "shootdown" /\ t \in {"a", "b"} /\ tlbFault = "none" /\ Shootdown!Invalidate(t)
       /\ ShootdownOnly
    \/ on = "readers" /\ t = "c" /\ Readers!WriteStep(t) /\ PageOnly
    \/ on = "faults" /\ t \in {"a", "c"} /\ Faults!WriteStep(t) /\ PageOnly
    \/ on = "virtio" /\ t \in {"a", "b"} /\ Disks!Retire(t) /\ VirtioOnly
    \/ on = "group" /\ Group!InCall(TaskOf[t]) /\ GroupOnly
    \/ on = "futex" /\ t \in {"a", "b"} /\ fault = "none" /\ Wait!Step(t) /\ FutexOnly
Pass(t) ==
    \/ on = "remote" /\ t \in DOMAIN CpuOf /\ HandleStep(CpuOf[t]) /\ RemoteOnly
    \/ on = "sleeping lock" /\ SleepingLock!Unlock(t) /\ LockOnly
    \/ on = "snapshot" /\ t \in {"a", "b"} /\ Snap!Drain(t) /\ SnapOnly
    \/ on = "shootdown" /\ t \in {"a", "b"} /\ tlbFault = "none" /\ Shootdown!Restore(t)
       /\ ShootdownOnly
    \/ on = "readers" /\ t \in {"a", "b"} /\ Readers!ReadNext(t) /\ PageOnly
    \/ on = "faults" /\ t = "a" /\ Faults!ReadNext(t) /\ PageOnly
    \/ on = "virtio" /\ t \in {"a", "b"} /\ Disks!PassOn(t) /\ VirtioOnly
    \/ on = "futex" /\ t = "a" /\ Wait!Expire(t) /\ FutexOnly
Answer(t) ==
    \/ on = "sleeping lock" /\ SleepingLock!Wake(t) /\ LockOnly
    \/ on = "snapshot" /\ t \in {"a", "b"} /\ Snap!SeeIdle(t) /\ SnapOnly
    \/ on = "snapshot" /\ t = "c" /\ (Snap!Swap \/ Snap!Reopen) /\ SnapOnly
    \/ on = "shootdown" /\ t \in {"a", "b"} /\ tlbFault = "none"
       /\ Shootdown!Serve(t, IF t = "a" THEN "b" ELSE "a") /\ ShootdownOnly
    \/ on = "faults" /\ t = "a" /\ Faults!FaultNext(t) /\ PageOnly
    \/ on = "virtio" /\ t \in {"a", "b"} /\ Disks!HandleIrq(t) /\ VirtioOnly
Complete(t) ==
    \/ on = "virtio" /\ Disks!Complete(TokenOf[t]) /\ VirtioOnly
Finish(t) ==
    \/ on = "virtio" /\ t \in {"a", "b"} /\ Disks!HandlerSignal(t) /\ VirtioOnly
\* Steps that another party can disable again and again.
Contend(t) ==
    \/ on = "shootdown" /\ t \in {"a", "b"} /\ tlbFault = "none" /\ Shootdown!TakeSources(t)
       /\ ShootdownOnly
    \/ on = "overlay" /\ t \in {"a", "b"} /\ Overlay!Steps(t) /\ OverlayOnly
    \/ on = "renames" /\ t \in {"a", "b"} /\ Crossing!RunStep(t) /\ RenameOnly
    \/ on = "core" /\ t \in {"a", "b"} /\ Core!ExtStep(t) /\ CoreOnly
    \/ on = "blocks" /\ t \in {"a", "b"} /\ Blocks!IoStep(t) /\ BlockOnly

ProgressFairness ==
    /\ \A t \in Party : /\ WF_allVars(Run(t)) /\ WF_allVars(Pass(t)) /\ WF_allVars(Answer(t))
                        /\ WF_allVars(Complete(t)) /\ WF_allVars(Finish(t))
    /\ \A t \in {"a", "b"} : SF_allVars(Contend(t))

ProgressSpec == ProgressInit /\ [][ProgressNext]_allVars /\ ProgressFairness

-----------------------------------------------------------------------------
(* RequestsAreLive and Rendezvous of RemoteSync are taken as they stand.     *)

\* Where a party waits for others, and what it waits for; these are the two sides of
\* Completes (cpu.rs), WaitersServed (raw_sleep_lock.rs), PublicationEnds
\* (read_mostly.rs), ShootdownEnds (address_space.rs), GatesOpen (page_cache.rs),
\* FileCallsEnd (file.rs), NsCallsEnd (inode.rs), ExtCallsEnd (ext4.rs), IoCallsEnd
\* (block_cache.rs, io_state.rs), RequestsEnd (block.rs), ExitsEnd (mod.rs) and
\* TimedWaitEnds (futex.rs).
Waits(t) ==
    CASE on = "remote" -> t \in DOMAIN CpuOf /\ pc[CpuOf[t]] = "wait"
      [] on = "sleeping lock" -> lpc[t] = "waiting"
      [] on = "snapshot" -> wstep = "wait"
      [] on = "shootdown" -> t \in {"a", "b"} /\ job[t].step = "wait"
      [] on = "readers" -> t \in {"a", "b"} /\ rd[t].step = "wait"
      [] on = "faults" -> t = "a" /\ (rd[t].step = "wait" \/ fl[t].step = "genwait")
      [] on = "overlay" -> t \in {"a", "b"} /\ fop[t].step # "idle"
      [] on = "renames" -> t \in {"a", "b"} /\ ns[t].op # "idle"
      [] on = "core" -> t \in {"a", "b"} /\ x[t].at # "idle"
      [] on = "blocks" -> t \in {"a", "b"} /\ io[t].op # "none"
      [] on = "virtio" -> t \in {"a", "b"} /\ req[t].at = "wait"
      [] on = "group" -> th[Rival[t]].at = "exitWant"
      [] on = "futex" -> t = "a" /\ at[t] = "sleep" /\ timers[t].own
Served(t) ==
    CASE on = "remote" -> t \in DOMAIN CpuOf /\ (pc[CpuOf[t]] = "idle" \/ \E d \in CPU : pc[d] = "panic")
      [] on = "sleeping lock" -> lpc[t] = "critical"
      [] on = "snapshot" -> wstep = "idle"
      [] on = "shootdown" -> t \in DOMAIN job /\ job[t].step # "wait"
      [] on = "readers" -> t \in DOMAIN rd /\ rd[t].step # "wait"
      [] on = "faults" -> t = "a" /\ rd[t].step # "wait"
                         /\ fl[t].step # "genwait"
      [] on = "overlay" -> t \in DOMAIN fop /\ fop[t].step = "idle"
      [] on = "renames" -> t \in DOMAIN ns /\ ns[t].op = "idle"
      [] on = "core" -> t \in DOMAIN x /\ x[t].at = "idle"
      [] on = "blocks" -> t \in DOMAIN io /\ io[t].op = "none"
      [] on = "virtio" -> t \in DOMAIN req /\ (req[t].at = "idle" \/ kicks # 0 \/ reused)
      [] on = "group" -> th[Rival[t]].at = "none"
      [] on = "futex" -> t \in DOMAIN at /\ (at[t] # "sleep" \/ fstatus[t] = "Exited")

\* Every wait ends: whoever waits for the others of its component is served.
\* The threads of the sleeping lock are alike, so "c" need not be asked about.
WaitsEnd == \A t \in {"a", "b"} : Waits(t) ~> Served(t)
=============================================================================
