------------------------------- MODULE MCFiles -------------------------------
(* The filesystems and the block devices below them, on small instances: the *)
(* write-back overlay, inode lifetimes, the namespace and its caches, the    *)
(* ext4 core, the block cache, the two drivers, mounts, notification groups; *)
(* and the sleeping lock they all take.  `on' names the one that runs; the   *)
(* variables of the others keep their initial values.                        *)
EXTENDS SleepLock

VARIABLES
    backend, dpages, dsize, total, onList, dqueue, pins, mapLease, fop, content, fseen,
    misplaced, fcalls, dirtyFault,                                      \* DirtyFile
    bound, disk, rt, itable, nextInc, files, relq, dirLease, core, life, objs, \* InodeLife
    entry, attr, ver, lease, slot, slotLock, dcache, flight, epochs, nodeEpoch, direct,
    ns, done, settled, stale,                                           \* Namespace
    pending, waiting, wlock, active, coord, completed, shadow, shadowEpoch, buf,
    dirtyEpoch, platter, acked, x, extCalls,                            \* Ext4Core
    device, wide, narrow, coordinator, sequence, physical, logical, io, ios, latest,
    misread,                                                            \* BlockIo
    free, avail, used, irq, inflight, condvars, req, handling, kicks, reused, panicked,
    kindOf, card, limits, mcall, mfaults, transfers, expected, corrupt, \* BlockDriver
    table, fast, expirePending, fastWriter, fsLive, ids, mcwd, mns, mnt, mntOps, touched,
    expiredBusy,                                                        \* Mounts
    link, handle, grp, unlinked, named, ncall, nAsleep, nWoken, nSignal, nSignals, ncalls,
    lost,                                                               \* Notify
    on

\* Every call on one file, beside a reader; the backend may fail.
EveryCall == INSTANCE DirtyFile WITH
    File <- {1}, FileThread <- {"w", "r"},
    CallsOf <- [w |-> {"write", "append", "sync", "setlen", "alloc", "zero", "punch",
                       "aligned", "aligned_at", "syncfs"}, r |-> {"read"}],
    FilesOf <- [t \in {"w", "r"} |-> {1}], PageCells <- 2, ChunkCells <- 2,
    FileOffs <- {0, 1, 2}, FileLens <- {0, 1, 2}, MaxSize <- 4, DirtyMax <- 1,
    PressureInodes <- 1, PressurePages <- 1, FileErrors <- {"w"}, MaxFileCalls <- 2,
    NoFileThread <- "none", logical <- dsize
\* A writer, a reader and a thread that flushes.
Flushed == INSTANCE DirtyFile WITH
    File <- {1}, FileThread <- {"w", "r", "s"},
    CallsOf <- [w |-> {"write", "setlen"}, r |-> {"read"}, s |-> {"sync"}],
    FilesOf <- [t \in {"w", "r", "s"} |-> {1}], PageCells <- 2, ChunkCells <- 2,
    FileOffs <- {0, 1}, FileLens <- {1, 2}, MaxSize <- 3, DirtyMax <- 1,
    PressureInodes <- 1, PressurePages <- 1, FileErrors <- {"w"}, MaxFileCalls <- 3,
    NoFileThread <- "none", logical <- dsize
\* Two files under dirty pressure.
Pressure == INSTANCE DirtyFile WITH
    File <- {1, 2}, FileThread <- {"w", "s"},
    CallsOf <- [w |-> {"write", "aligned"}, s |-> {"write"}],
    FilesOf <- [w |-> {1}, s |-> {2}], PageCells <- 2, ChunkCells <- 2,
    FileOffs <- {0, 2}, FileLens <- {1, 2}, MaxSize <- 4, DirtyMax <- 2,
    PressureInodes <- 1, PressurePages <- 1, FileErrors <- {"w"}, MaxFileCalls <- 3,
    NoFileThread <- "none", logical <- dsize
\* Pages large enough for several dirty ranges.
Ranges == INSTANCE DirtyFile WITH
    File <- {1}, FileThread <- {"w"}, CallsOf <- [w |-> {"write", "append"}],
    FilesOf <- [w |-> {1}], PageCells <- 4, ChunkCells <- 3, FileOffs <- {0, 1, 2, 3},
    FileLens <- {1, 2, 4}, MaxSize <- 5, DirtyMax <- 2, PressureInodes <- 1,
    PressurePages <- 1, FileErrors <- {}, MaxFileCalls <- 4, NoFileThread <- "none",
    logical <- dsize

\* One inode number that is created, opened, unlinked, closed and reused.
Reuse == INSTANCE InodeLife WITH
    LifeThread <- {"w", "c", "u"},
    OpsOf <- [w |-> {"create", "open"}, c |-> {"close"}, u |-> {"unlink", "close", "sync"}],
    Ino <- {1}, Name <- {"a", "b"}, Fd <- {1, 2}, MaxObj <- 2, MaxInc <- 2, MaxQueue <- 1,
    FreeFails <- {"close", "drain"}, NoLifeThread <- "none", table <- itable
\* Two inodes that are linked, renamed and unlinked.
Links == INSTANCE InodeLife WITH
    LifeThread <- {"w", "c"},
    OpsOf <- [w |-> {"create", "open", "close"}, c |-> {"unlink", "link", "rename"}],
    Ino <- {1, 2}, Name <- {"a", "b"}, Fd <- {1}, MaxObj <- 2, MaxInc <- 2, MaxQueue <- 1,
    FreeFails <- {"unlink", "close", "drain"}, NoLifeThread <- "none", table <- itable

NsCpus == [s |-> 0, m |-> 1]
\* stat beside changes of an inode's attributes.
Attributes == INSTANCE Namespace WITH
    NsThread <- {"s", "m"}, NsOps <- [s |-> {"stat"}, m |-> {"chmod", "truncate", "mount"}],
    NsCpu <- NsCpus, Root <- 1, Dirs <- {1}, Regs <- {10}, Leaf <- {"a"},
    Tree <- [k \in {1} \X {"a"} |-> 10], DentryMax <- 1, MaxMutations <- 2, MaxStats <- 2,
    NoNsThread <- "none"
\* stat beside changes of the names.
Lookups == INSTANCE Namespace WITH
    NsThread <- {"s", "m"}, NsOps <- [s |-> {"stat"}, m |-> {"unlink", "rename"}],
    NsCpu <- NsCpus, Root <- 1, Dirs <- {1}, Regs <- {10}, Leaf <- {"a", "b"},
    Tree <- [k \in {1} \X {"a", "b"} |-> IF k[2] = "a" THEN 10 ELSE 0], DentryMax <- 1,
    MaxMutations <- 1, MaxStats <- 2, NoNsThread <- "none"
\* Changes of a tree of three directories.
Trees == INSTANCE Namespace WITH
    NsThread <- {"s", "m"},
    NsOps <- [s |-> {}, m |-> {"create", "link", "unlink", "rename", "exchange", "chmod"}],
    NsCpu <- NsCpus, Root <- 1, Dirs <- {1, 2, 3}, Regs <- {10}, Leaf <- {"a", "b"},
    Tree <- [k \in {1, 2, 3} \X {"a", "b"} |->
                IF k = <<1, "a">> THEN 3 ELSE IF k = <<1, "b">> THEN 2 ELSE 0],
    DentryMax <- 1, MaxMutations <- 2, MaxStats <- 0, NoNsThread <- "none"

ExtCpus == [a |-> 0, b |-> 1, c |-> 1]
\* Readers of the core, and writers that take the flush coordinator, on two CPUs.
Admission == INSTANCE Ext4Core WITH
    ExtThread <- {"a", "b", "c"},
    ExtOps <- [a |-> {"mutate", "release"}, b |-> {"mutate"}, c |-> {"chmod", "stat"}],
    ExtCpu <- ExtCpus, Inodes <- {1}, BlockOf <- [i \in {1} |-> 1], OneCpu <- FALSE,
    ExtErrors <- FALSE, MaxExtCalls <- 3, NoExt <- "none"
\* sync beside creations, on one CPU.
Syncs == INSTANCE Ext4Core WITH
    ExtThread <- {"a", "b", "c"},
    ExtOps <- [a |-> {"create", "chmod", "sync"}, b |-> {"create", "sync"}, c |-> {}],
    ExtCpu <- ExtCpus, Inodes <- {1}, BlockOf <- [i \in {1} |-> 1], OneCpu <- TRUE,
    ExtErrors <- FALSE, MaxExtCalls <- 4, NoExt <- "none"
\* stat and sync of two inodes in one block.
Shadows == INSTANCE Ext4Core WITH
    ExtThread <- {"a", "b", "c"},
    ExtOps <- [a |-> {"chmod", "sync"}, b |-> {"stat", "sync"}, c |-> {}],
    ExtCpu <- ExtCpus, Inodes <- {1, 2}, BlockOf <- [i \in {1, 2} |-> 1], OneCpu <- TRUE,
    ExtErrors <- FALSE, MaxExtCalls <- 4, NoExt <- "none"
\* A device that fails.
BadDevice == INSTANCE Ext4Core WITH
    ExtThread <- {"a", "b", "c"},
    ExtOps <- [a |-> {"mutate", "create", "statfs"}, b |-> {"chmod", "sync", "release"},
               c |-> {}],
    ExtCpu <- ExtCpus, Inodes <- {1}, BlockOf <- [i \in {1} |-> i], OneCpu <- TRUE,
    ExtErrors <- TRUE, MaxExtCalls <- 3, NoExt <- "none"

\* The metadata path of one thread beside planned reads of file data.
Planned == INSTANCE BlockIo WITH
    IoThread <- {"w", "r"}, IoOps <- [w |-> {"read", "write", "planwrite"}, r |-> {"planread"}],
    Disk <- 3, Line <- 2, Region <- 2, LineCap <- 1, IoRuns <- {<<0, 2>>, <<1, 2>>, <<2, 1>>},
    Parts <- {{0}, {1, 2}}, MaxIo <- 2
\* Two threads that write the same blocks.
Writers == INSTANCE BlockIo WITH
    IoThread <- {"w", "r"}, IoOps <- [t \in {"w", "r"} |-> {"planwrite", "write", "planread"}],
    Disk <- 3, Line <- 2, Region <- 2, LineCap <- 1, IoRuns <- {<<0, 2>>, <<1, 2>>},
    Parts <- {{0}, {1}, {2}, {1, 2}}, MaxIo <- 2

\* The VirtIO queue with as many requests as heads, after a boot-time request; and
\* the MMC driver on every kind of card.
Drivers == INSTANCE BlockDriver WITH
    AsyncTask <- {"a", "b"}, SyncTask <- {"s"}, Token <- {1, 2, 3}, Handler <- {"h", "i"},
    BootOnly <- TRUE, TimerPolls <- TRUE, MaxRequests <- 1, MaxKicks <- 1, NoToken <- 0,
    CardKinds <- {"good", "no23", "bad18", "bad25"}, FsBlocks <- 3, Scratch <- 2, Many <- 2,
    MaxFaults <- 2, MaxTransfers <- 2

MntTree == {<<>>, <<"a">>, <<"b">>, <<"a", "c">>}
\* One process that binds, moves, shares and unmounts.
Shares == INSTANCE Mounts WITH
    MntThread <- {"a"},
    MntOps <- [a |-> {"bind", "shared", "slave", "move", "unshare", "umount"}],
    Tree <- MntTree, Sub <- {<<>>, <<"c">>}, MntPaths <- {<<"a">>, <<"b">>}, Devices <- 0,
    MaxMntOps <- 4, NoMntThread <- "none"
\* The same with recursive binds and new filesystems.
Binds == INSTANCE Mounts WITH
    MntThread <- {"a"},
    MntOps <- [a |-> {"bind", "rbind", "rshared", "unbindable", "umount", "new"}],
    Tree <- MntTree, Sub <- {<<>>, <<"c">>}, MntPaths <- {<<"a">>, <<"b">>}, Devices <- 0,
    MaxMntOps <- 3, NoMntThread <- "none"
\* A process that looks paths up while another mounts.
Walks == INSTANCE Mounts WITH
    MntThread <- {"a", "b"},
    MntOps <- [a |-> {"new", "umount", "bind"}, b |-> {"look", "chdir"}],
    Tree <- MntTree, Sub <- {<<>>, <<"c">>}, MntPaths <- {<<"a">>, <<"b">>}, Devices <- 1,
    MaxMntOps <- 4, NoMntThread <- "none"
\* MNT_EXPIRE beside lookups and another mount of the device.
Expires == INSTANCE Mounts WITH
    MntThread <- {"a", "b"},
    MntOps <- [a |-> {"new", "expire"}, b |-> {"look", "device", "expire"}],
    Tree <- MntTree, Sub <- {<<>>, <<"c">>}, MntPaths <- {<<"a">>, <<"b">>}, Devices <- 1,
    MaxMntOps <- 4, NoMntThread <- "none"

WatchMasks ==
    <<[mask |-> {"create", "delete", "modify", "from", "to"}, oneshot |-> FALSE,
       excl |-> TRUE, add |-> FALSE],
      [mask |-> {"modify", "deleteself"}, oneshot |-> TRUE, excl |-> FALSE, add |-> TRUE]>>
FanMarks ==
    {[op |-> "add", on |-> 9, mask |-> {"create", "modify", "open", "child"},
      ignore |-> FALSE, surv |-> FALSE, evict |-> TRUE],
     [op |-> "add", on |-> 0, mask |-> {"open"}, ignore |-> TRUE, surv |-> FALSE,
      evict |-> FALSE]}
\* inotify on a directory whose files come and go.
Watches == INSTANCE Notify WITH
    NThread <- {"a", "r"},
    NOps <- [a |-> {"init", "create", "unlink", "add", "rm", "write", "close"},
             r |-> {"read", "poll"}],
    Group <- {"g"}, GroupKind <- [g |-> "in"], FanFlags <- [g |-> {}], Dir <- 9, NIno <- {1},
    NName <- {"x"}, Masks <- WatchMasks, Marks <- FanMarks, MAX_QUEUED <- 2, ReadCap <- 2,
    MaxNCalls <- 6, MaxNSignals <- 1, NoIno <- 0, NoName <- ""
\* inotify with renames, opens and a group that is closed.
Renames == INSTANCE Notify WITH
    NThread <- {"a", "r"},
    NOps <- [a |-> {"init", "create", "add", "closegroup", "rename", "open"}, r |-> {"read"}],
    Group <- {"g"}, GroupKind <- [g |-> "in"], FanFlags <- [g |-> {}], Dir <- 9,
    NIno <- {1, 2}, NName <- {"x", "y"}, Masks <- WatchMasks, Marks <- FanMarks,
    MAX_QUEUED <- 1, ReadCap <- 2, MaxNCalls <- 5, MaxNSignals <- 0, NoIno <- 0, NoName <- ""
\* fanotify.
FanGroup == INSTANCE Notify WITH
    NThread <- {"a", "r"},
    NOps <- [a |-> {"init", "mark", "create", "write", "close", "unlink", "evict", "exit"},
             r |-> {"read", "poll"}],
    Group <- {"g"}, GroupKind <- [g |-> "fan"], FanFlags <- [g |-> {"fid", "dirfid", "name"}],
    Dir <- 9, NIno <- {1}, NName <- {"x"}, Masks <- WatchMasks, Marks <- FanMarks,
    MAX_QUEUED <- 1, ReadCap <- 2, MaxNCalls <- 6, MaxNSignals <- 1, NoIno <- 0, NoName <- ""

dirtyVars == <<backend, dpages, dsize, total, onList, dqueue, pins, mapLease, fop, content,
              fseen, misplaced, fcalls, dirtyFault>>
lifeVars == <<bound, disk, rt, itable, nextInc, files, relq, dirLease, core, life, objs>>
nsVars == <<entry, attr, ver, lease, slot, slotLock, dcache, flight, epochs, nodeEpoch, direct,
           ns, done, settled, stale>>
extVars == <<pending, waiting, wlock, active, coord, completed, shadow, shadowEpoch, buf,
            dirtyEpoch, platter, acked, x, extCalls>>
ioVars == <<device, wide, narrow, coordinator, sequence, physical, logical, io, ios, latest,
           misread>>
virtVars == <<free, avail, used, irq, inflight, condvars, req, handling, kicks, reused,
             panicked>>
mmcVars == <<kindOf, card, limits, mcall, mfaults, transfers, expected, corrupt>>
mountVars == <<table, fast, expirePending, fastWriter, fsLive, ids, mcwd, mns, mnt, mntOps,
              touched, expiredBusy>>
notifyVars == <<link, handle, grp, unlinked, named, ncall, nAsleep, nWoken, nSignal, nSignals,
               ncalls, lost>>
filesVars == <<vars, dirtyVars, lifeVars, nsVars, extVars, ioVars, virtVars, mmcVars,
               mountVars, notifyVars, on>>

FilesInit ==
    /\ on \in {"lock", "every call", "flushed", "pressure", "ranges", "reuse", "links",
               "attributes", "lookups", "trees", "admission", "syncs", "shadows",
               "bad device", "planned", "writers", "virtio", "mmc", "shares", "binds",
               "walks", "expires", "watches", "renames", "fanotify"}
    /\ Init
    /\ CASE on = "flushed" -> Flushed!DirtyInit
         [] on = "pressure" -> Pressure!DirtyInit
         [] on = "ranges" -> Ranges!DirtyInit
         [] OTHER -> EveryCall!DirtyInit
    /\ IF on = "links" THEN Links!LifeInit ELSE Reuse!LifeInit
    /\ CASE on = "lookups" -> Lookups!NsInit
         [] on = "trees" -> Trees!NsInit
         [] OTHER -> Attributes!NsInit
    /\ CASE on = "syncs" -> Syncs!ExtInit
         [] on = "shadows" -> Shadows!ExtInit
         [] on = "bad device" -> BadDevice!ExtInit
         [] OTHER -> Admission!ExtInit
    /\ IF on = "writers" THEN Writers!IoInit ELSE Planned!IoInit
    /\ Drivers!VirtInit
    /\ Drivers!MmcInit /\ (on # "mmc" => kindOf = "good")
    /\ CASE on = "binds" -> Binds!MntInit
         [] on = "walks" -> Walks!MntInit
         [] on = "expires" -> Expires!MntInit
         [] OTHER -> Shares!MntInit
    /\ CASE on = "renames" -> Renames!NInit
         [] on = "fanotify" -> FanGroup!NInit
         [] OTHER -> Watches!NInit

FilesNext ==
    /\ UNCHANGED on
    /\ \/ /\ on = "lock" /\ Next
          /\ UNCHANGED <<dirtyVars, lifeVars, nsVars, extVars, ioVars, virtVars,
                         mmcVars, mountVars, notifyVars>>
       \/ /\ \/ on = "every call" /\ EveryCall!DirtyNext
             \/ on = "flushed" /\ Flushed!DirtyNext
             \/ on = "pressure" /\ Pressure!DirtyNext
             \/ on = "ranges" /\ Ranges!DirtyNext
          /\ UNCHANGED <<vars, lifeVars, nsVars, extVars, ioVars, virtVars, mmcVars,
                         mountVars, notifyVars>>
       \/ /\ \/ on = "reuse" /\ Reuse!LifeNext
             \/ on = "links" /\ Links!LifeNext
          /\ UNCHANGED <<vars, dirtyVars, nsVars, extVars, ioVars, virtVars, mmcVars,
                         mountVars, notifyVars>>
       \/ /\ \/ on = "attributes" /\ Attributes!NsNext
             \/ on = "lookups" /\ Lookups!NsNext
             \/ on = "trees" /\ Trees!NsNext
          /\ UNCHANGED <<vars, dirtyVars, lifeVars, extVars, ioVars, virtVars, mmcVars,
                         mountVars, notifyVars>>
       \/ /\ \/ on = "admission" /\ Admission!ExtNext
             \/ on = "syncs" /\ Syncs!ExtNext
             \/ on = "shadows" /\ Shadows!ExtNext
             \/ on = "bad device" /\ BadDevice!ExtNext
          /\ UNCHANGED <<vars, dirtyVars, lifeVars, nsVars, ioVars, virtVars, mmcVars,
                         mountVars, notifyVars>>
       \/ /\ \/ on = "planned" /\ Planned!IoNext
             \/ on = "writers" /\ Writers!IoNext
          /\ UNCHANGED <<vars, dirtyVars, lifeVars, nsVars, extVars, virtVars, mmcVars,
                         mountVars, notifyVars>>
       \/ /\ on = "virtio" /\ Drivers!VirtNext
          /\ UNCHANGED <<vars, dirtyVars, lifeVars, nsVars, extVars, ioVars, mmcVars,
                         mountVars, notifyVars>>
       \/ /\ on = "mmc" /\ Drivers!MmcNext
          /\ UNCHANGED <<vars, dirtyVars, lifeVars, nsVars, extVars, ioVars, virtVars,
                         mountVars, notifyVars>>
       \/ /\ \/ on = "shares" /\ Shares!MntNext
             \/ on = "binds" /\ Binds!MntNext
             \/ on = "walks" /\ Walks!MntNext
             \/ on = "expires" /\ Expires!MntNext
          /\ UNCHANGED <<vars, dirtyVars, lifeVars, nsVars, extVars, ioVars, virtVars,
                         mmcVars, notifyVars>>
       \/ /\ \/ on = "watches" /\ Watches!NNext
             \/ on = "renames" /\ Renames!NNext
             \/ on = "fanotify" /\ FanGroup!NNext
          /\ UNCHANGED <<vars, dirtyVars, lifeVars, nsVars, extVars, ioVars, virtVars,
                         mmcVars, mountVars>>

FilesSpec == FilesInit /\ [][FilesNext]_filesVars
-----------------------------------------------------------------------------
(* What the components promise.  MutexUntilSignal and FifoHandoff of         *)
(* SleepLock are taken as they stand; the conjuncts below are explained      *)
(* where they are defined.                                                   *)

\* What was written is kept: through partial flushes, failed writes and pressure
\* (file.rs, dirty.rs), through two writers of one block and of one cache line
\* (io_state.rs, block_cache.rs), on one CPU through sync (ext4.rs), and on every kind
\* of card (dw_mmc.rs).
WritesKept ==
    /\ on = "every call" => EveryCall!OverlayKeepsWrites /\ EveryCall!DirtyCountsExact
    /\ on = "flushed" => Flushed!OverlayKeepsWrites /\ Flushed!DirtyCountsExact
    /\ on = "pressure" => Pressure!OverlayKeepsWrites /\ Pressure!DirtyCountsExact
    /\ on = "ranges" => Ranges!OverlayKeepsWrites /\ Ranges!RangesNormal
    /\ on = "syncs" => Syncs!SyncCovers
    /\ on = "shadows" => Shadows!SyncCovers
    /\ on = "bad device" => BadDevice!SyncCovers
    /\ on = "planned" => Planned!LinesCurrent /\ Planned!WritesKept
    /\ on = "writers" => Writers!LinesCurrent /\ Writers!WritesKept
    /\ on = "mmc" => Drivers!MmcTransfersExact

\* What is read was true at one moment of the call: read through the overlay
\* (file.rs), planned reads (ext4.rs), stat through the direct, attribute and dentry
\* caches (file.rs, inode_state.rs, dentry_cache.rs), stat of a shadowed inode
\* (ext4.rs).  A read that goes to the backend while a flush is under way can return
\* older bytes; this does not speak of it.
ReadsCurrent ==
    /\ on = "every call" => EveryCall!DirtyReadsFresh
    /\ on = "flushed" => Flushed!DirtyReadsFresh
    /\ on = "attributes" => Attributes!StatFresh
    /\ on = "lookups" => Lookups!StatFresh
    /\ on = "admission" => Admission!StatSeesChmod
    /\ on = "shadows" => Shadows!StatSeesChmod
    /\ on = "planned" => Planned!ReadsExact
    /\ on = "writers" => Writers!ReadsExact

\* Names, inodes and their counts agree: an open file keeps its inode, one inode has
\* one state, a name leads to a live inode, an unused inode is freed (mount.rs,
\* ext4.rs, inode_state.rs); while one thread at a time changes the directories, they
\* stay a tree (inode.rs).
NamesExact ==
    /\ on = "reuse" => Reuse!OpenPinsInode /\ Reuse!StateShared /\ Reuse!SpaceReclaimed
    /\ on = "links" => Links!NamesResolve
    /\ on = "trees" => Trees!TreeIntact

\* The mount table and what follows from it: the published copy is the table, a
\* mount's filesystem is there, MNT_EXPIRE unmounts only what was idle, a mount
\* reaches every peer and its unmount undoes that (mount.rs).
MountsSound ==
    /\ on = "shares" => Shares!SnapshotCurrent /\ Shares!SourcesLive
                        /\ Shares!MountsReachPeers /\ Shares!UnmountUndoes
    /\ on = "binds" => Binds!SnapshotCurrent /\ Binds!SourcesLive
                       /\ Binds!MountsReachPeers /\ Binds!UnmountUndoes
    /\ on = "walks" => Walks!SnapshotCurrent /\ Walks!SourcesLive /\ Walks!ExpireMeansIdle
    /\ on = "expires" => Expires!SnapshotCurrent /\ Expires!SourcesLive
                         /\ Expires!ExpireMeansIdle

\* A reader of a notification group is told: it does not sleep beside a queued event,
\* a dropped event leaves an overflow record, IN_IGNORED is a watch's last event, a
\* watch on a removed inode goes (inotify.rs, fanotify.rs).
EventsKept ==
    /\ on = "watches" => Watches!NotifySleepersMustWait /\ Watches!LossReported
                         /\ Watches!IgnoredIsLast /\ Watches!WatchesOnLinked
                         /\ Watches!UnlinkedIsDead
    /\ on = "renames" => Renames!NotifySleepersMustWait /\ Renames!LossReported
                         /\ Renames!IgnoredIsLast
    /\ on = "fanotify" => FanGroup!NotifySleepersMustWait /\ FanGroup!LossReported

\* A writer of the ext4 core excludes readers and writers, on one CPU, and on several
\* among the calls that take the flush coordinator before they write (ext4.rs).  As
\* long as no signal wakes a sleeper of the driver, a completed VirtIO request has
\* woken its task or is about to, and, unless its head is submitted again before that,
\* wakes no other (block.rs).
RequestsServed ==
    /\ on = "admission" => Admission!CoreExclusive
    /\ on = "syncs" => Syncs!CoreExclusive
    /\ on = "shadows" => Shadows!CoreExclusive
    /\ on = "bad device" => BadDevice!CoreExclusive
    /\ on = "virtio" => Drivers!CompletionServed /\ Drivers!WakesOwnCompletion
=============================================================================
