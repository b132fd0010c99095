------------------------------ MODULE InodeLife ------------------------------
(***************************************************************************)
(* The lifetime of an ext4 inode: directory entries and link counts, open   *)
(* files that pin the inode past its last name, the in-core InodeState       *)
(* that every open file of one inode shares, the drop-time release that      *)
(* must not block, and the per-mount queue of releases it leaves behind.     *)
(* One directory; the calls are the open, create, unlink, rename, link,      *)
(* close and sync paths of fs/vfs/file.rs, fs/inode.rs, fs/mount.rs and      *)
(* fs/ext4.rs.                                                               *)
(***************************************************************************)
EXTENDS Integers, Sequences, FiniteSets

CONSTANTS
    LifeThread,    \* threads
    OpsOf,         \* the calls each thread makes
    Ino,           \* inode numbers of the volume, 1..n
    Name,          \* names of the directory
    Fd,            \* open file descriptions at one time, 1..n
    MaxObj,        \* bound: inodes created
    MaxInc,        \* bound: no link once a number has had so many states
    MaxQueue,      \* bound: no open while so many releases are queued
    FreeFails,     \* where an inode free may fail: close, drain, unlink
    NoLifeThread

VARIABLES
    bound,         \* directory entries: name -> inode number, 0 for none
    disk,          \* on-disk inode: the object stored there (0 = free), nlink
    rt,            \* Ext4InodeRuntimeTable: open_count, unlinking, pending
    table,         \* inode_state SHARDS: the current incarnation, 0 for none
    nextInc,       \* next_incarnations
    files,         \* open VfsFiles: inode number, InodeState, pinned object
    relq,          \* PendingReleaseQueue
    dirLease,      \* holder of the directory's mutation lease
    core,          \* holder of the exclusive ext4 core
    life,          \* progress of each thread
    objs           \* objects created so far

lifeVars == <<bound, disk, rt, table, nextInc, files, relq, dirLease, core, life, objs>>

NoRt == [known |-> FALSE, open |-> 0, unlinking |-> FALSE, pending |-> FALSE]

NoFile == [ino |-> 0, inc |-> 0, obj |-> 0]

LifeIdle == [at |-> "idle", name |-> "", to |-> "", ino |-> 0, file |-> NoFile,
             todo |-> << >>, kept |-> << >>, then |-> "idle", defer |-> FALSE]

LifeInit ==
    /\ bound = [n \in Name |-> 0]
    /\ disk = [i \in Ino |-> [obj |-> 0, nlink |-> 0]]
    /\ rt = [i \in Ino |-> NoRt]
    /\ table = [i \in Ino |-> 0]
    /\ nextInc = [i \in Ino |-> 1]
    /\ files = [d \in Fd |-> NoFile]
    /\ relq = << >>
    /\ dirLease = NoLifeThread
    /\ core = NoLifeThread
    /\ life = [t \in LifeThread |-> LifeIdle]
    /\ objs = 0

At(t, pc) == life[t].at = pc

Step(t, r) == life' = [life EXCEPT ![t] = r]

\* a path lookup shares the directory lease, so it waits for a mutation
LookupFree == dirLease = NoLifeThread

Goto(t, pc) == Step(t, [life[t] EXCEPT !.at = pc])

Finish(t) == Step(t, LifeIdle)

CoreFree == core = NoLifeThread

-----------------------------------------------------------------------------
(* The table of InodeStates.                                                *)

\* state_for: the current state, or a fresh one of the next incarnation
StateFor(i) == IF table[i] # 0 THEN table[i] ELSE nextInc[i]

Touch(i) == table' = [table EXCEPT ![i] = StateFor(i)]

\* initialize_new, after the create transaction
InitializeNew(i) ==
    LET inc == IF table[i] # 0 THEN table[i] + 1 ELSE nextInc[i] IN
    /\ table' = [table EXCEPT ![i] = inc]
    /\ nextInc' = [nextInc EXCEPT ![i] = inc]

IsCurrent(f) == table[f.ino] = f.inc

RemoveIfSame(f) ==
    IF IsCurrent(f)
    THEN /\ table' = [table EXCEPT ![f.ino] = 0]
         /\ nextInc' = [nextInc EXCEPT ![f.ino] = f.inc + 1]
    ELSE UNCHANGED <<table, nextInc>>

-----------------------------------------------------------------------------
(* Ext4InodeRuntimeTable.                                                   *)

Entry(i) == [rt[i] EXCEPT !.known = TRUE]

\* prepare_runtime_release_locked: the outcome and the record left behind
PrepareRelease(i) ==
    LET s == rt[i]
        zero == [s EXCEPT !.open = 0] IN
    IF ~s.known THEN [free |-> FALSE, left |-> s]
    ELSE IF s.open > 1 THEN [free |-> FALSE, left |-> [s EXCEPT !.open = @ - 1]]
    ELSE IF s.unlinking THEN [free |-> FALSE, left |-> zero]
    ELSE IF s.pending THEN [free |-> TRUE, left |-> zero]
    ELSE [free |-> FALSE, left |-> NoRt]

\* finish_unlink; "now" when the last reference went while unlink ran
FinishUnlink(i, deferred) ==
    LET s == [Entry(i) EXCEPT !.unlinking = FALSE, !.pending = @ \/ deferred] IN
    IF disk[i].obj = 0 THEN [now |-> FALSE, left |-> NoRt]
    ELSE IF s.pending THEN [now |-> s.open = 0, left |-> s]
    ELSE [now |-> FALSE, left |-> IF s.open = 0 THEN NoRt ELSE s]

\* Ext4Mount::free_unlinked_inode: an inode linked again is left alone
FreeUnlinked(i) ==
    /\ disk' = IF disk[i].nlink = 0 THEN [disk EXCEPT ![i].obj = 0] ELSE disk
    /\ rt' = [rt EXCEPT ![i] = NoRt]

\* Drop one name of inode i; the inode goes with the last one unless kept
Unlinked(i, keep) ==
    [disk EXCEPT ![i].nlink = @ - 1,
                 ![i].obj = IF disk[i].nlink = 1 /\ ~keep THEN 0 ELSE @]

-----------------------------------------------------------------------------
(* drain_pending_inode_releases, run by MountedBackendLease::call ahead of   *)
(* every write, truncate, namespace and sync operation.                      *)

DrainThen(t, r, pc) == Step(t, [r EXCEPT !.at = "take", !.then = pc])

DrainTake(t) ==
    /\ At(t, "take")
    /\ relq' = << >>
    /\ Step(t, [life[t] EXCEPT !.at = "each", !.todo = relq, !.kept = << >>])
    /\ UNCHANGED <<bound, disk, rt, table, nextInc, files, dirLease, core, objs>>

Next1(t) == [life[t] EXCEPT !.at = "each", !.todo = Tail(@)]

DrainEach(t) ==
    /\ At(t, "each")
    /\ IF life[t].todo = << >>
       THEN /\ relq' = relq \o life[t].kept
            /\ Step(t, [life[t] EXCEPT !.at = life[t].then, !.then = "idle", !.kept = << >>])
       ELSE /\ UNCHANGED relq
            /\ IF IsCurrent(Head(life[t].todo)) THEN Goto(t, "release") ELSE Step(t, Next1(t))
    /\ UNCHANGED <<bound, disk, rt, table, nextInc, files, dirLease, core, objs>>

\* release_inode: the runtime half, before the core is entered
DrainRelease(t) ==
    LET i == Head(life[t].todo).ino
        p == PrepareRelease(i) IN
    /\ At(t, "release")
    /\ rt' = [rt EXCEPT ![i] = p.left]
    /\ IF p.free THEN Goto(t, "dfree") ELSE Step(t, Next1(t))
    /\ UNCHANGED <<bound, disk, table, nextInc, files, relq, dirLease, core, objs>>

DrainFree(t) ==
    LET e == Head(life[t].todo) IN
    /\ At(t, "dfree")
    /\ CoreFree
    /\ \/ /\ FreeUnlinked(e.ino)
          /\ Goto(t, "dforget")
       \/ /\ "drain" \in FreeFails
          /\ Step(t, [Next1(t) EXCEPT !.kept = Append(@, e)])
          /\ UNCHANGED <<disk, rt>>
    /\ UNCHANGED <<bound, table, nextInc, files, relq, dirLease, core, objs>>

DrainForget(t) ==
    /\ At(t, "dforget")
    /\ RemoveIfSame(Head(life[t].todo))
    /\ Step(t, Next1(t))
    /\ UNCHANGED <<bound, disk, rt, files, relq, dirLease, core, objs>>

Drain(t) == DrainTake(t) \/ DrainEach(t) \/ DrainRelease(t) \/ DrainFree(t) \/ DrainForget(t)

-----------------------------------------------------------------------------
(* open_vfs_file_once and VfsFile::new.                                     *)

OpenFds == {d \in Fd : files[d] # NoFile}

Opening == {t \in LifeThread : life[t].at \in
              {"retain", "state", "clock", "calloc", "cinit"}
              \/ life[t].then = "calloc"}

CanOpen ==
    /\ Cardinality(OpenFds) + Cardinality(Opening) < Cardinality(Fd)
    /\ Len(relq) < MaxQueue

EnterOpen(t) ==
    /\ At(t, "idle") /\ "open" \in OpsOf[t] /\ LookupFree /\ CanOpen
    /\ \E n \in Name :
        /\ bound[n] # 0
        /\ Step(t, [LifeIdle EXCEPT !.at = "retain", !.ino = bound[n]])
    /\ UNCHANGED <<bound, disk, rt, table, nextInc, files, relq, dirLease, core, objs>>

\* retain_inode: only an inode that exists, is linked and is not on its way out
Retain(t) ==
    LET i == life[t].ino IN
    /\ At(t, "retain")
    /\ CoreFree
    /\ Touch(i)
    /\ IF disk[i].obj # 0 /\ disk[i].nlink > 0
       THEN IF rt[i].unlinking \/ rt[i].pending
            THEN rt' = [rt EXCEPT ![i] = Entry(i)] /\ Finish(t)
            ELSE rt' = [rt EXCEPT ![i] = [Entry(i) EXCEPT !.open = @ + 1]] /\ Goto(t, "state")
       ELSE Finish(t) /\ UNCHANGED rt
    /\ UNCHANGED <<bound, disk, nextInc, files, relq, dirLease, core, objs>>

\* the state looked up once the backend holds the pin
OpenState(t) ==
    LET i == life[t].ino
        d == CHOOSE d \in Fd \ OpenFds : \A e \in Fd \ OpenFds : d <= e IN
    /\ At(t, "state")
    /\ Touch(i)
    /\ files' = [files EXCEPT ![d] = [ino |-> i, inc |-> StateFor(i), obj |-> disk[i].obj]]
    /\ Finish(t)
    /\ UNCHANGED <<bound, disk, rt, nextInc, relq, dirLease, core, objs>>

-----------------------------------------------------------------------------
(* open(O_CREAT): the directory mutation with the absence check repeated,    *)
(* then the open of the inode just created.                                  *)

Lock(t) == dirLease = NoLifeThread /\ dirLease' = t

Unlock == dirLease' = NoLifeThread

EnterCreate(t) ==
    /\ At(t, "idle") /\ "create" \in OpsOf[t] /\ LookupFree /\ CanOpen /\ objs < MaxObj
    /\ \E n \in Name :
        /\ bound[n] = 0
        /\ Step(t, [LifeIdle EXCEPT !.at = "clock", !.name = n])
    /\ UNCHANGED <<bound, disk, rt, table, nextInc, files, relq, dirLease, core, objs>>

CreateLock(t) ==
    /\ At(t, "clock")
    /\ IF bound[life[t].name] = 0
       THEN Lock(t) /\ DrainThen(t, life[t], "calloc")
       ELSE dirLease = NoLifeThread /\ Finish(t) /\ UNCHANGED dirLease
    /\ UNCHANGED <<bound, disk, rt, table, nextInc, files, relq, core, objs>>

FreeInos == {i \in Ino : disk[i].obj = 0}

\* the ext4 allocator takes the first free number
CreateAlloc(t) ==
    /\ At(t, "calloc")
    /\ CoreFree
    /\ IF FreeInos = {} \/ objs = MaxObj
       THEN Unlock /\ Finish(t) /\ UNCHANGED <<bound, disk, objs>>
       ELSE LET i == CHOOSE i \in FreeInos : \A j \in FreeInos : i <= j IN
            /\ objs' = objs + 1
            /\ disk' = [disk EXCEPT ![i] = [obj |-> objs + 1, nlink |-> 1]]
            /\ bound' = [bound EXCEPT ![life[t].name] = i]
            /\ Step(t, [life[t] EXCEPT !.at = "cinit", !.ino = i, !.then = "idle"])
            /\ UNCHANGED dirLease
    /\ UNCHANGED <<rt, table, nextInc, files, relq, core>>

CreateInit(t) ==
    /\ At(t, "cinit")
    /\ InitializeNew(life[t].ino)
    /\ Unlock
    /\ Goto(t, "retain")
    /\ UNCHANGED <<bound, disk, rt, files, relq, core, objs>>

-----------------------------------------------------------------------------
(* unlink_file_in and Ext4Mount::unlink, which runs with the core held but   *)
(* shares the runtime table with releases that do not take the core.         *)

EnterUnlink(t) ==
    /\ At(t, "idle") /\ "unlink" \in OpsOf[t] /\ LookupFree
    /\ \E n \in Name :
        /\ bound[n] # 0
        /\ Touch(bound[n])
        /\ Step(t, [LifeIdle EXCEPT !.at = "ulock", !.name = n, !.file.ino = bound[n]])
    /\ UNCHANGED <<bound, disk, rt, nextInc, files, relq, dirLease, core, objs>>

UnlinkLock(t) ==
    /\ At(t, "ulock")
    /\ Lock(t)
    /\ DrainThen(t, life[t], "ubegin")
    /\ UNCHANGED <<bound, disk, rt, table, nextInc, files, relq, core, objs>>

MutSampled(i) == FALSE

\* begin_unlink: what the open count says when the removal is announced
Sampled(i) == rt[i].open > 0

UnlinkBegin(t) ==
    LET i == bound[life[t].name] IN
    /\ At(t, "ubegin")
    /\ CoreFree
    /\ IF i = 0
       THEN Unlock /\ Finish(t) /\ UNCHANGED <<rt, core>>
       ELSE /\ rt' = [rt EXCEPT ![i] = [Entry(i) EXCEPT !.unlinking = TRUE]]
            /\ Step(t, [life[t] EXCEPT !.at = "ufs", !.ino = i, !.defer = Sampled(i)])
            /\ core' = t
            /\ UNCHANGED dirLease
    /\ UNCHANGED <<bound, disk, table, nextInc, files, relq, objs>>

UnlinkFs(t) ==
    /\ At(t, "ufs")
    /\ bound' = [bound EXCEPT ![life[t].name] = 0]
    /\ disk' = Unlinked(life[t].ino, life[t].defer)
    /\ Goto(t, "ufinish")
    /\ UNCHANGED <<rt, table, nextInc, files, relq, dirLease, core, objs>>

UnlinkFinish(t) ==
    LET i == life[t].ino
        f == FinishUnlink(i, life[t].defer /\ disk[i].nlink = 0) IN
    /\ At(t, "ufinish")
    /\ rt' = [rt EXCEPT ![i] = f.left]
    /\ IF f.now
       THEN Goto(t, "ufree") /\ UNCHANGED <<core, dirLease>>
       ELSE Goto(t, "uend") /\ core' = NoLifeThread /\ Unlock
    /\ UNCHANGED <<bound, disk, table, nextInc, files, relq, objs>>

UnlinkFree(t) ==
    /\ At(t, "ufree")
    /\ \/ FreeUnlinked(life[t].ino) /\ Goto(t, "uend")
       \/ "unlink" \in FreeFails /\ Finish(t) /\ UNCHANGED <<disk, rt>>
    /\ core' = NoLifeThread
    /\ Unlock
    /\ UNCHANGED <<bound, table, nextInc, files, relq, objs>>

\* invalidate_metadata of the node found by the first lookup
UnlinkEnd(t) ==
    /\ At(t, "uend")
    /\ Touch(life[t].file.ino)
    /\ Finish(t)
    /\ UNCHANGED <<bound, disk, rt, nextInc, files, relq, dirLease, core, objs>>

-----------------------------------------------------------------------------
(* rename_in and the vendored Ext4Filesystem::rename: the target is          *)
(* unlinked first, then the source is looked up and moved.                   *)

EnterRename(t) ==
    /\ At(t, "idle") /\ "rename" \in OpsOf[t] /\ LookupFree
    /\ \E a, b \in Name :
        /\ a # b /\ bound[a] # 0 /\ bound[a] # bound[b]
        /\ Step(t, [LifeIdle EXCEPT !.at = "rlock", !.name = a, !.to = b])
    /\ UNCHANGED <<bound, disk, rt, table, nextInc, files, relq, dirLease, core, objs>>

RenameLock(t) ==
    /\ At(t, "rlock")
    /\ Lock(t)
    /\ DrainThen(t, life[t], "rmove")
    /\ UNCHANGED <<bound, disk, rt, table, nextInc, files, relq, core, objs>>

RenameMove(t) ==
    LET a == life[t].name
        b == life[t].to
        cleared == [bound EXCEPT ![b] = 0] IN
    /\ At(t, "rmove")
    /\ CoreFree
    /\ disk' = IF bound[b] # 0 THEN Unlinked(bound[b], FALSE) ELSE disk
    /\ bound' = IF bound[a] # 0 THEN [cleared EXCEPT ![a] = 0, ![b] = bound[a]] ELSE cleared
    /\ Unlock
    /\ Finish(t)
    /\ UNCHANGED <<rt, table, nextInc, files, relq, core, objs>>

-----------------------------------------------------------------------------
(* link_node_in: linkat of an open file.                                    *)

EnterLink(t) ==
    /\ At(t, "idle") /\ "link" \in OpsOf[t] /\ LookupFree
    /\ \A i \in Ino : nextInc[i] < MaxInc
    /\ \E n \in Name, d \in OpenFds :
        /\ bound[n] = 0
        /\ Step(t, [LifeIdle EXCEPT !.at = "llock", !.name = n, !.ino = files[d].ino])
    /\ UNCHANGED <<bound, disk, rt, table, nextInc, files, relq, dirLease, core, objs>>

LinkLock(t) ==
    /\ At(t, "llock")
    /\ IF bound[life[t].name] = 0
       THEN Lock(t) /\ DrainThen(t, life[t], "lfs")
       ELSE dirLease = NoLifeThread /\ Finish(t) /\ UNCHANGED dirLease
    /\ UNCHANGED <<bound, disk, rt, table, nextInc, files, relq, core, objs>>

LinkFs(t) ==
    LET i == life[t].ino IN
    /\ At(t, "lfs")
    /\ CoreFree
    /\ IF disk[i].obj # 0
       THEN /\ disk' = [disk EXCEPT ![i].nlink = @ + 1]
            /\ bound' = [bound EXCEPT ![life[t].name] = i]
       ELSE UNCHANGED <<disk, bound>>
    /\ Touch(i)
    /\ Unlock
    /\ Finish(t)
    /\ UNCHANGED <<rt, nextInc, files, relq, core, objs>>

-----------------------------------------------------------------------------
(* VfsFile::drop: release_inode_from_drop_with_lease, which must not block.  *)

Others(t) == \E u \in LifeThread \ {t} : ~At(u, "idle")

EnterClose(t) ==
    /\ At(t, "idle") /\ "close" \in OpsOf[t]
    /\ \E d \in OpenFds :
        /\ files' = [files EXCEPT ![d] = NoFile]
        /\ Step(t, [LifeIdle EXCEPT !.at = "close", !.file = files[d]])
    /\ UNCHANGED <<bound, disk, rt, table, nextInc, relq, dirLease, core, objs>>

CloseCheck(t) ==
    /\ At(t, "close")
    /\ IF IsCurrent(life[t].file) THEN Goto(t, "try") ELSE Finish(t)
    /\ UNCHANGED <<bound, disk, rt, table, nextInc, files, relq, dirLease, core, objs>>

Deferred(t) == relq' = Append(relq, life[t].file) /\ Finish(t)

\* try_prepare_release: the shard lock may be held by somebody else
CloseTry(t) ==
    LET i == life[t].file.ino
        p == PrepareRelease(i) IN
    /\ At(t, "try")
    /\ \/ Others(t) /\ Deferred(t) /\ UNCHANGED rt
       \/ /\ rt' = [rt EXCEPT ![i] = p.left]
          /\ IF p.free THEN Goto(t, "cfree") ELSE Finish(t)
          /\ UNCHANGED relq
    /\ UNCHANGED <<bound, disk, table, nextInc, files, dirLease, core, objs>>

\* try_mutate: the flush coordinator or the core may be busy
CloseFree(t) ==
    /\ At(t, "cfree")
    /\ \/ /\ Others(t) \/ "close" \in FreeFails
          /\ Deferred(t) /\ UNCHANGED <<disk, rt>>
       \/ CoreFree /\ FreeUnlinked(life[t].file.ino) /\ Goto(t, "cforget") /\ UNCHANGED relq
    /\ UNCHANGED <<bound, table, nextInc, files, dirLease, core, objs>>

CloseForget(t) ==
    /\ At(t, "cforget")
    /\ RemoveIfSame(life[t].file)
    /\ Finish(t)
    /\ UNCHANGED <<bound, disk, rt, files, relq, dirLease, core, objs>>

\* sync(2) and fsync reach the backend through the same lease
EnterSync(t) ==
    /\ At(t, "idle") /\ "sync" \in OpsOf[t] /\ relq # << >>
    /\ DrainThen(t, LifeIdle, "idle")
    /\ UNCHANGED <<bound, disk, rt, table, nextInc, files, relq, dirLease, core, objs>>

LifeNext ==
    \E t \in LifeThread :
        \/ Drain(t)
        \/ EnterOpen(t) \/ Retain(t) \/ OpenState(t)
        \/ EnterCreate(t) \/ CreateLock(t) \/ CreateAlloc(t) \/ CreateInit(t)
        \/ EnterUnlink(t) \/ UnlinkLock(t) \/ UnlinkBegin(t) \/ UnlinkFs(t)
        \/ UnlinkFinish(t) \/ UnlinkFree(t) \/ UnlinkEnd(t)
        \/ EnterRename(t) \/ RenameLock(t) \/ RenameMove(t)
        \/ EnterLink(t) \/ LinkLock(t) \/ LinkFs(t)
        \/ EnterClose(t) \/ CloseCheck(t) \/ CloseTry(t) \/ CloseFree(t) \/ CloseForget(t)
        \/ EnterSync(t)

LifeSpec == LifeInit /\ [][LifeNext]_lifeVars

-----------------------------------------------------------------------------
(* Properties.                                                              *)

\* An open file pins its inode: while a VfsFile is open, the inode number it
\* holds still stores the object it was opened on, whatever unlinks, closes
\* of other files and queued releases run meanwhile.
OpenPinsInode == \A d \in OpenFds : disk[files[d].ino].obj = files[d].obj

\* All open files of one inode share one InodeState (dirty pages, writer
\* counts and metadata versions live there), and it is the table's current
\* one: a late release of an earlier inode with the same number never removes
\* or replaces it.
StateShared == \A d \in OpenFds : IsCurrent(files[d])

\* Nothing leaks: when no call is running, no file is open and the release
\* queue is empty, every allocated inode still has a name.
SpaceReclaimed ==
    (OpenFds = {} /\ relq = << >> /\ \A t \in LifeThread : At(t, "idle"))
        => \A i \in Ino : disk[i].obj # 0 => disk[i].nlink > 0

\* Every name leads to a live inode whose link count is the number of its
\* names: neither a deferred free of an inode that was linked again meanwhile
\* nor a rename over another name leaves a dangling entry.
NamesResolve ==
    /\ \A n \in Name : bound[n] # 0 => disk[bound[n]].obj # 0
    /\ \A i \in Ino : disk[i].nlink = Cardinality({n \in Name : bound[n] = i})

=============================================================================
