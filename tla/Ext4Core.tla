------------------------------ MODULE Ext4Core ------------------------------
(* The concurrent ext4 backend (os/src/fs/ext4.rs, ConcurrentExt4Backend):     *)
(* admission of shared callers and of the exclusive writer to the one lwext4   *)
(* core, the per-inode metadata shadows that chmod and its kin change, the     *)
(* dirty tickets of the block cache and the detached, group-committed          *)
(* writeback that fsync and sync wait for.                                     *)
(*                                                                             *)
(* A metadata change is abstracted to a counter: mode counts the chmods of an  *)
(* inode and data the changes other calls make to a block, so a copy with a    *)
(* larger number contains the earlier changes.  Every atomic load, store and   *)
(* read-modify-write of the admission and of the ticket counters is a step of  *)
(* its own; OneCpu lets no other thread run inside a window without a yield.   *)
EXTENDS Naturals, FiniteSets

CONSTANTS ExtThread,  \* the threads calling the backend
          ExtOps,     \* the calls each thread makes
          ExtCpu,     \* the CPU, hence the reader slot, of each thread
          Inodes,     \* inode numbers
          BlockOf,    \* the inode-table block of an inode
          OneCpu,     \* TRUE when only one CPU is online
          ExtErrors,  \* TRUE when a device write may fail
          MaxExtCalls,\* bound on the calls made
          NoExt       \* no thread

VARIABLES pending,    \* Ext4CoreAdmission.writer_pending
          waiting,    \* Ext4CoreAdmission.waiting_writers
          wlock,      \* the owner of Ext4CoreAdmission.writer_lock
          active,     \* the reader slots
          coord,      \* the owner of flush_coordinator
          completed,  \* completed_flush_ticket
          shadow,     \* the inode metadata cells
          shadowEpoch,\* Ext4InodeMetadataTable.dirty_epoch
          buf,        \* the block cache: one buffer for each block
          dirtyEpoch, \* ext4_bcache.dirty_epoch
          platter,    \* the device
          acked,      \* history: what completed calls have changed
          x,          \* the call of each thread
          extCalls    \* calls made so far

extVars == <<pending, waiting, wlock, active, coord, completed, shadow, shadowEpoch,
             buf, dirtyEpoch, platter, acked, x, extCalls>>
admission == <<pending, waiting, wlock, active>>
cache == <<shadow, shadowEpoch, buf, dirtyEpoch, platter>>

Block == {BlockOf[i] : i \in Inodes}
Slots == {ExtCpu[t] : t \in ExtThread}
Content == [mode : [Inodes -> Nat], data : [Block -> Nat]]
Blank == [mode |-> [i \in Inodes |-> 0], data |-> [b \in Block |-> 0]]
Higher(m, n) == IF m > n THEN m ELSE n

Idle == [op |-> "none", at |-> "idle", try |-> FALSE, left |-> {}, ticket |-> 0,
         block |-> NoExt, epoch |-> 0, todo |-> {}, pend |-> FALSE,
         need |-> Blank, got |-> 0, ino |-> NoExt]

ExtInit ==
    /\ pending = FALSE /\ waiting = 0 /\ wlock = NoExt
    /\ active = [c \in Slots |-> 0]
    /\ coord = NoExt /\ completed = 0
    /\ shadow = [i \in Inodes |-> [cell |-> FALSE, attr |-> 0, owned |-> FALSE,
                                   dirty |-> FALSE, epoch |-> 0, lock |-> NoExt]]
    /\ shadowEpoch = 0
    /\ buf = [b \in Block |-> [mode |-> [i \in Inodes |-> 0], data |-> 0, dirty |-> FALSE,
                               first |-> 0, refs |-> {}, writeback |-> FALSE]]
    /\ dirtyEpoch = 0
    /\ platter = Blank /\ acked = Blank
    /\ x = [t \in ExtThread |-> Idle]
    /\ extCalls = 0

(* Windows of the code that contain no yield and no sleep: with one CPU        *)
(* online no other thread runs while a thread is in one of them.               *)
NonYielding == {"enter", "recheck", "close", "reopen", "unlock", "dirty", "submit"}
Runs(t) == OneCpu => \A u \in ExtThread \ {t} : x[u].at \notin NonYielding

At(t, place) == x[t].at = place /\ Runs(t)
Goto(t, place) == x' = [x EXCEPT ![t].at = place]
Leave(t) == x' = [x EXCEPT ![t] = Idle]

Shared == {"chmod", "stat", "create", "sync"}

(* A call arrives.  Readers and audited mutations enter shared, the legacy     *)
(* mutations take the flush coordinator and enter exclusively, statfs and the  *)
(* preparation of a write plan enter exclusively without it, and a close tries *)
(* both and gives up.  sync reads its shadow boundary before it enters.        *)
EnterCall(t) ==
    /\ At(t, "idle") /\ extCalls < MaxExtCalls
    /\ \E op \in ExtOps[t], i \in Inodes :
         x' = [x EXCEPT ![t] = [Idle EXCEPT !.op = op, !.ino = i, !.need = acked,
                 !.ticket = IF op = "sync" THEN shadowEpoch ELSE 0,
                 !.at = IF op \in Shared THEN "gate"
                        ELSE IF op = "statfs" THEN "trylock" ELSE "coordinate"]]
    /\ extCalls' = extCalls + 1
    /\ UNCHANGED <<admission, coord, completed, cache, acked>>

-----------------------------------------------------------------------------
(* Ext4CoreAdmission, shared side.                                             *)

(* try_read: the first load of writer_pending; a closed gate yields.           *)
ReadGate(t) ==
    /\ At(t, "gate") /\ ~pending
    /\ Goto(t, "enter")
    /\ UNCHANGED <<admission, coord, completed, cache, acked, extCalls>>

ReadEnter(t) ==
    /\ At(t, "enter")
    /\ active' = [active EXCEPT ![ExtCpu[t]] = @ + 1]
    /\ Goto(t, "recheck")
    /\ UNCHANGED <<pending, waiting, wlock, coord, completed, cache, acked, extCalls>>

(* The second load: a writer that closed the gate meanwhile turns the reader   *)
(* back.                                                                       *)
MutReadRecheck(t) ==
    /\ At(t, "recheck")
    /\ Goto(t, "shared") /\ active' = active
    /\ UNCHANGED <<pending, waiting, wlock, coord, completed, cache, acked, extCalls>>

ReadRecheck(t) ==
    /\ At(t, "recheck")
    /\ IF pending
         THEN /\ active' = [active EXCEPT ![ExtCpu[t]] = @ - 1]
              /\ Goto(t, "gate")
         ELSE /\ active' = active
              /\ Goto(t, "shared")
    /\ UNCHANGED <<pending, waiting, wlock, coord, completed, cache, acked, extCalls>>

Left(t) == active' = [active EXCEPT ![ExtCpu[t]] = @ - 1]

-----------------------------------------------------------------------------
(* Ext4CoreAdmission, exclusive side.                                          *)

(* with_writer waits for the flush coordinator; try_mutate only tries it.      *)
Coordinate(t) ==
    /\ At(t, "coordinate")
    /\ IF coord = NoExt
         THEN coord' = t /\ Goto(t, "trylock")
         ELSE x[t].op = "release" /\ coord' = coord /\ Leave(t)
    /\ UNCHANGED <<admission, completed, cache, acked, extCalls>>

Uncoordinated(t) == IF coord = t THEN NoExt ELSE coord

(* try_write: the writer lock if it is free; lock_writer_exclusive falls back  *)
(* to write(), which registers before it waits for the lock.                   *)
TryLock(t) ==
    /\ At(t, "trylock")
    /\ IF wlock = NoExt
         THEN /\ wlock' = t /\ coord' = coord
              /\ x' = [x EXCEPT ![t].at = "register", ![t].try = TRUE]
         ELSE IF x[t].op = "release"
         THEN /\ wlock' = wlock /\ coord' = Uncoordinated(t)
              /\ Leave(t)
         ELSE /\ wlock' = wlock /\ coord' = coord
              /\ x' = [x EXCEPT ![t].at = "register", ![t].try = FALSE]
    /\ UNCHANGED <<pending, waiting, active, completed, cache, acked, extCalls>>

RegisterWriter(t) ==
    /\ At(t, "register")
    /\ waiting' = waiting + 1
    /\ Goto(t, "close")
    /\ UNCHANGED <<pending, wlock, active, coord, completed, cache, acked, extCalls>>

CloseGate(t) ==
    /\ At(t, "close")
    /\ pending' = TRUE
    /\ x' = [x EXCEPT ![t].at = IF x[t].try THEN "scan" ELSE "lock", ![t].left = Slots]
    /\ UNCHANGED <<waiting, wlock, active, coord, completed, cache, acked, extCalls>>

WriterLock(t) ==
    /\ At(t, "lock") /\ wlock = NoExt
    /\ wlock' = t
    /\ Goto(t, "scan")
    /\ UNCHANGED <<pending, waiting, active, coord, completed, cache, acked, extCalls>>

(* readers_active reads the slots one after the other; a slot in use makes     *)
(* try_write give up and write start the scan again.                           *)
Scan(t) ==
    /\ At(t, "scan")
    /\ \E c \in x[t].left :
         /\ \A d \in x[t].left : c <= d
         /\ x' = IF active[c] = 0
                 THEN [x EXCEPT ![t].left = @ \ {c},
                                ![t].at = IF x[t].left = {c} THEN "exclusive" ELSE "scan"]
                 ELSE IF x[t].try THEN [x EXCEPT ![t].at = "unregister"]
                 ELSE [x EXCEPT ![t].left = Slots]
    /\ UNCHANGED <<admission, coord, completed, cache, acked, extCalls>>

(* unregister_writer: the decrement, and the store that reopens the gate when  *)
(* the counter was one.                                                        *)
Unregister(t) ==
    /\ At(t, "unregister")
    /\ waiting' = waiting - 1
    /\ Goto(t, IF waiting = 1 THEN "reopen" ELSE "unlock")
    /\ UNCHANGED <<pending, wlock, active, coord, completed, cache, acked, extCalls>>

Reopen(t) ==
    /\ At(t, "reopen")
    /\ pending' = FALSE
    /\ Goto(t, "unlock")
    /\ UNCHANGED <<waiting, wlock, active, coord, completed, cache, acked, extCalls>>

(* The writer lock goes last.  A failed try_write either ends try_mutate or    *)
(* goes on with write().                                                       *)
WriterUnlock(t) ==
    /\ At(t, "unlock")
    /\ wlock' = NoExt
    /\ IF x[t].try /\ x[t].left # {} /\ x[t].op # "release"
         THEN /\ coord' = coord
              /\ x' = [x EXCEPT ![t].at = "register", ![t].try = FALSE]
         ELSE /\ coord' = Uncoordinated(t)
              /\ Leave(t)
    /\ UNCHANGED <<pending, waiting, active, completed, cache, acked, extCalls>>

(* The exclusive body.  A mutation changes the block of its inode, marks it    *)
(* dirty, takes the ticket and flushes every dirty buffer; an error leaves the *)
(* buffers dirty and the ticket unpublished.  statfs changes nothing.          *)
Flushed == [mode |-> [i \in Inodes |-> buf'[BlockOf[i]].mode[i]],
            data |-> [b \in Block |-> buf'[b].data]]

Exclusive(t) ==
    /\ At(t, "exclusive")
    /\ Goto(t, "unregister")
    /\ IF x[t].op = "statfs"
         THEN UNCHANGED <<buf, dirtyEpoch, platter, completed, acked>>
         ELSE LET b == BlockOf[x[t].ino]
                  changed == [buf EXCEPT ![b].data = @ + 1]
              IN \/ /\ buf' = [c \in Block |-> [changed[c] EXCEPT !.dirty = FALSE, !.first = 0]]
                    /\ dirtyEpoch' = IF buf[b].first = 0 THEN dirtyEpoch + 1 ELSE dirtyEpoch
                    /\ platter' = Flushed
                    /\ completed' = Higher(completed, dirtyEpoch')
                    /\ acked' = [acked EXCEPT !.data[b] = Higher(@, buf'[b].data)]
                 \/ /\ ExtErrors
                    /\ dirtyEpoch' = IF buf[b].first = 0 THEN dirtyEpoch + 1 ELSE dirtyEpoch
                    /\ buf' = [changed EXCEPT ![b].dirty = TRUE,
                                 ![b].first = IF @ = 0 THEN dirtyEpoch' ELSE @]
                    /\ UNCHANGED <<platter, completed, acked>>
    /\ UNCHANGED <<admission, coord, shadow, shadowEpoch, extCalls>>

-----------------------------------------------------------------------------
(* Calls inside the shared core.                                               *)

(* mutate_inode_metadata: under the cell's lock the shadow is loaded if it is  *)
(* new, changed, and given a dirty epoch unless it already has one.            *)
MarkDirty(i) == IF shadow[i].epoch = 0 THEN shadowEpoch + 1 ELSE shadowEpoch

(* Ext4InodeMetadataShadow::apply and the epoch of a cell that has none.       *)
Applied(cell, attr, epoch) ==
    [cell EXCEPT !.cell = TRUE, !.attr = attr, !.owned = TRUE, !.dirty = TRUE,
                 !.epoch = IF @ = 0 THEN epoch ELSE @]

Chmod(t) ==
    LET i == x[t].ino IN
    /\ At(t, "shared") /\ x[t].op = "chmod" /\ shadow[i].lock = NoExt
    /\ LET attr == (IF shadow[i].cell THEN shadow[i].attr ELSE buf[BlockOf[i]].mode[i]) + 1
       IN /\ shadow' = [shadow EXCEPT ![i] = Applied(@, attr, MarkDirty(i))]
          /\ acked' = [acked EXCEPT !.mode[i] = attr]
    /\ shadowEpoch' = MarkDirty(i)
    /\ Left(t) /\ Leave(t)
    /\ UNCHANGED <<pending, waiting, wlock, coord, completed, buf, dirtyEpoch, platter, extCalls>>

(* stat_shared: get_attr from the cache, then the owned fields of the shadow.  *)
StatAttr(t) ==
    LET i == x[t].ino IN
    /\ At(t, "shared") /\ x[t].op = "stat" /\ ~buf[BlockOf[i]].writeback
    /\ x' = [x EXCEPT ![t].got = buf[BlockOf[i]].mode[i], ![t].at = "overlay"]
    /\ UNCHANGED <<admission, coord, completed, cache, acked, extCalls>>

StatOverlay(t) ==
    LET i == x[t].ino IN
    /\ At(t, "overlay") /\ shadow[i].lock = NoExt
    /\ x' = [x EXCEPT ![t].got = IF shadow[i].cell /\ shadow[i].owned THEN shadow[i].attr ELSE @,
                      ![t].at = "stated"]
    /\ Left(t)
    /\ UNCHANGED <<pending, waiting, wlock, coord, completed, cache, acked, extCalls>>

(* A buffer is pinned unless writeback owns its LBA lock; a caller that finds  *)
(* it there waits.                                                             *)
Pin(t, b) ==
    /\ ~buf[b].writeback
    /\ buf' = [buf EXCEPT ![b].refs = @ \union {t}]

CreatePin(t) ==
    LET b == BlockOf[x[t].ino] IN
    /\ At(t, "shared") /\ x[t].op = "create"
    /\ Pin(t, b)
    /\ x' = [x EXCEPT ![t].at = "change", ![t].block = b]
    /\ UNCHANGED <<admission, coord, completed, shadow, shadowEpoch, dirtyEpoch, platter,
                   acked, extCalls>>

(* materialize_metadata_shadows: the snapshot of the cells, then each covered  *)
(* shadow is written into its buffer with the cell locked.                     *)
SyncSnapshot(t) ==
    /\ At(t, "shared") /\ x[t].op = "sync"
    /\ x' = [x EXCEPT ![t].todo = {i \in Inodes : shadow[i].cell}, ![t].at = "cells"]
    /\ UNCHANGED <<admission, coord, completed, cache, acked, extCalls>>

Covered(i, ticket) == shadow[i].epoch # 0 /\ shadow[i].epoch <= ticket

SyncCell(t) ==
    /\ At(t, "cells") /\ x[t].todo # {}
    /\ LET i == CHOOSE i \in x[t].todo : \A j \in x[t].todo : i <= j IN
         /\ shadow[i].lock = NoExt
         /\ IF Covered(i, x[t].ticket)
              THEN /\ Pin(t, BlockOf[i])
                   /\ shadow' = [shadow EXCEPT ![i].lock = t]
                   /\ x' = [x EXCEPT ![t].todo = @ \ {i}, ![t].ino = i,
                                     ![t].block = BlockOf[i], ![t].at = "change"]
              ELSE /\ x' = [x EXCEPT ![t].todo = @ \ {i}]
                   /\ UNCHANGED <<buf, shadow>>
    /\ UNCHANGED <<admission, coord, completed, shadowEpoch, dirtyEpoch, platter, acked, extCalls>>

(* The change of the pinned buffer, and the first half of                      *)
(* ext4_bcache_set_dirty: a buffer that already has an epoch and its dirty     *)
(* flag is left alone, another one draws the next epoch.                       *)
ChangeBlock(t) ==
    LET b == x[t].block IN
    /\ At(t, "change")
    /\ buf' = IF x[t].op = "sync"
              THEN [buf EXCEPT ![b].mode[x[t].ino] = shadow[x[t].ino].attr]
              ELSE [buf EXCEPT ![b].data = @ + 1]
    /\ IF buf[b].first # 0 /\ buf[b].dirty
         THEN /\ dirtyEpoch' = dirtyEpoch
              /\ x' = [x EXCEPT ![t].at = "unpin", ![t].got = buf'[b].data]
         ELSE /\ dirtyEpoch' = IF buf[b].first = 0 THEN dirtyEpoch + 1 ELSE dirtyEpoch
              /\ x' = [x EXCEPT ![t].at = "dirty", ![t].epoch = dirtyEpoch', ![t].got = buf'[b].data]
    /\ UNCHANGED <<admission, coord, completed, shadow, shadowEpoch, platter, acked, extCalls>>

(* Its second half: publish the epoch on the buffer unless another caller did, *)
(* and set the dirty flag.                                                     *)
SetDirty(t) ==
    LET b == x[t].block IN
    /\ At(t, "dirty")
    /\ buf' = [buf EXCEPT ![b].first = IF @ = 0 THEN x[t].epoch ELSE @, ![b].dirty = TRUE]
    /\ Goto(t, "unpin")
    /\ UNCHANGED <<admission, coord, completed, shadow, shadowEpoch, dirtyEpoch, platter,
                   acked, extCalls>>

Cleaned(cell) == [cell EXCEPT !.dirty = FALSE, !.epoch = 0, !.lock = NoExt]

(* The buffer is released: a create returns, materialize marks the shadow      *)
(* clean, unlocks it and goes on with the next cell.                           *)
Unpin(t) ==
    LET b == x[t].block IN
    /\ At(t, "unpin")
    /\ buf' = [buf EXCEPT ![b].refs = @ \ {t}]
    /\ IF x[t].op = "sync"
         THEN /\ shadow' = [shadow EXCEPT ![x[t].ino] = Cleaned(@)]
              /\ x' = [x EXCEPT ![t].at = "cells"]
              /\ UNCHANGED <<active, acked>>
         ELSE /\ acked' = [acked EXCEPT !.data[b] = Higher(@, x[t].got)]
              /\ Left(t) /\ Leave(t)
              /\ shadow' = shadow
    /\ UNCHANGED <<pending, waiting, wlock, coord, completed, shadowEpoch, dirtyEpoch, platter,
                   extCalls>>

-----------------------------------------------------------------------------
(* sync_current after the shadows: the ticket, the end of the shared section   *)
(* and flush_through_ticket.                                                   *)
SyncTicket(t) ==
    /\ At(t, "cells") /\ x[t].todo = {}
    /\ Left(t)
    /\ x' = [x EXCEPT ![t].at = "flush", ![t].ticket = dirtyEpoch]
    /\ UNCHANGED <<pending, waiting, wlock, coord, completed, cache, acked, extCalls>>

(* The completed ticket covers ours, or the coordinator is free and we lead;   *)
(* otherwise the caller yields and looks again.                                *)
FlushLead(t) ==
    /\ At(t, "flush")
    /\ IF completed >= x[t].ticket
         THEN coord' = coord /\ Goto(t, "synced")
         ELSE /\ coord = NoExt /\ coord' = t
              /\ x' = [x EXCEPT ![t].at = "flushing", ![t].left = Block, ![t].pend = FALSE]
    /\ UNCHANGED <<admission, completed, cache, acked, extCalls>>

(* ext4_block_cache_flush_through visits the covered dirty buffers; one that a *)
(* caller still pins is left pending.                                          *)
FlushVisit(t) ==
    /\ At(t, "flushing") /\ x[t].left # {}
    /\ LET b == CHOOSE b \in x[t].left : \A c \in x[t].left : b <= c
           covered == buf[b].first # 0 /\ buf[b].first <= x[t].ticket /\ buf[b].dirty
       IN x' = [x EXCEPT ![t].left = @ \ {b}, ![t].block = b,
                         ![t].at = IF covered /\ buf[b].refs = {} THEN "submit" ELSE "flushing",
                         ![t].pend = @ \/ (covered /\ buf[b].refs # {})]
    /\ UNCHANGED <<admission, coord, completed, cache, acked, extCalls>>

(* ext4_block_flush_buf_locked: the buffer turns to writeback and its bytes go *)
(* to the device.                                                              *)
FlushSubmit(t) ==
    LET b == x[t].block IN
    /\ At(t, "submit")
    /\ buf' = [buf EXCEPT ![b].writeback = TRUE]
    /\ platter' = [mode |-> [i \in Inodes |-> IF BlockOf[i] = b THEN buf[b].mode[i]
                                              ELSE platter.mode[i]],
                   data |-> [platter.data EXCEPT ![b] = buf[b].data]]
    /\ Goto(t, "clean")
    /\ UNCHANGED <<admission, coord, completed, shadow, shadowEpoch, dirtyEpoch, acked, extCalls>>

FlushClean(t) ==
    LET b == x[t].block IN
    /\ At(t, "clean")
    /\ buf' = [buf EXCEPT ![b].writeback = FALSE, ![b].dirty = FALSE, ![b].first = 0]
    /\ Goto(t, "flushing")
    /\ UNCHANGED <<admission, coord, completed, shadow, shadowEpoch, dirtyEpoch, platter,
                   acked, extCalls>>

(* A device error ends the call; the buffer stays dirty.                       *)
FlushFails(t) ==
    /\ ExtErrors /\ At(t, "submit")
    /\ coord' = NoExt /\ Leave(t)
    /\ UNCHANGED <<admission, completed, cache, acked, extCalls>>

(* Only a pass that left nothing pending publishes the ticket.                 *)
FlushDone(t) ==
    /\ At(t, "flushing") /\ x[t].left = {}
    /\ coord' = NoExt
    /\ IF x[t].pend
         THEN completed' = completed /\ Goto(t, "flush")
         ELSE completed' = Higher(completed, x[t].ticket) /\ Goto(t, "synced")
    /\ UNCHANGED <<admission, cache, acked, extCalls>>

ExtReturn(t) ==
    /\ x[t].at \in {"synced", "stated"} /\ Runs(t)
    /\ Leave(t)
    /\ UNCHANGED <<admission, coord, completed, cache, acked, extCalls>>

ExtStep(t) ==
    \/ ReadGate(t) \/ ReadEnter(t) \/ ReadRecheck(t)
    \/ Coordinate(t) \/ TryLock(t) \/ RegisterWriter(t) \/ CloseGate(t) \/ WriterLock(t)
    \/ Scan(t) \/ Unregister(t) \/ Reopen(t) \/ WriterUnlock(t) \/ Exclusive(t)
    \/ Chmod(t) \/ StatAttr(t) \/ StatOverlay(t) \/ CreatePin(t) \/ ChangeBlock(t)
    \/ SetDirty(t) \/ Unpin(t)
    \/ SyncSnapshot(t) \/ SyncCell(t) \/ SyncTicket(t) \/ FlushLead(t) \/ FlushVisit(t)
    \/ FlushSubmit(t) \/ FlushClean(t) \/ FlushFails(t) \/ FlushDone(t) \/ ExtReturn(t)

ExtNext == \E t \in ExtThread : EnterCall(t) \/ ExtStep(t)
ExtSpec == ExtInit /\ [][ExtNext]_extVars
ExtFairness == \A t \in ExtThread : SF_extVars(ExtStep(t))

-----------------------------------------------------------------------------
(* Who is inside the core: a reader from the second look at the gate to its    *)
(* guard's drop, the writer from the end of its scan.                          *)
InShared(t) == x[t].at \in {"shared", "overlay", "change", "dirty", "unpin", "cells"}
InExclusive(t) == x[t].at = "exclusive"

ExtTypeOK ==
    /\ waiting \in Nat /\ \A c \in Slots : active[c] \in Nat
    /\ wlock \in ExtThread \union {NoExt} /\ coord \in ExtThread \union {NoExt}
    /\ completed <= dirtyEpoch
    /\ platter \in Content

(* Mutable access to the one lwext4 mount excludes every other caller: while a *)
(* thread runs the exclusive body (SharedExt4WriteCore::exclusive) no thread   *)
(* holds a shared guard and no second one is in an exclusive body.  On several *)
(* CPUs this needs the writers to take the flush coordinator, as mutations and *)
(* releases do: unregister_writer of a statfs can reopen the gate that another *)
(* statfs has just closed.                                                     *)
CoreExclusive ==
    \A t \in ExtThread : InExclusive(t) =>
        \A u \in ExtThread \ {t} : ~InShared(u) /\ ~InExclusive(u)

(* When sync returns Ok, every change that a completed call had made before    *)
(* the sync began - in a shadow or in a buffer - is on the device              *)
(* (sync_current: shadow ticket, materialisation, flush_through_ticket).       *)
SyncCovers ==
    \A t \in ExtThread : x[t].at = "synced" =>
        /\ \A i \in Inodes : platter.mode[i] >= x[t].need.mode[i]
        /\ \A b \in Block : platter.data[b] >= x[t].need.data[b]

(* stat reads the cached inode first and the shadow afterwards; whatever       *)
(* writeback does in between, it returns a mode at least as new as the last    *)
(* chmod that completed before it began (stat_shared, overlay_attr).           *)
StatSeesChmod ==
    \A t \in ExtThread : x[t].at = "stated" => x[t].got >= x[t].need.mode[x[t].ino]

(* Every call returns: neither the drained readers, nor the flush coordinator, *)
(* nor a pinned covered buffer keeps a caller for ever.                        *)
ExtCallsEnd == \A t \in ExtThread : (x[t].at # "idle") ~> (x[t].at = "idle")
=============================================================================
