------------------------------- MODULE SysvShm -------------------------------
(* System V shared memory: the segment table of os/src/mm/shm.rs, the calls    *)
(* shmget, shmat, shmdt and shmctl of os/src/syscall/memory.rs, and what the   *)
(* address spaces of os/src/mm do with shared-memory areas: attaching and      *)
(* detaching, splitting, forking, exiting.                                     *)
(*                                                                             *)
(* The table has its own lock and the address spaces theirs, so every call is  *)
(* a sequence of steps.  A segment's frames live exactly as long as its table  *)
(* entry; the incarnation number stands for them.                              *)
EXTENDS Naturals, Sequences, FiniteSets, SequencesExt, Functions

CONSTANTS ShmProc,     \* processes, each with one thread in a call at a time
          ShmBorn,     \* those that exist at the start
          ShmKey,      \* keys; Private is none of them
          Private,
          ShmOwner,    \* the user of each process
          Sizes,       \* segment sizes, in pages
          SpaceTop,    \* pages of an address space
          SHMMNI, SHMALL,
          NextShmIds,  \* what /proc/sys/kernel/shm_next_id may be set to; 0: none
          MaxShmId, MaxInc

VARIABLES segs,        \* ShmManager.segments
          skeyed,      \* ShmManager.keyed_segments
          snext,       \* ShmManager.next_id
          srequested,  \* SHM_NEXT_ID, 0 when unset
          shmAreas,    \* the shared-memory areas of each address space
          retiring,    \* attachments whose area is gone and not yet detached
          shmCall,     \* the call each process is in
          incs         \* incarnations created

shmVars == <<segs, skeyed, snext, srequested, shmAreas, retiring, shmCall, incs>>

NoShm == [at |-> "idle"]
Exited == [at |-> "none"]

ShmInit ==
    /\ segs = <<>> /\ skeyed = <<>> /\ snext = 1 /\ srequested = 0 /\ incs = 0
    /\ shmAreas = [p \in ShmProc |-> {}]
    /\ retiring = [p \in ShmProc |-> <<>>]
    /\ shmCall = [p \in ShmProc |-> IF p \in ShmBorn THEN NoShm ELSE Exited]

Idle(p) == shmCall[p] = NoShm /\ retiring[p] = <<>>
Put(f, x, v) == [y \in DOMAIN f \cup {x} |-> IF y = x THEN v ELSE f[y]]
Drop(f, x) == Restrict(f, DOMAIN f \ {x})

(* alloc_id: the requested id when it is free, else the next free one; next_id *)
(* then moves past it and past every id in use.                                *)
FirstFree(from, taken) == CHOOSE n \in from .. MaxShmId + 2 :
                            n \notin taken /\ \A m \in from .. n - 1 : m \in taken
AllocId ==
    IF srequested # 0 /\ srequested \notin DOMAIN segs
    THEN [id |-> srequested, next |-> snext]
    ELSE LET id == FirstFree(snext, DOMAIN segs)
         IN [id |-> id, next |-> FirstFree(id + 1, DOMAIN segs)]

TotalPages == FoldFunction(LAMBDA s, n : s.size + n, 0, segs)

(* create_segment, under the table lock; without frames it fails after the id  *)
(* has been taken.                                                             *)
CreateSegment(p, key, size) ==
    IF Cardinality(DOMAIN segs) >= SHMMNI \/ TotalPages + size > SHMALL
    THEN UNCHANGED <<segs, skeyed, snext, srequested, incs>>
    ELSE \/ /\ incs < MaxInc /\ AllocId.id <= MaxShmId
            /\ segs' = Put(segs, AllocId.id,
                           [key |-> key, size |-> size, owner |-> ShmOwner[p], creator |-> ShmOwner[p],
                            count |-> 0, marked |-> FALSE, inc |-> incs + 1])
            /\ skeyed' = IF key = Private THEN skeyed ELSE Put(skeyed, key, AllocId.id)
            /\ snext' = AllocId.next /\ srequested' = 0 /\ incs' = incs + 1
         \/ /\ AllocId.id <= MaxShmId
            /\ snext' = AllocId.next
            /\ UNCHANGED <<segs, skeyed, srequested, incs>>

(* shmget_segment: a known key finds its segment, which may be refused for its *)
(* size or the caller's rights; otherwise the segment is created.              *)
Shmget(p, key, size, create) ==
    /\ Idle(p)
    /\ key \in DOMAIN skeyed \/ create \/ key = Private
    /\ IF key # Private /\ key \in DOMAIN skeyed
       THEN UNCHANGED <<segs, skeyed, snext, srequested, incs>>
       ELSE CreateSegment(p, key, size)
    /\ UNCHANGED <<shmAreas, retiring, shmCall>>

(* set_shm_next_id. *)
SetNextId(id) ==
    /\ srequested' = id
    /\ UNCHANGED <<segs, skeyed, snext, shmAreas, retiring, shmCall, incs>>

(* attach: the count rises before the area exists. *)
AttachSegment(p, id) ==
    /\ Idle(p)
    /\ id \in DOMAIN segs /\ ~segs[id].marked
    /\ segs' = [segs EXCEPT ![id].count = @ + 1]
    /\ shmCall' = [shmCall EXCEPT ![p] = [at |-> "attach", id |-> id, inc |-> segs[id].inc,
                                          size |-> segs[id].size]]
    /\ UNCHANGED <<skeyed, snext, srequested, shmAreas, retiring, incs>>

Area(id, inc, lo, hi) == [id |-> id, inc |-> inc, lo |-> lo, hi |-> hi]
Overlaps(p, lo, hi) == \E a \in shmAreas[p] : a.lo < hi /\ lo < a.hi

(* attach_shm_area, under the lock of the address space: at a requested or a   *)
(* found address that is free.                                                 *)
AttachArea(p) ==
    /\ shmCall[p].at = "attach"
    /\ \E lo \in 0 .. SpaceTop - 1 :
         /\ lo + shmCall[p].size <= SpaceTop /\ ~Overlaps(p, lo, lo + shmCall[p].size)
         /\ shmAreas' = [shmAreas EXCEPT ![p] = @ \cup
              {Area(shmCall[p].id, shmCall[p].inc, lo, lo + shmCall[p].size)}]
    /\ shmCall' = [shmCall EXCEPT ![p] = NoShm]
    /\ UNCHANGED <<segs, skeyed, snext, srequested, retiring, incs>>

MutUndoAttach(p) == <<>>

(* The attachment a failed shmat gives back. *)
UndoAttach(p) == <<shmCall[p].id>>

(* The address is taken, or a page table page is missing: sys_shmat detaches. *)
AttachFails(p) ==
    /\ shmCall[p].at = "attach"
    /\ retiring' = [retiring EXCEPT ![p] = UndoAttach(p)]
    /\ shmCall' = [shmCall EXCEPT ![p] = NoShm]
    /\ UNCHANGED <<segs, skeyed, snext, srequested, shmAreas, incs>>

(* detach: the last attachment of a marked segment removes it. *)
Detached(id) ==
    LET left == IF segs[id].count = 0 THEN 0 ELSE segs[id].count - 1
    IN IF left = 0 /\ segs[id].marked THEN Drop(segs, id)
       ELSE [segs EXCEPT ![id].count = left]

RemoveKeyIfCurrent(key, id) ==
    IF key # Private /\ key \in DOMAIN skeyed /\ skeyed[key] = id THEN Drop(skeyed, key) ELSE skeyed

(* detach_segment for one retired attachment, after the pages were unmapped    *)
(* and invalidated everywhere.                                                 *)
DetachSegment(p) ==
    /\ retiring[p] # <<>>
    /\ LET id == Head(retiring[p])
       IN IF id \notin DOMAIN segs
          THEN UNCHANGED <<segs, skeyed>>
          ELSE /\ segs' = Detached(id)
               /\ skeyed' = IF id \in DOMAIN Detached(id) THEN skeyed
                            ELSE RemoveKeyIfCurrent(segs[id].key, id)
    /\ retiring' = [retiring EXCEPT ![p] = Tail(@)]
    /\ UNCHANGED <<snext, srequested, shmAreas, shmCall, incs>>

(* detach_shm_area: the area that starts at the address. *)
Shmdt(p, a) ==
    /\ Idle(p) /\ a \in shmAreas[p]
    /\ shmAreas' = [shmAreas EXCEPT ![p] = @ \ {a}]
    /\ retiring' = [retiring EXCEPT ![p] = <<a.id>>]
    /\ UNCHANGED <<segs, skeyed, snext, srequested, shmCall, incs>>

(* retain_attached. *)
Retained(id) == IF id \in DOMAIN segs THEN [segs EXCEPT ![id].count = @ + 1] ELSE segs

(* MapArea::split_off at a page of an area, for munmap, mprotect or mremap:    *)
(* both pieces are attachments.                                                *)
SplitArea(p, a, at) ==
    /\ Idle(p) /\ a \in shmAreas[p] /\ a.lo < at /\ at < a.hi
    /\ segs' = Retained(a.id)
    /\ shmAreas' = [shmAreas EXCEPT ![p] = (@ \ {a}) \cup
                      {Area(a.id, a.inc, a.lo, at), Area(a.id, a.inc, at, a.hi)}]
    /\ UNCHANGED <<skeyed, snext, srequested, retiring, shmCall, incs>>

InOrder(set) == SetToSortSeq(set, LAMBDA a, b : a.lo < b.lo)
IdsOf(set) == [i \in 1 .. Cardinality(set) |-> InOrder(set)[i].id]

(* from_existed_user copies the areas one by one while the parent's address    *)
(* space is locked.                                                            *)
ForkBegin(p, q) ==
    /\ Idle(p) /\ shmCall[q] = Exited /\ retiring[q] = <<>>
    /\ shmCall' = [shmCall EXCEPT ![p] = [at |-> "fork", child |-> q, left |-> InOrder(shmAreas[p])],
                                  ![q] = [at |-> "built"]]
    /\ UNCHANGED <<segs, skeyed, snext, srequested, shmAreas, retiring, incs>>

ForkArea(p) ==
    /\ shmCall[p].at = "fork" /\ shmCall[p].left # <<>>
    /\ LET a == Head(shmCall[p].left)
       IN IF a.id \in DOMAIN segs
          THEN /\ segs' = Retained(a.id)
               /\ shmAreas' = [shmAreas EXCEPT ![shmCall[p].child] =
                                 @ \cup {[a EXCEPT !.inc = segs[a.id].inc]}]
          ELSE UNCHANGED <<segs, shmAreas>>
    /\ shmCall' = [shmCall EXCEPT ![p].left = Tail(@)]
    /\ UNCHANGED <<skeyed, snext, srequested, retiring, incs>>

ForkEnd(p) ==
    /\ shmCall[p].at = "fork" /\ shmCall[p].left = <<>>
    /\ shmCall' = [shmCall EXCEPT ![p] = NoShm, ![shmCall[p].child] = NoShm]
    /\ UNCHANGED <<segs, skeyed, snext, srequested, shmAreas, retiring, incs>>

(* Without memory the copy is dropped: what it attached is retired. *)
ForkFails(p) ==
    /\ shmCall[p].at = "fork"
    /\ LET q == shmCall[p].child
       IN /\ shmAreas' = [shmAreas EXCEPT ![q] = {}]
          /\ retiring' = [retiring EXCEPT ![q] = IdsOf(shmAreas[q])]
          /\ shmCall' = [shmCall EXCEPT ![p] = NoShm, ![q] = Exited]
    /\ UNCHANGED <<segs, skeyed, snext, srequested, incs>>

(* recycle_data_pages on exit: every area is retired, then detached in order. *)
ExitSpace(p) ==
    /\ Idle(p)
    /\ shmAreas' = [shmAreas EXCEPT ![p] = {}]
    /\ retiring' = [retiring EXCEPT ![p] = IdsOf(shmAreas[p])]
    /\ shmCall' = [shmCall EXCEPT ![p] = Exited]
    /\ UNCHANGED <<segs, skeyed, snext, srequested, incs>>

IsOwnerOrCreator(p, id) == ShmOwner[p] \in {segs[id].owner, segs[id].creator}

(* mark_for_delete: the segment stays while it is attached. *)
Marked(id) == IF segs[id].count = 0 THEN Drop(segs, id) ELSE [segs EXCEPT ![id].marked = TRUE]

(* IPC_RMID, for the owner or creator: the key is free at once. *)
MarkForDelete(p, id) ==
    /\ Idle(p) /\ id \in DOMAIN segs /\ IsOwnerOrCreator(p, id)
    /\ segs' = Marked(id)
    /\ skeyed' = RemoveKeyIfCurrent(segs[id].key, id)
    /\ UNCHANGED <<snext, srequested, shmAreas, retiring, shmCall, incs>>

(* IPC_SET: the owner changes; rights do not touch attachments. *)
SetAttrs(p, id, owner) ==
    /\ Idle(p) /\ id \in DOMAIN segs /\ IsOwnerOrCreator(p, id)
    /\ segs' = [segs EXCEPT ![id].owner = owner]
    /\ UNCHANGED <<skeyed, snext, srequested, shmAreas, retiring, shmCall, incs>>

ShmNext ==
    \/ \E id \in NextShmIds : SetNextId(id)
    \/ \E p \in ShmProc :
         \/ \E key \in ShmKey \cup {Private}, size \in Sizes, create \in BOOLEAN :
              Shmget(p, key, size, create)
         \/ \E id \in DOMAIN segs : AttachSegment(p, id) \/ MarkForDelete(p, id)
         \/ \E id \in DOMAIN segs, owner \in Range(ShmOwner) : SetAttrs(p, id, owner)
         \/ AttachArea(p) \/ AttachFails(p) \/ DetachSegment(p)
         \/ \E a \in shmAreas[p] : Shmdt(p, a) \/ \E at \in 1 .. SpaceTop : SplitArea(p, a, at)
         \/ \E q \in ShmProc : ForkBegin(p, q)
         \/ ForkArea(p) \/ ForkEnd(p) \/ ForkFails(p) \/ ExitSpace(p)

ShmSpec == ShmInit /\ [][ShmNext]_shmVars

Attachments(id) ==
    Cardinality({<<p, a>> \in ShmProc \X UNION Range(shmAreas) : a \in shmAreas[p] /\ a.id = id})
    + Cardinality({p \in ShmProc : shmCall[p].at = "attach" /\ shmCall[p].id = id})
    + FoldFunction(+, 0, [p \in ShmProc |->
                           Cardinality({i \in DOMAIN retiring[p] : retiring[p][i] = id})])

(* A segment's attach count is the number of areas and of calls on their way   *)
(* that hold it, whatever splits, forks, failures and exits happened; a marked *)
(* segment with none left is gone (attach, retain_attached, detach).           *)
AttachExact ==
    \A id \in DOMAIN segs :
       segs[id].count = Attachments(id) /\ (segs[id].marked => segs[id].count > 0)

(* The frames an address space maps, or a call is about to map, belong to the  *)
(* segment that is still in the table under that id: they are not freed under  *)
(* a mapping, nor is the id given to another segment meanwhile                 *)
(* (mark_for_delete, detach, alloc_id).                                        *)
MappedFramesLive ==
    \A p \in ShmProc :
       /\ \A a \in shmAreas[p] : a.id \in DOMAIN segs /\ segs[a.id].inc = a.inc
       /\ shmCall[p].at = "attach" =>
            shmCall[p].id \in DOMAIN segs /\ segs[shmCall[p].id].inc = shmCall[p].inc

(* A key finds only a segment created with it and not marked for deletion, and *)
(* no two keys find the same (remove_key_if_current).                          *)
KeysFindSegments ==
    \A key \in DOMAIN skeyed :
       skeyed[key] \in DOMAIN segs /\ segs[skeyed[key]].key = key /\ ~segs[skeyed[key]].marked
=============================================================================
