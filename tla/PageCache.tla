----------------------------- MODULE PageCache -----------------------------
(***************************************************************************)
(* The page cache of one regular file: os/src/mm/page_cache.rs and         *)
(* mm/page_cache/load_gate.rs, the cached read of fs/vfs/file.rs           *)
(* (read_regular_cached_at) and the page-cache faults of mm/user_space.rs, *)
(* mm/area.rs and mm/user_fault.rs.                                        *)
(*                                                                         *)
(* `disk` is the backend, `overlay` the pages of the dirty write-back      *)
(* cache that hide it (DirtyFile models that cache in detail).  A page is  *)
(* cached under <<generation, page>>; MAP_SHARED mappings use one          *)
(* generation of their own.  Every action is one critical section of the   *)
(* PAGE_CACHE shard lock, of the process memory lock, of the dirty-file    *)
(* lock or of the inode's mapping lease.                                   *)
(***************************************************************************)
EXTENDS Naturals, SequencesExt, FiniteSets, Functions

CONSTANTS
    Reader,     \* threads that read(2) the file
    Mapper,     \* processes that map the file
    MapKind,    \* Mapper -> {"private", "shared"}: read-only private or MAP_SHARED
    Born,       \* the mappers that exist at the start; fork creates the others
    Writer,     \* threads that write(2) or fsync(2) the file
    WriteOps,   \* subset of {"cached", "direct", "sync"}
    MapCalls,   \* subset of {"store", "unmap", "msync", "protect", "fork"}
    PageCount,  \* pages of the file
    Readahead,  \* VFS_READ_CACHE_READAHEAD_PAGES
    SoftMax,    \* PAGE_CACHE_SOFT_MAX_PAGES
    MaxWrites,  \* bound on the number of writes, stores and flushes
    MaxReads,   \* bound on the number of read(2) calls
    MaxFaults,  \* bound on the number of page faults and new mappings
    IoErrors,   \* threads whose backend reads may fail
    NoThread

VARIABLES
    disk,       \* per page, the version on the backend
    overlay,    \* per page, the dirty version that hides it, or Clean
    truth,      \* per page, the version of the last write that took effect
    lease,      \* the holder of the mapping-mutation lease
    gen,        \* PageCacheGeneration: value, active_mutations, completion_seq
    pages,      \* the cached pages
    lru,        \* their keys, least recently touched first
    stalled,    \* reclaim_stalled
    loading,    \* reserved keys and the load gate of each
    gatesDone,  \* load gates that are complete
    loads,      \* load gates created
    rd,         \* per thread, its cached read
    vmas,       \* the mappers whose mapping exists
    mapped,     \* per mapper and page, the key it holds and if it is writable
    fl,         \* per mapper, its page fault
    wr,         \* per thread, its write
    flushes,    \* per mapper, the MmapFlush records it still has to write
    unsaved,    \* pages stored to through a shared mapping since their last flush
    seen,       \* per reader, the file contents current during its read
    counts      \* writes, reads and faults made so far

pcVars == <<disk, overlay, truth, lease, gen, pages, lru, stalled, loading, gatesDone,
            loads, rd, vmas, mapped, fl, wr, flushes, unsaved, seen, counts>>

Page == 1 .. PageCount
Clean == 0
SharedGen == MaxWrites * 10      \* SHARED_MMAP_GENERATION: above every real one
NoKey == <<>>
Own == <<"own">>                 \* a private frame, outside the cache
NoMap == [key |-> NoKey, w |-> FALSE]
Unmapped == [p \in Page |-> NoMap]
Idle == [step |-> "idle"]

(* PageCache: the lookups and the trimming shared by the operations. *)
Stable == gen.active = 0
IsCurrentKey(key) == Stable /\ key[1] = gen.value
IsUsable(key, observed) ==
    Stable /\ gen.value = observed /\ key[1] \in {SharedGen, observed}
Evictable(ps) == {k \in DOMAIN ps : ps[k].ref = 0 /\ ~ps[k].dirty}
Touch(order, key) == Append(SelectSeq(order, LAMBDA k : k # key), key)
Forget(order, gone) == SelectSeq(order, LAMBDA k : k \notin gone)

(* trim_clean_unpinned_to_global_len on a cache c = [pages, lru, stalled]. *)
Trim(c, max) ==
    LET over == IF Cardinality(DOMAIN c.pages) > max
                THEN Cardinality(DOMAIN c.pages) - max ELSE 0
        order == SelectSeq(c.lru, LAMBDA k : k \in Evictable(c.pages))
        out == ToSet(SubSeq(order, 1, IF over < Len(order) THEN over ELSE Len(order)))
    IN  IF c.stalled \/ over = 0 THEN c
        ELSE [pages |-> Restrict(c.pages, DOMAIN c.pages \ out),
              lru |-> Forget(c.lru, out),
              stalled |-> over > Len(order)]

Cache == [pages |-> pages, lru |-> lru, stalled |-> stalled]
Become(c) == pages' = c.pages /\ lru' = c.lru /\ stalled' = c.stalled
Put(ps, key, page) == [k \in DOMAIN ps \cup {key} |-> IF k = key THEN page ELSE ps[k]]
NewPage(v, ref) == [data |-> v, ref |-> ref, dirty |-> FALSE]
Insert(c, key, page) ==
    [c EXCEPT !.pages = Put(c.pages, key, page), !.lru = Touch(c.lru, key)]

IncRef(ps, key) == [ps EXCEPT ![key].ref = @ + 1]

(* dec_ref: an unpinned clean page of another generation leaves the cache. *)
DecRef(c, key) ==
    LET ref == IF c.pages[key].ref = 0 THEN 0 ELSE c.pages[key].ref - 1
        unpinned == ref = 0 /\ ~c.pages[key].dirty
        left == IF unpinned /\ key[1] # gen.value
                THEN [pages |-> Restrict(c.pages, DOMAIN c.pages \ {key}),
                      lru |-> Forget(c.lru, {key}), stalled |-> FALSE]
                ELSE [c EXCEPT !.pages[key].ref = ref,
                               !.stalled = IF unpinned THEN FALSE ELSE @]
    IN  IF key \notin DOMAIN c.pages THEN Trim(c, SoftMax) ELSE Trim(left, SoftMax)
DecRefs(c, keys) == FoldLeft(DecRef, c, keys)

(* insert_read_cache_page: clean and unpinned, refused when no room is left. *)
InsertRead(c, load) ==
    LET t == Trim(c, SoftMax - 1)
    IN  IF load.key \in DOMAIN c.pages THEN [c EXCEPT !.lru = Touch(@, load.key)]
        ELSE IF Cardinality(DOMAIN t.pages) >= SoftMax THEN t
        ELSE Insert(t, load.key, NewPage(load.data, 0))

(***************************************************************************)
(* File mutations: begin_mutation, end_mutation, write_at_chunks, the      *)
(* flush of the dirty overlay.                                             *)
(***************************************************************************)
Begun(g) ==
    [g EXCEPT !.value = IF g.active = 0 THEN @ + 1 ELSE @, !.active = @ + 1]
MutEnded(g) ==
    [g EXCEPT !.value = IF g.active = 1 THEN @ - 1 ELSE @, !.active = @ - 1,
              !.completed = IF g.active = 1 THEN @ + 1 ELSE @]
Ended(g) ==
    [g EXCEPT !.value = IF g.active = 1 THEN @ + 1 ELSE @, !.active = @ - 1,
              !.completed = IF g.active = 1 THEN @ + 1 ELSE @]
(* The first mutation drops the clean unpinned pages of every generation. *)
Dropped(c) ==
    LET out == Evictable(c.pages)
    IN  [pages |-> Restrict(c.pages, DOMAIN c.pages \ out), lru |-> Forget(c.lru, out),
         stalled |-> c.stalled /\ out = {}]
BeginMutation ==
    /\ gen' = Begun(gen)
    /\ Become(IF gen.active = 0 THEN Dropped(Cache) ELSE Cache)
EndMutation == gen' = Ended(gen)

Seen(s, now) == [t \in Reader |-> IF rd[t].step = "idle" THEN s[t] ELSE s[t] \cup {now}]
Takes(p, v) ==
    /\ truth' = [truth EXCEPT ![p] = v]
    /\ seen' = Seen(seen, truth')

cacheVars == <<pages, lru, stalled>>
mapVars == <<vmas, mapped, fl, flushes, unsaved>>
readVars == <<loading, gatesDone, loads, rd>>

(* write_inner, write_at: the guard precedes every chunk.  fsync has none. *)
EnterWrite(t, op, p, v) ==
    /\ wr[t].step = "idle" /\ wr' = [wr EXCEPT ![t] =
          [step |-> "lease", op |-> op, page |-> p, data |-> v, batch |-> <<>>]]
    /\ IF op = "sync" THEN UNCHANGED <<gen, cacheVars>> ELSE BeginMutation
    /\ UNCHANGED <<disk, overlay, truth, lease, readVars, seen>>

WriteCall(t) ==
    /\ counts.writes < MaxWrites
    /\ \E op \in WriteOps, p \in Page :
          (op = "sync" => p = 1) /\ EnterWrite(t, op, p, counts.writes + 2)
    /\ counts' = [counts EXCEPT !.writes = @ + 1]
    /\ UNCHANGED mapVars

(* A cached write changes the overlay only. *)
WriteCached(t) ==
    /\ wr[t].step = "lease" /\ wr[t].op = "cached" /\ lease = NoThread
    /\ overlay' = [overlay EXCEPT ![wr[t].page] = wr[t].data]
    /\ Takes(wr[t].page, wr[t].data)
    /\ wr' = [wr EXCEPT ![t].step = "end"]
    /\ UNCHANGED <<disk, lease, gen, cacheVars, readVars, mapVars, counts>>

Dirty == {p \in Page : overlay[p] # Clean}

(* fsync and the direct write flush first, inside an epoch of their own. *)
TakeLease(t) ==
    /\ wr[t].step = "lease" /\ wr[t].op \in {"direct", "sync"} /\ lease = NoThread
    /\ IF Dirty # {}
       THEN /\ BeginMutation
            /\ overlay' = [p \in Page |-> Clean]
            /\ wr' = [wr EXCEPT ![t].step = "flush", ![t].batch = overlay]
       ELSE /\ wr' = [wr EXCEPT ![t].step = "write"]
            /\ UNCHANGED <<gen, cacheVars, overlay>>
    /\ lease' = t
    /\ UNCHANGED <<disk, truth, readVars, mapVars, seen, counts>>

(* write_dirty_writeback_pages, then restore_dirty_writeback if it failed. *)
WriteBatch(t) ==
    /\ wr[t].step = "flush" /\ lease = t
    /\ \/ /\ disk' = [p \in Page |-> IF wr[t].batch[p] = Clean THEN disk[p]
                                     ELSE wr[t].batch[p]]
          /\ wr' = [wr EXCEPT ![t].step = "write"]
          /\ UNCHANGED <<overlay, lease>>
       \/ /\ overlay' = [p \in Page |-> IF overlay[p] = Clean THEN wr[t].batch[p]
                                        ELSE overlay[p]]
          /\ wr' = [wr EXCEPT ![t] = IF @.op = "sync" THEN Idle ELSE [@ EXCEPT !.step = "end"]]
          /\ lease' = NoThread /\ UNCHANGED disk
    /\ EndMutation
    /\ UNCHANGED <<truth, cacheVars, readVars, mapVars, seen, counts>>

WriteBackend(t) ==
    /\ wr[t].step = "write" /\ lease = t
    /\ IF wr[t].op = "sync"
       THEN wr' = [wr EXCEPT ![t] = Idle] /\ UNCHANGED <<disk, truth, seen>>
       ELSE /\ disk' = [disk EXCEPT ![wr[t].page] = wr[t].data]
            /\ Takes(wr[t].page, wr[t].data)
            /\ wr' = [wr EXCEPT ![t].step = "end"]
    /\ lease' = NoThread
    /\ UNCHANGED <<overlay, gen, cacheVars, readVars, mapVars, counts>>

(* Drop of PageCacheMutationGuard: the last one completes the gate. *)
WriteEnd(t) ==
    /\ wr[t].step = "end"
    /\ EndMutation
    /\ wr' = [wr EXCEPT ![t] = Idle]
    /\ UNCHANGED <<disk, overlay, truth, lease, cacheVars, readVars, mapVars, seen, counts>>

(***************************************************************************)
(* read_regular_cached_at, for read(2) and for the probe and the fill of a *)
(* page fault.  `ok` FALSE is the result None.                             *)
(***************************************************************************)
ReadState == <<disk, overlay, truth, lease, gen, wr, mapVars>>
Reading(first, last) ==
    [step |-> "start", first |-> first, page |-> first, last |-> last, gen |-> 0,
     got |-> [p \in Page |-> Clean], sized |-> FALSE, gate |-> 0, load |-> 0]
Answer(t, ok) == [step |-> "done", ok |-> ok, got |-> rd[t].got,
                  first |-> rd[t].first, last |-> rd[t].page - 1]
Key(t) == <<rd[t].gen, rd[t].page>>

EnterRead(t) ==
    /\ rd[t].step = "idle" /\ counts.reads < MaxReads
    /\ \E first \in Page : rd' = [rd EXCEPT ![t] = Reading(first, PageCount)]
    /\ seen' = [seen EXCEPT ![t] = {truth}]
    /\ counts' = [counts EXCEPT !.reads = @ + 1]
    /\ UNCHANGED <<ReadState, cacheVars, loading, gatesDone, loads>>

ReadStart(t) ==
    /\ rd[t].step = "start"
    /\ rd' = [rd EXCEPT ![t] = IF Dirty # {} THEN Answer(t, FALSE)
                               ELSE [@ EXCEPT !.step = "gen"]]
    /\ UNCHANGED <<ReadState, cacheVars, loading, gatesDone, loads, seen, counts>>

ReadGeneration(t) ==
    /\ rd[t].step = "gen"
    /\ rd' = [rd EXCEPT ![t] = IF Stable THEN [@ EXCEPT !.step = "copy", !.gen = gen.value]
                               ELSE Answer(t, FALSE)]
    /\ UNCHANGED <<ReadState, cacheVars, loading, gatesDone, loads, seen, counts>>

CopyCached(t) ==
    /\ rd[t].step = "copy"
    /\ LET hit == IsCurrentKey(Key(t)) /\ Key(t) \in DOMAIN pages /\ ~pages[Key(t)].dirty
       IN  /\ rd' = [rd EXCEPT ![t] =
                 IF rd[t].page > rd[t].last THEN [@ EXCEPT !.step = "final"]
                 ELSE IF hit THEN [@ EXCEPT !.got[rd[t].page] = pages[Key(t)].data,
                                            !.page = @ + 1]
                 ELSE [@ EXCEPT !.step = IF rd[t].sized THEN "reserve" ELSE "size"]]
           /\ lru' = IF hit THEN Touch(lru, Key(t)) ELSE lru
    /\ UNCHANGED <<ReadState, pages, stalled, loading, gatesDone, loads, seen, counts>>

(* The size is loaded once, and the dirty overlay is looked at again. *)
ReadSize(t) ==
    /\ rd[t].step = "size"
    /\ rd' = [rd EXCEPT ![t] = IF Dirty # {} THEN Answer(t, FALSE)
                               ELSE [@ EXCEPT !.step = "reserve", !.sized = TRUE]]
    /\ UNCHANGED <<ReadState, cacheVars, loading, gatesDone, loads, seen, counts>>

(* reserve_read_cache_load: the demand page and its uncached suffix. *)
Suffix(t) ==
    LET free(p) == <<rd[t].gen, p>> \notin DOMAIN pages \cup DOMAIN loading
    IN  {p \in rd[t].page .. PageCount :
            p < rd[t].page + Readahead /\ \A q \in rd[t].page .. p : free(q)}

Reserve(t) ==
    /\ rd[t].step = "reserve"
    /\ IF ~IsCurrentKey(Key(t))
       THEN /\ rd' = [rd EXCEPT ![t] = Answer(t, FALSE)]
            /\ UNCHANGED <<loading, loads>>
       ELSE IF Key(t) \in DOMAIN pages
       THEN rd' = [rd EXCEPT ![t].step = "copy"] /\ UNCHANGED <<loading, loads>>
       ELSE IF Key(t) \in DOMAIN loading
       THEN /\ rd' = [rd EXCEPT ![t].step = "wait", ![t].gate = loading[Key(t)]]
            /\ UNCHANGED <<loading, loads>>
       ELSE /\ rd' = [rd EXCEPT ![t].step = "load", ![t].gate = loads + 1]
            /\ loading' = [k \in DOMAIN loading \cup {<<rd[t].gen, p>> : p \in Suffix(t)} |->
                              IF k \in DOMAIN loading THEN loading[k] ELSE loads + 1]
            /\ loads' = loads + 1
    /\ UNCHANGED <<ReadState, cacheVars, gatesDone, seen, counts>>

(* PageCacheWaitGate::wait returns once the gate is complete. *)
LoadWait(t) ==
    /\ rd[t].step = "wait" /\ rd[t].gate \in gatesDone
    /\ rd' = [rd EXCEPT ![t].step = "copy"]
    /\ UNCHANGED <<ReadState, cacheVars, loading, gatesDone, loads, seen, counts>>

(* release_read_cache_load and complete: exactly the keys of this gate. *)
Release(t) ==
    /\ loading' = Restrict(loading, {k \in DOMAIN loading : loading[k] # rd[t].gate})
    /\ gatesDone' = gatesDone \cup {rd[t].gate}

(* The backend read holds the mapping read lease; an error reads nothing. *)
LoadBackend(t) ==
    /\ rd[t].step = "load" /\ lease = NoThread
    /\ \/ /\ rd' = [rd EXCEPT ![t].step = "publish", ![t].load = disk]
          /\ UNCHANGED <<loading, gatesDone>>
       \/ /\ t \in IoErrors
          /\ Release(t)
          /\ rd' = [rd EXCEPT ![t].step = "final"]
    /\ UNCHANGED <<ReadState, cacheVars, loads, seen, counts>>

Loaded(t) ==
    [i \in 1 .. Cardinality({k \in DOMAIN loading : loading[k] = rd[t].gate}) |->
        [key |-> <<rd[t].gen, rd[t].page + i - 1>>, data |-> rd[t].load[rd[t].page + i - 1]]]

PublishLoad(t) ==
    /\ rd[t].step = "publish"
    /\ Release(t)
    /\ IF Stable /\ gen.value = rd[t].gen
       THEN /\ Become(FoldLeft(InsertRead, Cache, Loaded(t)))
            /\ rd' = [rd EXCEPT ![t].step = "copy", ![t].page = @ + 1,
                                ![t].got[rd[t].page] = rd[t].load[rd[t].page]]
       ELSE rd' = [rd EXCEPT ![t] = Answer(t, FALSE)] /\ UNCHANGED cacheVars
    /\ UNCHANGED <<ReadState, loads, seen, counts>>

ReadFinal(t) ==
    /\ rd[t].step = "final"
    /\ rd' = [rd EXCEPT ![t] = Answer(t, Stable /\ gen.value = rd[t].gen)]
    /\ UNCHANGED <<ReadState, cacheVars, loading, gatesDone, loads, seen, counts>>

(* None sends the caller to the backend path of DirtyFile. *)
ReadReturn(t) ==
    /\ rd[t].step = "done"
    /\ rd' = [rd EXCEPT ![t] = Idle]
    /\ UNCHANGED <<ReadState, cacheVars, loading, gatesDone, loads, seen, counts>>

ReadNext(t) ==
    \/ ReadStart(t) \/ ReadGeneration(t) \/ CopyCached(t) \/ ReadSize(t) \/ Reserve(t)
    \/ LoadWait(t) \/ LoadBackend(t) \/ PublishLoad(t) \/ ReadFinal(t)

(***************************************************************************)
(* Page faults: prepare_mmap_page_fault, MmapPageCacheFault::resolve_ppn,  *)
(* install_mmap_page_cache_fault_page, retried by resolve_user_page_fault. *)
(***************************************************************************)
FaultState == <<disk, overlay, truth, lease, gen, loading, gatesDone, loads, wr,
                flushes, unsaved, seen>>
Retried(f) ==
    IF Stable THEN [f EXCEPT !.step = "prepare"]
    ELSE [f EXCEPT !.step = "genwait", !.seq = gen.completed]
SetFault(m, f) == fl' = [fl EXCEPT ![m] = f]
Shared(m) == MapKind[m] = "shared"

EnterFault(m) ==
    /\ fl[m].step = "idle" /\ m \in vmas /\ counts.faults < MaxFaults
    /\ \E p \in Page, w \in BOOLEAN :
          /\ w => Shared(m)
          /\ mapped[m][p].key = NoKey \/ (w /\ ~mapped[m][p].w)
          /\ SetFault(m, [step |-> "prepare", page |-> p, write |-> w, key |-> NoKey,
                          gen |-> 0, data |-> Clean, seq |-> 0])
    /\ counts' = [counts EXCEPT !.faults = @ + 1]
    /\ UNCHANGED <<FaultState, cacheVars, rd, vmas, mapped>>

(* A present page only needs the dirty mark of the first write; an absent   *)
(* one is looked up by its key in the current generation.                   *)
FaultPrepare(m) ==
    /\ fl[m].step = "prepare"
    /\ LET p == fl[m].page
           here == mapped[m][p]
       IN  IF m \notin vmas \/ here.key = Own
           THEN SetFault(m, Idle) /\ UNCHANGED <<cacheVars, mapped>>
           ELSE IF here.key # NoKey
           THEN /\ SetFault(m, Idle)
                /\ IF fl[m].write /\ here.key \in DOMAIN pages
                   THEN /\ pages' = [pages EXCEPT ![here.key].dirty = TRUE]
                        /\ mapped' = [mapped EXCEPT ![m][p].w = TRUE]
                   ELSE UNCHANGED <<pages, mapped>>
                /\ UNCHANGED <<lru, stalled>>
           ELSE /\ SetFault(m, IF ~Stable THEN Retried(fl[m])
                               ELSE [fl[m] EXCEPT !.step = "resolve", !.gen = gen.value,
                                        !.key = <<IF Shared(m) THEN SharedGen
                                                  ELSE gen.value, p>>])
                /\ UNCHANGED <<cacheVars, mapped>>
    /\ UNCHANGED <<FaultState, rd, vmas, counts>>

(* FaultRetry::wait: the gate of the epoch that was running. *)
GenerationWait(m) ==
    /\ fl[m].step = "genwait" /\ gen.completed > fl[m].seq
    /\ SetFault(m, [fl[m] EXCEPT !.step = "prepare"])
    /\ UNCHANGED <<FaultState, cacheVars, rd, vmas, mapped, counts>>

Usable(m) == IsUsable(fl[m].key, fl[m].gen)

(* get_and_inc_ref_for_mmap, before and after populate_clean_page_cache_at. *)
Lookup(m, miss) ==
    IF ~Usable(m) THEN SetFault(m, Retried(fl[m])) /\ UNCHANGED pages
    ELSE IF fl[m].key \in DOMAIN pages
    THEN /\ pages' = IncRef(pages, fl[m].key)
         /\ SetFault(m, [fl[m] EXCEPT !.step = "install"])
    ELSE SetFault(m, [fl[m] EXCEPT !.step = miss]) /\ UNCHANGED pages

FaultResolve(m) ==
    /\ fl[m].step = "resolve"
    /\ Lookup(m, "probe")
    /\ rd' = [rd EXCEPT ![m] = IF fl'[m].step = "probe"
                               THEN Reading(fl[m].page, fl[m].page) ELSE Idle]
    /\ UNCHANGED <<FaultState, lru, stalled, vmas, mapped, counts>>

FaultPopulated(m) ==
    /\ fl[m].step = "probe" /\ rd[m].step = "done"
    /\ IF rd[m].ok /\ rd[m].last >= rd[m].first THEN Lookup(m, "fill")
       ELSE SetFault(m, [fl[m] EXCEPT !.step = "fill"]) /\ UNCHANGED pages
    /\ rd' = [rd EXCEPT ![m] = Idle]
    /\ UNCHANGED <<FaultState, lru, stalled, vmas, mapped, counts>>

(* read_at: a wholly dirty page, else the cached read, else the backend     *)
(* with the overlay looked up after the lease is gone.                      *)
FaultFill(m) ==
    /\ fl[m].step = "fill"
    /\ \/ /\ overlay[fl[m].page] # Clean
          /\ SetFault(m, [fl[m] EXCEPT !.step = "publish", !.data = overlay[fl[m].page]])
          /\ UNCHANGED rd
       \/ /\ SetFault(m, [fl[m] EXCEPT !.step = "cached"])
          /\ rd' = [rd EXCEPT ![m] = Reading(fl[m].page, fl[m].page)]
    /\ UNCHANGED <<FaultState, cacheVars, vmas, mapped, counts>>

FaultFilled(m) ==
    /\ fl[m].step = "cached" /\ rd[m].step = "done"
    /\ SetFault(m, IF rd[m].ok
                   THEN [fl[m] EXCEPT !.step = "publish", !.data = rd[m].got[fl[m].page]]
                   ELSE [fl[m] EXCEPT !.step = "backend"])
    /\ rd' = [rd EXCEPT ![m] = Idle]
    /\ UNCHANGED <<FaultState, cacheVars, vmas, mapped, counts>>

FaultBackend(m) ==
    /\ fl[m].step = "backend" /\ lease = NoThread
    /\ SetFault(m, [fl[m] EXCEPT !.step = "overlay", !.data = disk[fl[m].page]])
    /\ UNCHANGED <<FaultState, cacheVars, rd, vmas, mapped, counts>>

FaultOverlay(m) ==
    /\ fl[m].step = "overlay"
    /\ SetFault(m, [fl[m] EXCEPT !.step = "publish",
                       !.data = IF overlay[fl[m].page] = Clean THEN @
                                ELSE overlay[fl[m].page]])
    /\ UNCHANGED <<FaultState, cacheVars, rd, vmas, mapped, counts>>

(* insert_loaded_page_and_inc_ref_for_mmap ignores the soft limit. *)
FaultPublish(m) ==
    /\ fl[m].step = "publish"
    /\ LET key == fl[m].key
       IN  IF ~Usable(m) THEN SetFault(m, Retried(fl[m])) /\ UNCHANGED cacheVars
           ELSE /\ SetFault(m, [fl[m] EXCEPT !.step = "install"])
                /\ Become(IF key \in DOMAIN pages
                          THEN [Cache EXCEPT !.pages = IncRef(pages, key)]
                          ELSE Insert(Trim(Cache, SoftMax - 1), key, NewPage(fl[m].data, 1)))
    /\ UNCHANGED <<FaultState, rd, vmas, mapped, counts>>

(* The pages that follow and are cached already are mapped as well. *)
Around(m) ==
    {q \in Page : /\ q > fl[m].page
                  /\ \A k \in fl[m].page + 1 .. q :
                        /\ mapped[m][k].key = NoKey
                        /\ <<fl[m].key[1], k>> \in DOMAIN pages}

MutFaultInstall(m) ==
    /\ fl[m].step = "install"
    /\ LET key == fl[m].key
           p == fl[m].page
       IN  IF m \in vmas /\ Usable(m)
           THEN /\ mapped' = [mapped EXCEPT ![m][p] = [key |-> key, w |-> FALSE]]
                /\ SetFault(m, Idle)
                /\ UNCHANGED cacheVars
           ELSE /\ SetFault(m, Idle) /\ UNCHANGED <<mapped, cacheVars>>
    /\ UNCHANGED <<FaultState, rd, vmas, counts>>
FaultInstall(m) ==
    /\ fl[m].step = "install"
    /\ LET key == fl[m].key
           p == fl[m].page
           kept == m \in vmas /\ mapped[m][p].key = NoKey
       IN  IF kept /\ Usable(m)
           THEN /\ mapped' = [mapped EXCEPT ![m] = [q \in Page |->
                        IF q = p \/ q \in Around(m)
                        THEN [key |-> <<key[1], q>>, w |-> FALSE] ELSE mapped[m][q]]]
                /\ pages' = [k \in DOMAIN pages |->
                        IF k[1] = key[1] /\ k[2] \in Around(m)
                        THEN [pages[k] EXCEPT !.ref = @ + 1] ELSE pages[k]]
                /\ SetFault(m, IF fl[m].write THEN [fl[m] EXCEPT !.step = "prepare"] ELSE Idle)
                /\ UNCHANGED <<lru, stalled>>
           ELSE /\ Become(DecRef(Cache, key))
                /\ SetFault(m, IF kept THEN Retried(fl[m])
                               ELSE IF m \in vmas /\ fl[m].write
                               THEN [fl[m] EXCEPT !.step = "prepare"] ELSE Idle)
                /\ UNCHANGED mapped
    /\ UNCHANGED <<FaultState, rd, vmas, counts>>

FaultNext(m) ==
    \/ FaultPrepare(m) \/ GenerationWait(m) \/ FaultResolve(m) \/ FaultPopulated(m)
    \/ FaultFill(m) \/ FaultFilled(m) \/ FaultBackend(m) \/ FaultOverlay(m)
    \/ FaultPublish(m) \/ FaultInstall(m)

(***************************************************************************)
(* Calls on a mapping, each under the process memory lock.                 *)
(***************************************************************************)
CallState == <<disk, overlay, truth, lease, gen, loading, gatesDone, loads, rd, fl, seen>>
Cached(m) == {p \in Page : mapped[m][p].key \notin {NoKey, Own}}
KeysOf(m) == SetToSeq({mapped[m][p].key : p \in Cached(m)})

(* A store through a writable leaf reaches the shared frame at once. *)
Store(m) ==
    /\ "store" \in MapCalls /\ counts.writes < MaxWrites
    /\ \E p \in Page :
          /\ mapped[m][p].w
          /\ pages' = [pages EXCEPT ![mapped[m][p].key].data = counts.writes + 2]
          /\ unsaved' = unsaved \cup {p}
    /\ counts' = [counts EXCEPT !.writes = @ + 1]
    /\ UNCHANGED <<CallState, lru, stalled, vmas, mapped, flushes, wr>>

(* collect_mmap_flushes: take_dirty_page_data of every mapped page. *)
Taken(m) == {p \in Cached(m) : Shared(m) /\ pages[mapped[m][p].key].dirty}
Collect(m) ==
    /\ flushes' = [flushes EXCEPT ![m] = SetToSeq(
          {[page |-> p, data |-> pages[mapped[m][p].key].data] : p \in Taken(m)})]
    /\ unsaved' = unsaved \ Taken(m)
CleanCache(m) ==
    LET cleaned == {mapped[m][p].key : p \in Taken(m)}
    IN  [Cache EXCEPT !.pages = [k \in DOMAIN pages |->
            IF k \in cleaned THEN [pages[k] EXCEPT !.dirty = FALSE] ELSE pages[k]]]

Msync(m) ==
    /\ "msync" \in MapCalls /\ m \in vmas /\ Taken(m) # {} /\ flushes[m] = <<>>
    /\ Collect(m)
    /\ Become(CleanCache(m))
    /\ UNCHANGED <<CallState, vmas, mapped, wr, counts>>

MutUnmap(m) ==
    /\ "unmap" \in MapCalls /\ m \in vmas /\ flushes[m] = <<>>
    /\ UNCHANGED <<flushes, unsaved>>
    /\ Become(DecRefs(CleanCache(m), KeysOf(m)))
    /\ mapped' = [mapped EXCEPT ![m] = Unmapped]
    /\ vmas' = vmas \ {m}
    /\ UNCHANGED <<CallState, wr, counts>>
Unmap(m) ==
    /\ "unmap" \in MapCalls /\ m \in vmas /\ flushes[m] = <<>>
    /\ Collect(m)
    /\ Become(DecRefs(CleanCache(m), KeysOf(m)))
    /\ mapped' = [mapped EXCEPT ![m] = Unmapped]
    /\ vmas' = vmas \ {m}
    /\ UNCHANGED <<CallState, wr, counts>>

MapAgain(m) ==
    /\ "unmap" \in MapCalls /\ m \in Born \ vmas /\ flushes[m] = <<>>
    /\ counts.faults < MaxFaults
    /\ vmas' = vmas \cup {m}
    /\ counts' = [counts EXCEPT !.faults = @ + 1]
    /\ UNCHANGED <<CallState, cacheVars, mapped, flushes, unsaved, wr>>

(* mprotect of a private mapping: materialize_page_cache_pages. *)
Protect(m) ==
    /\ "protect" \in MapCalls /\ ~Shared(m) /\ Cached(m) # {}
    /\ Become(DecRefs(Cache, KeysOf(m)))
    /\ mapped' = [mapped EXCEPT ![m] = [p \in Page |->
          IF p \in Cached(m) THEN [key |-> Own, w |-> TRUE] ELSE mapped[m][p]]]
    /\ UNCHANGED <<CallState, vmas, flushes, unsaved, wr, counts>>

(* fork: pin_existing_exact for every page the parent maps. *)
Fork(m, c) ==
    /\ "fork" \in MapCalls /\ m \in vmas /\ c \notin vmas \cup Born
    /\ MapKind[c] = MapKind[m] /\ flushes[c] = <<>>
    /\ pages' = [k \in DOMAIN pages |->
          IF \E p \in Page : mapped[m][p].key = k
          THEN [pages[k] EXCEPT !.ref = @ + 1] ELSE pages[k]]
    /\ mapped' = [mapped EXCEPT ![c] = [p \in Page |->
          [mapped[m][p] EXCEPT !.w = mapped[m][p].key = Own]]]
    /\ vmas' = vmas \cup {c}
    /\ UNCHANGED <<CallState, lru, stalled, flushes, unsaved, wr, counts>>

(* write_back_mmap_flushes, after the memory lock is released. *)
WriteFlush(m) ==
    /\ flushes[m] # <<>>
    /\ EnterWrite(m, "cached", flushes[m][1].page, flushes[m][1].data)
    /\ flushes' = [flushes EXCEPT ![m] = Tail(@)]
    /\ UNCHANGED <<vmas, mapped, fl, unsaved, counts>>

PcInit ==
    /\ disk = [p \in Page |-> 1] /\ overlay = [p \in Page |-> Clean] /\ truth = disk
    /\ lease = NoThread /\ gen = [value |-> 0, active |-> 0, completed |-> 0]
    /\ pages = <<>> /\ lru = <<>> /\ stalled = FALSE
    /\ loading = <<>> /\ gatesDone = {} /\ loads = 0
    /\ rd = [t \in Reader \cup Mapper |-> Idle]
    /\ vmas = Born /\ mapped = [m \in Mapper |-> Unmapped] /\ fl = [m \in Mapper |-> Idle]
    /\ wr = [t \in Writer \cup Mapper |-> Idle]
    /\ flushes = [m \in Mapper |-> <<>>] /\ unsaved = {}
    /\ seen = [t \in Reader |-> {}]
    /\ counts = [writes |-> 0, reads |-> 0, faults |-> 0]

WriteStep(t) ==
    WriteCached(t) \/ TakeLease(t) \/ WriteBatch(t) \/ WriteBackend(t) \/ WriteEnd(t)
CallNext(m) ==
    \/ Store(m) \/ Msync(m) \/ Unmap(m) \/ MapAgain(m) \/ Protect(m) \/ WriteFlush(m)
    \/ \E c \in Mapper : Fork(m, c)
PcNext ==
    \/ \E t \in Writer : WriteCall(t)
    \/ \E t \in Writer \cup Mapper : WriteStep(t)
    \/ \E t \in Reader : EnterRead(t) \/ ReadReturn(t)
    \/ \E t \in Reader \cup Mapper : ReadNext(t)
    \/ \E m \in Mapper : EnterFault(m) \/ FaultNext(m) \/ CallNext(m)

PcSpec == PcInit /\ [][PcNext]_pcVars

(* The kernel threads inside a call keep running. *)
PcFairness ==
    /\ \A t \in Writer \cup Mapper : WF_pcVars(WriteStep(t))
    /\ \A t \in Reader \cup Mapper : WF_pcVars(ReadNext(t))
    /\ \A m \in Mapper : WF_pcVars(FaultNext(m))

(* A page cached under the current stable generation holds the last        *)
(* completed write: no load, fault or flush that raced a writer            *)
(* (begin_page_cache_mutation) leaves an older version behind.             *)
CacheCurrent ==
    Stable => \A k \in DOMAIN pages : k[1] = gen.value => pages[k].data = truth[k[2]]

(* ref_count is exactly the page-table entries and the in-flight faults     *)
(* that hold the page, so no page leaves the cache while it is mapped.      *)
RefsExact ==
    /\ \A k \in DOMAIN pages : pages[k].ref =
          Cardinality({mp \in Mapper \X Page : mapped[mp[1]][mp[2]].key = k})
          + Cardinality({m \in Mapper : fl[m].step = "install" /\ fl[m].key = k})
    /\ \A m \in Mapper : {mapped[m][p].key : p \in Cached(m)} \subseteq DOMAIN pages

(* A read served by read_regular_cached_at returns the contents the file    *)
(* had at one instant of the call, never a mix of two epochs.               *)
ReadsOneEpoch ==
    \A t \in Reader : rd[t].step = "done" /\ rd[t].ok =>
        \E v \in seen[t] : \A p \in rd[t].first .. rd[t].last : rd[t].got[p] = v[p]

(* reclaim_stalled is only set while every page is pinned or dirty, so the  *)
(* shard never stops trimming pages it could reclaim.                       *)
StallMeansPinned == stalled => Evictable(pages) = {}

(* A store through a MAP_SHARED mapping is in a flush record by the time    *)
(* the page leaves the cache.                                               *)
SharedStoresKept ==
    \A p \in unsaved : <<SharedGen, p>> \in DOMAIN pages

(* Whoever waits for a page load or for the end of a mutation epoch is let  *)
(* go: the gate is completed on every path of its owner.                    *)
GatesOpen ==
    /\ \A t \in Reader \cup Mapper : rd[t].step = "wait" ~> rd[t].step # "wait"
    /\ \A m \in Mapper : fl[m].step = "genwait" ~> fl[m].step # "genwait"
=============================================================================
