-------------------------------- MODULE Vma --------------------------------
(***************************************************************************)
(* User address spaces: os/src/mm/user_space.rs, mm/area.rs,               *)
(* mm/memory_set.rs, the mapping calls of syscall/memory.rs and the fault  *)
(* resolver mm/user_fault.rs.                                              *)
(*                                                                         *)
(* An area is a VMA with the frames it owns (`data_frames`); `pte` is the  *)
(* leaf page table.  Every action is one critical section of the process   *)
(* lock.  A fault on an mmap area takes two of them: the first captures    *)
(* the area and leaves the lock to build a frame, the second looks the     *)
(* area up again and installs the frame only if it is still the captured   *)
(* one.  Pages, not bytes, are the unit of every length and offset.        *)
(* Mappings that go through the page cache are in PageCache, SysV shared   *)
(* memory in SysvShm, the invalidation of stale translations in Tlb.       *)
(***************************************************************************)
EXTENDS Naturals, FiniteSets, Functions

CONSTANTS
    Space,      \* processes; fork fills a free one
    Thread,     \* faulting threads
    SpaceOf,    \* the process of each thread
    Frame,      \* physical frames, numbered
    HeapTop,    \* brk_limit; the heap starts at page 0
    MmapLo, MmapHi,  \* USER_MMAP_BASE, USER_MMAP_LIMIT
    FixedAt,    \* start pages tried by MAP_FIXED, munmap, mprotect, madvise
    Lens,       \* lengths tried by the calls
    FileLen,    \* pages of the mapped file
    GuardGap,   \* STACK_GUARD_GAP_PAGES
    Kinds,      \* the mappings mmap creates: [shared, file, grow] records
    Perms,      \* subset of {"none", "r", "rw"}
    Calls,      \* the calls tried
    MaxCalls,   \* bound on the number of mapping calls
    Stored      \* the values a program stores

VARIABLES
    areas,   \* per process, its set of areas
    pte,     \* per process and page, the leaf entry or NoPte
    mem,     \* the contents of each frame
    fault,   \* per thread, the fault being resolved
    brk,     \* brk_mapped_end
    hint,    \* mmap_next
    live,    \* the processes that exist
    calls,   \* mapping calls made so far
    view     \* what each process must find at each mapped page

vmaVars == <<areas, pte, mem, fault, brk, hint, live, calls, view>>

Page == 0 .. MmapHi - 1
NoPte == [frame |-> 0, leaf |-> FALSE, w |-> FALSE, cow |-> FALSE]
NoFault == [step |-> "none"]
Zero == 0
FileData(k) == 10 + k

Pages(a) == a.lo .. a.hi - 1
AreasAt(p, v) == {a \in areas[p] : v \in Pages(a)}
Overlapping(S, lo, hi) == {a \in S : a.lo < hi /\ lo < a.hi}
Inside(S, lo, hi) == {a \in S : lo <= a.lo /\ a.hi <= hi}
RangeMapped(p, lo, hi) == \A v \in lo .. hi - 1 : AreasAt(p, v) # {}

(* FRAME_REF_COUNTS: one reference per owning area. *)
Owners(f) == {<<p, v>> \in Space \X Page :
                \E a \in areas[p] : v \in DOMAIN a.frames /\ a.frames[v] = f}
Building == {fault[t].frame : t \in {u \in Thread : fault[u].step = "install"}}
FreeFrames == {f \in Frame : Owners(f) = {} /\ f \notin Building}
Lowest(S) == CHOOSE x \in S : \A y \in S : x <= y
(* frame_alloc: the frames are alike, so the lowest free one stands for any. *)
FrameAlloc == IF FreeFrames = {} THEN {} ELSE {Lowest(FreeFrames)}
FrameAllocFor(pages) ==
    {g \in [pages -> FreeFrames] :
        /\ \A v, u \in pages : v < u => g[v] < g[u]
        /\ \A v \in pages, f \in FreeFrames : f < g[v] => \E u \in pages : g[u] = f}

(* PTEFlags::from_bits_truncate(map_perm) for a frame. *)
PteFor(f, perm) == IF perm = "none" THEN NoPte
                   ELSE [frame |-> f, leaf |-> TRUE, w |-> perm = "rw", cow |-> FALSE]
Cow(e) == [e EXCEPT !.w = FALSE, !.cow = TRUE]
Allowed(acc, perm) == perm = "rw" \/ (acc = "read" /\ perm = "r")

VmaInit ==
    /\ areas = [p \in Space |-> {}]
    /\ pte = [p \in Space |-> [v \in Page |-> NoPte]]
    /\ mem = [f \in Frame |-> Zero]
    /\ fault = [t \in Thread |-> NoFault]
    /\ brk = [p \in Space |-> 0]
    /\ hint = [p \in Space |-> MmapLo]
    /\ live = {CHOOSE p \in Space : TRUE}
    /\ calls = 0
    /\ view = [p \in Space |-> [v \in Page |-> Zero]]

-----------------------------------------------------------------------------
(* Areas *)

MutSplitOff(a, at) ==
    {[a EXCEPT !.hi = at, !.frames = Restrict(@, {v \in DOMAIN @ : v < at})],
     [a EXCEPT !.lo = at, !.frames = Restrict(@, {v \in DOMAIN @ : v >= at})]}
SplitOff(a, at) ==
    {[a EXCEPT !.hi = at, !.frames = Restrict(@, {v \in DOMAIN @ : v < at})],
     [a EXCEPT !.lo = at, !.off = @ + (at - a.lo),
               !.frames = Restrict(@, {v \in DOMAIN @ : v >= at})]}

SplitAreaAt(S, at) ==
    UNION {IF a.lo < at /\ at < a.hi THEN SplitOff(a, at) ELSE {a} : a \in S}

Split(S, lo, hi) == SplitAreaAt(SplitAreaAt(S, lo), hi)

(* unmap_resident_deferred: the entries of every owned frame are cleared. *)
MutUnmapResident(e, gone) == e
UnmapResident(e, gone) ==
    [v \in Page |-> IF \E a \in gone : v \in DOMAIN a.frames THEN NoPte ELSE e[v]]

(* find_mmap_hole: the lowest gap of n pages that starts in lo .. limit. *)
Holes(p, lo, limit, n) ==
    {c \in lo .. limit : c + n <= limit /\ Overlapping(areas[p], c, c + n) = {}}
AllocMmapRange(p, n) ==
    LET up == Holes(p, hint[p], MmapHi, n)
        down == Holes(p, MmapLo, hint[p], n)
    IN  IF up # {} THEN {Lowest(up)} ELSE IF down # {} THEN {Lowest(down)} ELSE {}
NextHint(end) == IF end >= MmapHi THEN MmapLo ELSE end

UsedIds == {a.id : a \in UNION {areas[p] : p \in Space}}
NewArea(lo, hi, perm, k) ==
    [lo |-> lo, hi |-> hi, perm |-> perm, mmap |-> TRUE, shared |-> k.shared,
     grow |-> k.grow, file |-> k.file, off |-> 0, frames |-> << >>,
     id |-> CHOOSE i \in 1 .. Cardinality(UsedIds) + 1 : i \notin UsedIds]
HeapArea(lo, hi) ==
    [lo |-> lo, hi |-> hi, perm |-> "rw", mmap |-> FALSE, shared |-> FALSE,
     grow |-> FALSE, file |-> FALSE, off |-> 0, frames |-> << >>, id |-> 0]

(* What a fresh page of an area must show. *)
Fresh(a, v) == IF a.file THEN FileData(a.off + (v - a.lo)) ELSE Zero

Call(p, c) ==
    /\ c \in Calls
    /\ p \in live
    /\ calls < MaxCalls
    /\ calls' = calls + 1

Mmap(p) ==
    \E n \in Lens, perm \in Perms, k \in Kinds : \E lo \in AllocMmapRange(p, n) :
        LET a == NewArea(lo, lo + n, perm, k)
        IN  /\ Call(p, "mmap")
            /\ areas' = [areas EXCEPT ![p] = @ \cup {a}]
            /\ hint' = [hint EXCEPT ![p] = NextHint(lo + n)]
            /\ view' = [view EXCEPT ![p] =
                          [v \in Page |-> IF v \in Pages(a) THEN Fresh(a, v) ELSE @[v]]]
            /\ UNCHANGED <<pte, mem, fault, brk, live>>

(* MAP_FIXED: whatever overlaps the range, mmap area or not, goes first. *)
MmapFixed(p) ==
    \E lo \in FixedAt, n \in Lens, perm \in Perms, k \in Kinds :
        LET cut == Split(areas[p], lo, lo + n)
            gone == Overlapping(cut, lo, lo + n)
            a == NewArea(lo, lo + n, perm, k)
        IN  /\ Call(p, "fixed")
            /\ lo + n <= MmapHi
            /\ areas' = [areas EXCEPT ![p] = (cut \ gone) \cup {a}]
            /\ pte' = [pte EXCEPT ![p] = UnmapResident(@, gone)]
            /\ view' = [view EXCEPT ![p] =
                          [v \in Page |-> IF v \in Pages(a) THEN Fresh(a, v) ELSE @[v]]]
            /\ UNCHANGED <<mem, fault, brk, hint, live>>

(* munmap removes the mmap areas inside the range and leaves the rest. *)
MunmapArea(p, lo, hi) ==
    LET cut == Split(areas[p], lo, hi)
        gone == {a \in Inside(cut, lo, hi) : a.mmap}
    IN  /\ areas' = [areas EXCEPT ![p] = cut \ gone]
        /\ pte' = [pte EXCEPT ![p] = UnmapResident(@, gone)]

Munmap(p) ==
    \E lo \in FixedAt, n \in Lens :
        /\ Call(p, "munmap")
        /\ lo + n <= MmapHi
        /\ MunmapArea(p, lo, lo + n)
        /\ UNCHANGED <<mem, fault, brk, hint, live, view>>

(* remap_resident_frame: a copy-on-write entry stays one whatever the new
   permission is; an entry cleared by PROT_NONE is made again. *)
RemapFrame(e, f, perm) ==
    IF ~e.cow THEN PteFor(f, perm)
    ELSE [frame |-> f, leaf |-> perm # "none", w |-> FALSE, cow |-> TRUE]

\* remap_permission of the areas in `hit'.
Remapped(entries, hit, perm) ==
    [v \in Page |->
        IF \E a \in hit : v \in DOMAIN a.frames
        THEN LET a == CHOOSE b \in hit : v \in DOMAIN b.frames
             IN  RemapFrame(entries[v], a.frames[v], perm)
        ELSE entries[v]]

Mprotect(p) ==
    \E lo \in FixedAt, n \in Lens, perm \in Perms :
        LET cut == Split(areas[p], lo, lo + n)
            hit == Inside(cut, lo, lo + n)
        IN  /\ Call(p, "protect")
            /\ lo + n <= MmapHi
            /\ RangeMapped(p, lo, lo + n)
            /\ areas' = [areas EXCEPT ![p] =
                           (cut \ hit) \cup {[a EXCEPT !.perm = perm] : a \in hit}]
            /\ pte' = [pte EXCEPT ![p] = Remapped(@, hit, perm)]
            /\ UNCHANGED <<mem, fault, brk, hint, live, view>>

(* mremap: a shrink is a munmap of the tail; growth happens in place only.
   The two splits stay even if the range turns out to span two areas. *)
GrowthFree(p, lo, hi) == Overlapping(areas[p], lo, hi) = {}

Mremap(p) ==
    \E lo \in FixedAt, old \in Lens, new \in Lens :
        /\ Call(p, "remap")
        /\ lo + old <= MmapHi /\ lo + new <= MmapHi
        /\ RangeMapped(p, lo, lo + old)
        /\ \/ /\ new < old
              /\ MunmapArea(p, lo + new, lo + old)
              /\ UNCHANGED view
           \/ /\ new > old
              /\ GrowthFree(p, lo + old, lo + new)
              /\ LET cut == Split(areas[p], lo, lo + old)
                     hit == {a \in cut : a.lo = lo /\ a.hi = lo + old}
                     grown == {[a EXCEPT !.hi = lo + new] : a \in hit}
                 IN  /\ areas' = [areas EXCEPT ![p] = (cut \ hit) \cup grown]
                     /\ view' = [view EXCEPT ![p] =
                          [v \in Page |-> IF v \in lo + old .. lo + new - 1 /\ hit # {}
                                          THEN Fresh(CHOOSE a \in grown : TRUE, v)
                                          ELSE @[v]]]
              /\ UNCHANGED pte
        /\ UNCHANGED <<mem, fault, brk, hint, live>>

\* discard_mmap_resident_range
Discard(a, range) == [a EXCEPT !.frames = Restrict(@, DOMAIN @ \ range)]

(* MADV_DONTNEED gives up the frames of every mmap area, a shared one's too. *)
Madvise(p) ==
    \E lo \in FixedAt, n \in Lens :
        LET range == lo .. lo + n - 1
            hit == {a \in Overlapping(areas[p], lo, lo + n) : a.mmap}
            dropped == {v \in range : \E a \in hit : v \in DOMAIN a.frames}
        IN  /\ Call(p, "advise")
            /\ lo + n <= MmapHi
            /\ RangeMapped(p, lo, lo + n)
            /\ areas' = [areas EXCEPT ![p] = (@ \ hit) \cup {Discard(a, range) : a \in hit}]
            /\ pte' = [pte EXCEPT ![p] = [v \in Page |-> IF v \in dropped THEN NoPte ELSE @[v]]]
            /\ view' = [view EXCEPT ![p] =
                 [v \in Page |->
                    IF \E a \in hit : v \in Pages(a) /\ v \in range /\ ~a.shared
                    THEN Fresh(CHOOSE a \in hit : v \in Pages(a), v) ELSE @[v]]]
            /\ UNCHANGED <<mem, fault, brk, hint, live>>

(* set_program_break: growth extends the area that ends at the old break, or
   starts a new one; a shrink removes the heap areas above the new break. *)
Brk(p) ==
    \E end \in 0 .. HeapTop :
        LET ext == {a \in areas[p] : a.hi = brk[p]}
            cut == Split(areas[p], end, brk[p])
            gone == {a \in Inside(cut, end, brk[p]) : ~a.mmap}
            pick == CHOOSE a \in ext : TRUE
        IN  /\ Call(p, "brk")
            /\ end # brk[p]
            /\ brk' = [brk EXCEPT ![p] = end]
            /\ areas' = [areas EXCEPT ![p] =
                 IF end < brk[p] THEN cut \ gone
                 ELSE IF ext = {} THEN @ \cup {HeapArea(brk[p], end)}
                 ELSE (@ \ {pick}) \cup {[pick EXCEPT !.hi = end]}]
            /\ pte' = [pte EXCEPT ![p] = IF end < brk[p] THEN UnmapResident(@, gone) ELSE @]
            /\ view' = [view EXCEPT ![p] =
                 [v \in Page |-> IF end > brk[p] /\ v \in brk[p] .. end - 1 THEN Zero ELSE @[v]]]
            /\ UNCHANGED <<mem, fault, hint, live>>

-----------------------------------------------------------------------------
(* Fork and exit *)

(* Lazy pages of a shared anonymous area get their frames before the fork. *)
Lazy(p) == {v \in Page : \E a \in AreasAt(p, v) : a.mmap /\ a.shared /\ v \notin DOMAIN a.frames}
(* A private page without a usable leaf is copied, any other one is shared. *)
Hidden(p) == {v \in Page : \E a \in AreasAt(p, v) : ~a.shared /\ v \in DOMAIN a.frames
                                                   /\ ~pte[p][v].leaf}
Leaves(p) == {v \in Page : \E a \in AreasAt(p, v) : ~a.shared /\ v \in DOMAIN a.frames
                                                   /\ pte[p][v].leaf}

Resident(a, new) ==
    [a EXCEPT !.frames = [v \in DOMAIN @ \cup (DOMAIN new \cap Pages(a)) |->
                            IF v \in DOMAIN new THEN new[v] ELSE @[v]]]

ParentPte(e, v, leaves) == IF v \in leaves THEN Cow(e) ELSE e

Fork(p, c) ==
    /\ Call(p, "fork")
    /\ c \in Space \ live
    /\ \E new \in FrameAllocFor(Lazy(p) \cup Hidden(p)) :
        LET lazy == Restrict(new, Lazy(p))
            copy == Restrict(new, Hidden(p))
            parent == {IF a.mmap /\ a.shared THEN Resident(a, lazy) ELSE a : a \in areas[p]}
            made == [v \in Page |->
                       IF v \in Lazy(p)
                       THEN PteFor(lazy[v], (CHOOSE a \in AreasAt(p, v) : TRUE).perm)
                       ELSE pte[p][v]]
        IN  /\ areas' = [areas EXCEPT ![p] = parent,
                                      ![c] = {IF a.shared THEN a ELSE Resident(a, copy) : a \in parent}]
            /\ mem' = [f \in Frame |->
                         IF f \in Range(lazy) THEN Zero
                         ELSE IF \E v \in Hidden(p) : copy[v] = f
                         THEN LET v == CHOOSE u \in Hidden(p) : copy[u] = f
                                  a == CHOOSE b \in AreasAt(p, v) : TRUE
                              IN  mem[a.frames[v]]
                         ELSE mem[f]]
            /\ pte' = [pte EXCEPT
                 ![p] = [v \in Page |-> ParentPte(made[v], v, Leaves(p))],
                 ![c] = [v \in Page |-> IF v \in Leaves(p) THEN Cow(made[v])
                                        ELSE IF v \in Hidden(p) THEN NoPte ELSE made[v]]]
            /\ brk' = [brk EXCEPT ![c] = brk[p]]
            /\ hint' = [hint EXCEPT ![c] = hint[p]]
            /\ live' = live \cup {c}
            /\ view' = [view EXCEPT ![c] = view[p]]
            /\ UNCHANGED fault

(* Without frames for the copies the child is dropped; the pages it had been
   given so far stay copy-on-write in the parent. *)
ForkFails(p) ==
    /\ Call(p, "fork")
    /\ Space \ live # {}
    /\ Cardinality(Lazy(p)) + Cardinality(Hidden(p)) > Cardinality(FreeFrames)
    /\ \E done \in SUBSET Leaves(p) :
         pte' = [pte EXCEPT ![p] = [v \in Page |-> ParentPte(@[v], v, done)]]
    /\ UNCHANGED <<areas, mem, fault, brk, hint, live, view>>

(* recycle_data_pages, once no thread of the process is in the kernel. *)
Exit(p) ==
    /\ "exit" \in Calls
    /\ p \in live /\ live # {p}
    /\ \A t \in Thread : SpaceOf[t] = p => fault[t] = NoFault
    /\ areas' = [areas EXCEPT ![p] = {}]
    /\ pte' = [pte EXCEPT ![p] = UnmapResident(@, areas[p])]
    /\ live' = live \ {p}
    /\ brk' = [brk EXCEPT ![p] = 0]
    /\ hint' = [hint EXCEPT ![p] = MmapLo]
    /\ UNCHANGED <<mem, fault, calls, view>>

-----------------------------------------------------------------------------
(* Faults *)

Install(p, a, v, f) ==
    /\ areas' = [areas EXCEPT ![p] = (@ \ {a}) \cup
                   {[a EXCEPT !.frames = [u \in DOMAIN @ \cup {v} |->
                                            IF u = v THEN f ELSE @[u]]]}]
    /\ pte' = [pte EXCEPT ![p][v] = PteFor(f, a.perm)]

(* resolve_cow_page_fault: the last owner takes the frame back, any other one
   gets a copy. *)
CowOwners(f) == Owners(f)

ResolveCow(t, v) ==
    LET p == SpaceOf[t]
        e == pte[p][v]
    IN  /\ p \in live /\ fault[t] = NoFault
        /\ e.leaf /\ e.cow
        /\ \E a \in AreasAt(p, v) :
            /\ a.perm = "rw" /\ v \in DOMAIN a.frames
            /\ IF Cardinality(CowOwners(e.frame)) = 1
               THEN /\ pte' = [pte EXCEPT ![p][v].w = TRUE, ![p][v].cow = FALSE]
                    /\ UNCHANGED <<areas, mem>>
               ELSE \E f \in FrameAlloc :
                    /\ mem' = [mem EXCEPT ![f] = mem[e.frame]]
                    /\ areas' = [areas EXCEPT ![p] = (@ \ {a}) \cup {[a EXCEPT !.frames[v] = f]}]
                    /\ pte' = [pte EXCEPT ![p][v] =
                                 [frame |-> f, leaf |-> TRUE, w |-> TRUE, cow |-> FALSE]]
        /\ UNCHANGED <<fault, brk, hint, live, calls, view>>

(* What the first critical section captures of the area. *)
Captured(a) == [lo |-> a.lo, hi |-> a.hi, perm |-> a.perm, shared |-> a.shared,
                grow |-> a.grow, file |-> a.file, off |-> a.off]
InFile(a, v) == a.file => a.off + (v - a.lo) < FileLen

(* grow_down_mmap_area_for_fault: one page, if the guard gap below is free. *)
GuardClear(p, a, v) ==
    \A b \in areas[p] \ {a} : b.lo >= v \/ b.hi + GuardGap <= v
GrowDown(p, v, acc) ==
    {a \in areas[p] : a.lo = v + 1 /\ a.mmap /\ a.grow /\ ~a.file
                      /\ Allowed(acc, a.perm) /\ GuardClear(p, a, v)}

(* prepare_mmap_page_fault and build_frame: a fault on an mmap area without a
   leaf.  A growth of the area happens here, before the lock is left. *)
FaultMmap(t, v, acc) ==
    LET p == SpaceOf[t]
    IN  /\ p \in live /\ fault[t] = NoFault
        /\ pte[p][v] = NoPte
        /\ \E a \in IF AreasAt(p, v) # {} THEN AreasAt(p, v) ELSE GrowDown(p, v, acc) :
            LET b == [a EXCEPT !.lo = IF v < @ THEN v ELSE @]
            IN  /\ a.mmap /\ Allowed(acc, a.perm)
                /\ v \notin DOMAIN a.frames
                /\ InFile(b, v)
                /\ \E f \in FrameAlloc :
                    /\ fault' = [fault EXCEPT ![t] = [step |-> "install", page |-> v, acc |-> acc,
                                                      frame |-> f, area |-> Captured(b)]]
                    /\ mem' = [mem EXCEPT ![f] = Fresh(b, v)]
                /\ areas' = [areas EXCEPT ![p] = (@ \ {a}) \cup {b}]
                /\ view' = [view EXCEPT ![p][v] = IF v < a.lo THEN Zero ELSE @]
        /\ UNCHANGED <<pte, brk, hint, live, calls>>

(* install_mmap_fault_page: a frame for an area that changed is dropped and
   the access retried; a page that is resident by now is left alone. *)
Matches(p, a, w) == Captured(a) = w.area /\ a.mmap /\ Allowed(w.acc, a.perm)

FaultInstall(t) ==
    LET p == SpaceOf[t]
        w == fault[t]
        hit == {a \in AreasAt(p, w.page) : Matches(p, a, w)}
    IN  /\ w.step = "install"
        /\ fault' = [fault EXCEPT ![t] = NoFault]
        /\ IF \E a \in hit : w.page \notin DOMAIN a.frames /\ pte[p][w.page] = NoPte
           THEN \E a \in hit : Install(p, a, w.page, w.frame)
           ELSE UNCHANGED <<areas, pte>>
        /\ UNCHANGED <<mem, brk, hint, live, calls, view>>

(* resolve_lazy_framed_page_fault: heap pages, within one critical section. *)
FaultHeap(t, v, acc) ==
    LET p == SpaceOf[t]
    IN  /\ p \in live /\ fault[t] = NoFault
        /\ pte[p][v] = NoPte
        /\ \E a \in AreasAt(p, v), f \in FrameAlloc :
            /\ ~a.mmap /\ Allowed(acc, a.perm)
            /\ v \notin DOMAIN a.frames
            /\ mem' = [mem EXCEPT ![f] = Zero]
            /\ Install(p, a, v, f)
        /\ UNCHANGED <<fault, brk, hint, live, calls, view>>

(* A store the hardware lets through. *)
Store(t, v, x) ==
    LET p == SpaceOf[t]
        e == pte[p][v]
        SameObject(q) == \E a \in AreasAt(p, v), b \in AreasAt(q, v) :
                            a.shared /\ b.shared /\ a.id = b.id
    IN  /\ p \in live /\ fault[t] = NoFault
        /\ e.leaf /\ e.w
        /\ mem' = [mem EXCEPT ![e.frame] = x]
        /\ view' = [q \in Space |-> IF q = p \/ SameObject(q)
                                    THEN [view[q] EXCEPT ![v] = x] ELSE view[q]]
        /\ UNCHANGED <<areas, pte, fault, brk, hint, live, calls>>

MapNext == \E p \in Space : Mmap(p) \/ MmapFixed(p) \/ Munmap(p) \/ Mprotect(p)
                            \/ Mremap(p) \/ Madvise(p) \/ Brk(p)
ProcNext == \E p \in Space : ForkFails(p) \/ Exit(p) \/ \E c \in Space : Fork(p, c)
FaultNext == \E t \in Thread :
                \/ FaultInstall(t)
                \/ \E v \in Page : \/ ResolveCow(t, v)
                                   \/ \E acc \in {"read", "write"} :
                                        FaultMmap(t, v, acc) \/ FaultHeap(t, v, acc)
                                   \/ \E x \in Stored : Store(t, v, x)
VmaNext == MapNext \/ ProcNext \/ FaultNext
VmaSpec == VmaInit /\ [][VmaNext]_vmaVars

-----------------------------------------------------------------------------
(* The areas of a process never overlap, whatever sequence of mmap, munmap,
   mprotect, mremap, brk and stack growth made them: the binary search of
   find_area_idx_containing and the range scans rely on it. *)
AreasDisjoint ==
    \A p \in Space : \A a, b \in areas[p] :
        a # b => Pages(a) \cap Pages(b) = {}

(* Every page a process has resident shows what the process must find there:
   its own last store, the store of any process that shares the mapping, or
   the zeroes or file page the mapping started with, across splits, fork,
   copy-on-write, PROT_NONE and frames installed by late faults. *)
PagesShowData ==
    \A p \in Space : \A a \in areas[p] : \A v \in DOMAIN a.frames :
        mem[a.frames[v]] = view[p][v]

(* A leaf names the frame its area owns and allows no more than the area; a
   private frame that is writable has no second owner, so no store reaches
   another process. *)
LeavesOwned ==
    \A p \in Space : \A v \in Page :
        pte[p][v].leaf =>
            \E a \in AreasAt(p, v) :
                /\ v \in DOMAIN a.frames
                /\ a.frames[v] = pte[p][v].frame
                /\ pte[p][v].w => a.perm = "rw"
                /\ (pte[p][v].w /\ ~a.shared) => Cardinality(Owners(pte[p][v].frame)) = 1
=============================================================================
