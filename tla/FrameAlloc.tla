------------------------------ MODULE FrameAlloc ------------------------------
(* The physical frame allocator of os/src/mm/frame_allocator.rs: the bump      *)
(* range and the recycled frames behind one lock, a cache of free frames per   *)
(* CPU behind its own, and the reference counts, which are atomics.  The two   *)
(* kinds of lock are never nested, so a frame on its way between them is held  *)
(* by nobody but the context that moves it.                                    *)
EXTENDS Naturals, FiniteSets

CONSTANTS Context,     \* threads and interrupt handlers
          CpuOf,       \* the CPU each runs on, NoCpu before CPUs have ids
          FrameCpu, NoCpu,
          Frames,      \* frames 1 .. Frames
          Tracker,     \* FrameTracker values
          FRAME_CACHE_CAPACITY, FRAME_CACHE_BATCH

ASSUME FrameAssumption ==
    /\ Frames \in Nat /\ CpuOf \in [Context -> FrameCpu \cup {NoCpu}] /\ NoCpu \notin FrameCpu
    /\ IsFiniteSet(Tracker)
    /\ FRAME_CACHE_BATCH \in Nat \ {0} /\ FRAME_CACHE_CAPACITY \in Nat

VARIABLES bump,        \* StackFrameAllocator.current: frames below it were handed out
          recycled,    \* StackFrameAllocator.recycled
          fcache,      \* FRAME_CACHES
          count,       \* FRAME_REF_COUNTS
          tracker,     \* the frame of each live FrameTracker, else 0
          where,       \* what each context is doing
          moving,      \* the frames it has in its hands
          ffault       \* an assertion of the allocator failed

frameVars == <<bump, recycled, fcache, count, tracker, where, moving, ffault>>

Frame == 1 .. Frames
NoFrame == 0

FrameInit ==
    /\ bump = 1 /\ recycled = {} /\ fcache = [c \in FrameCpu |-> {}]
    /\ count = [f \in Frame |-> 0]
    /\ tracker = [k \in Tracker |-> NoFrame]
    /\ where = [a \in Context |-> "idle"] /\ moving = [a \in Context |-> {}]
    /\ ffault = FALSE

HasCpu(a) == CpuOf[a] # NoCpu
GoTo(a, at, frames) ==
    /\ where' = [where EXCEPT ![a] = at]
    /\ moving' = [moving EXCEPT ![a] = frames]

(* alloc_frame_ppn finds a frame in the cache of its CPU. *)
CacheHit(a) ==
    /\ where[a] = "idle" /\ HasCpu(a)
    /\ \E f \in fcache[CpuOf[a]] :
         /\ fcache' = [fcache EXCEPT ![CpuOf[a]] = @ \ {f}]
         /\ GoTo(a, "claim", {f})
    /\ UNCHANGED <<bump, recycled, count, tracker, ffault>>

CacheMiss(a) ==
    /\ where[a] = "idle"
    /\ HasCpu(a) => fcache[CpuOf[a]] = {}
    /\ GoTo(a, "refill", {})
    /\ UNCHANGED <<bump, recycled, fcache, count, tracker, ffault>>

BatchOf(a) == IF HasCpu(a) THEN FRAME_CACHE_BATCH ELSE 1

(* A batch under the global lock, recycled frames first; with none at all the  *)
(* allocation fails.                                                           *)
Refill(a) ==
    /\ where[a] = "refill"
    /\ \E old \in SUBSET recycled, fresh \in 0 .. Frames + 1 - bump :
         /\ fresh > 0 => old = recycled
         /\ Cardinality(old) + fresh <= BatchOf(a)
         /\ Cardinality(old) + fresh = BatchOf(a) \/ (old = recycled /\ bump + fresh = Frames + 1)
         /\ recycled' = recycled \ old /\ bump' = bump + fresh
         /\ IF old = {} /\ fresh = 0 THEN GoTo(a, "idle", {})
            ELSE GoTo(a, "claim", old \cup (bump .. bump + fresh - 1))
    /\ UNCHANGED <<fcache, count, tracker, ffault>>

(* claim_free for one frame of the batch; the rest goes to the cache. *)
Claim(a) ==
    /\ where[a] = "claim"
    /\ \E f \in moving[a], k \in Tracker :
         /\ tracker[k] = NoFrame
         /\ tracker' = [tracker EXCEPT ![k] = f]
         /\ count' = [count EXCEPT ![f] = 1]
         /\ ffault' = (ffault \/ count[f] # 0)
         /\ IF moving[a] = {f} THEN GoTo(a, "idle", {}) ELSE GoTo(a, "publish", moving[a] \ {f})
    /\ UNCHANGED <<bump, recycled, fcache>>

MutPublish(a) ==
    /\ where[a] = "publish"
    /\ fcache' = [c \in FrameCpu |-> fcache[c] \cup moving[a]]
    /\ GoTo(a, "idle", {})
    /\ UNCHANGED <<bump, recycled, count, tracker, ffault>>

Publish(a) ==
    /\ where[a] = "publish"
    /\ fcache' = [fcache EXCEPT ![CpuOf[a]] = @ \cup moving[a]]
    /\ GoTo(a, "idle", {})
    /\ UNCHANGED <<bump, recycled, count, tracker, ffault>>

(* frame_alloc_more, frame_alloc_contiguous_uninit: adjacent fresh frames. *)
AllocMore(a) ==
    /\ where[a] = "idle"
    /\ \E k, l \in Tracker :
         /\ k # l /\ tracker[k] = NoFrame /\ tracker[l] = NoFrame
         /\ bump + 2 <= Frames + 1 /\ bump' = bump + 2
         /\ tracker' = [tracker EXCEPT ![k] = bump, ![l] = bump + 1]
         /\ count' = [count EXCEPT ![bump] = 1, ![bump + 1] = 1]
         /\ ffault' = (ffault \/ count[bump] # 0 \/ count[bump + 1] # 0)
    /\ UNCHANGED <<recycled, fcache, where, moving>>

(* FrameTracker::from_retained, by somebody who keeps a tracker of the frame   *)
(* alive: COW after fork, pinned user buffers.                                 *)
Retain(a) ==
    /\ where[a] = "idle"
    /\ \E k, l \in Tracker :
         /\ tracker[k] # NoFrame /\ tracker[l] = NoFrame
         /\ tracker' = [tracker EXCEPT ![l] = tracker[k]]
         /\ count' = [count EXCEPT ![tracker[k]] = @ + 1]
    /\ UNCHANGED <<bump, recycled, fcache, where, moving, ffault>>

LastOwner(f) == count[f] = 1

(* FrameTracker::drop, frame_dealloc: the last owner frees the frame. *)
Release(a) ==
    /\ where[a] = "idle"
    /\ \E k \in Tracker :
         /\ tracker[k] # NoFrame
         /\ tracker' = [tracker EXCEPT ![k] = NoFrame]
         /\ count' = [count EXCEPT ![tracker[k]] = @ - 1]
         /\ IF LastOwner(tracker[k])
            THEN GoTo(a, IF HasCpu(a) THEN "push" ELSE "recycle", {tracker[k]})
            ELSE UNCHANGED <<where, moving>>
    /\ UNCHANGED <<bump, recycled, fcache, ffault>>

(* The frame enters the cache of the CPU; above the capacity a batch leaves    *)
(* it for the global allocator.                                                *)
Push(a) ==
    /\ where[a] = "push"
    /\ LET all == fcache[CpuOf[a]] \cup moving[a]
       IN IF Cardinality(all) <= FRAME_CACHE_CAPACITY
          THEN fcache' = [fcache EXCEPT ![CpuOf[a]] = all] /\ GoTo(a, "idle", {})
          ELSE \E drained \in SUBSET all :
                 /\ Cardinality(drained) = FRAME_CACHE_BATCH
                 /\ fcache' = [fcache EXCEPT ![CpuOf[a]] = all \ drained]
                 /\ GoTo(a, "recycle", drained)
    /\ UNCHANGED <<bump, recycled, count, tracker, ffault>>

(* recycle: only frames that were handed out. *)
Recycle(a) ==
    /\ where[a] = "recycle"
    /\ recycled' = recycled \cup moving[a]
    /\ ffault' = (ffault \/ \E f \in moving[a] : f >= bump)
    /\ GoTo(a, "idle", {})
    /\ UNCHANGED <<bump, fcache, count, tracker>>

FrameNext ==
    \E a \in Context :
       \/ CacheHit(a) \/ CacheMiss(a) \/ Refill(a) \/ Claim(a) \/ Publish(a) \/ AllocMore(a)
       \/ Retain(a) \/ Release(a) \/ Push(a) \/ Recycle(a)

FrameSpec == FrameInit /\ [][FrameNext]_frameVars

----------------------------------------------------------------------------
Owners(f) == {k \in Tracker : tracker[k] = f}

FrameTypeOK ==
    /\ bump \in 1 .. Frames + 1 /\ recycled \subseteq Frame
    /\ fcache \in [FrameCpu -> SUBSET Frame]
    /\ count \in [Frame -> Nat]
    /\ tracker \in [Tracker -> Frame \cup {NoFrame}]
    /\ where \in [Context -> {"idle", "refill", "claim", "publish", "push", "recycle"}]
    /\ moving \in [Context -> SUBSET Frame]
    /\ ffault \in BOOLEAN

(* The free owners: the bump range, the recycled frames, the caches, and the   *)
(* contexts that have free frames in their hands.                              *)
FreeIn(f) ==
    {<<"bump">> : x \in {n \in {f} : n >= bump}}
    \cup {<<"recycled">> : x \in recycled \cap {f}}
    \cup {<<"cache", c>> : c \in {d \in FrameCpu : f \in fcache[d]}}
    \cup {<<"moving", a>> : a \in {b \in Context : f \in moving[b]}}

(* No assertion of claim_free, release or recycle fails.                       *)
(* A frame's count is the number of trackers that own it; a frame nobody owns  *)
(* has exactly one free owner, and an owned one has none: no frame is handed   *)
(* out twice, freed under an owner or lost, however the steps of allocations,  *)
(* frees, refills and drains on different CPUs interleave (FrameRefCounts,     *)
(* "owned either by the global free structure or by exactly one CPU cache").   *)
FramesExact ==
    /\ ~ffault
    /\ \A f \in Frame :
          /\ count[f] = Cardinality(Owners(f))
          /\ Cardinality(FreeIn(f)) = (IF count[f] = 0 THEN 1 ELSE 0)
=============================================================================
