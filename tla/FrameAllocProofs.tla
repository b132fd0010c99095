-------------------------- MODULE FrameAllocProofs --------------------------
(***************************************************************************)
(* Proofs about the frame allocator, for any memory size, any CPUs, any    *)
(* contexts and any cache capacity and batch.                              *)
(***************************************************************************)
EXTENDS FrameAlloc, FiniteSetTheorems, TLAPS

\* A frame has one free owner at most, and none while its count is not zero.
InCaches(f) == \E c \in FrameCpu : f \in fcache[c]
InHands(f) == \E a \in Context : f \in moving[a]

FreshAlone == \A f \in Frame : f >= bump =>
    count[f] = 0 /\ f \notin recycled /\ ~InCaches(f) /\ ~InHands(f)
RecycledAlone == \A f \in recycled : count[f] = 0 /\ ~InCaches(f) /\ ~InHands(f)
CachedAlone == \A c \in FrameCpu : \A f \in fcache[c] :
    count[f] = 0 /\ ~InHands(f) /\ \A d \in FrameCpu : f \in fcache[d] => c = d
HandsAlone == \A a \in Context : \A f \in moving[a] :
    count[f] = 0 /\ \A b \in Context : f \in moving[b] => a = b

\* A frame that nobody owns is somewhere.
NoneLost == \A f \in Frame : count[f] = 0 =>
    f >= bump \/ f \in recycled \/ InCaches(f) \/ InHands(f)

\* What a context has in its hands, and on which CPU it is.
HandsRight == \A a \in Context :
    /\ where[a] \in {"idle", "refill"} => moving[a] = {}
    /\ where[a] \in {"publish", "push"} => HasCpu(a)
    /\ where[a] = "claim" /\ ~HasCpu(a) => \E f : moving[a] = {f}

Counts == \A f \in Frame : count[f] = Cardinality(Owners(f))

Places == FreshAlone /\ RecycledAlone /\ CachedAlone /\ HandsAlone /\ NoneLost
FrameInv == FrameTypeOK /\ ~ffault /\ Places /\ HandsRight /\ Counts

-----------------------------------------------------------------------------
(* Counting trackers.                                                      *)

\* The trackers of a frame are finitely many.
LEMMA OwnersFinite == \A f : IsFiniteSet(Owners(f)) /\ Cardinality(Owners(f)) \in Nat
  <1>. SUFFICES ASSUME NEW f PROVE IsFiniteSet(Owners(f)) /\ Cardinality(Owners(f)) \in Nat
    OBVIOUS
  <1>1. Owners(f) \in SUBSET Tracker
    BY DEF Owners
  <1>2. IsFiniteSet(Owners(f))
    BY <1>1, FrameAssumption, FS_Subset
  <1>. QED
    BY <1>2, FS_CardinalityType

\* A tracker that takes a frame adds one to its owners and to no other's.
LEMMA TrackerTakes ==
  ASSUME FrameTypeOK, NEW k \in Tracker, tracker[k] = NoFrame, NEW g \in Frame,
         tracker' = [tracker EXCEPT ![k] = g]
  PROVE  \A f \in Frame : Cardinality(Owners(f)') =
            IF f = g THEN Cardinality(Owners(f)) + 1 ELSE Cardinality(Owners(f))
  <1>. SUFFICES ASSUME NEW f \in Frame
                PROVE  Cardinality(Owners(f)') =
                         IF f = g THEN Cardinality(Owners(f)) + 1 ELSE Cardinality(Owners(f))
    OBVIOUS
  <1>1. CASE f = g
    <2>1. Owners(f)' = Owners(f) \cup {k} /\ k \notin Owners(f)
      BY <1>1 DEF Owners, FrameTypeOK, Frame, NoFrame
    <2>. QED
      BY Zenon, <1>1, <2>1, OwnersFinite, FS_AddElement
  <1>2. CASE f # g
    <2>1. Owners(f)' = Owners(f)
      BY <1>2 DEF Owners, FrameTypeOK, Frame, NoFrame
    <2>. QED
      BY <1>2, <2>1
  <1>. QED
    BY <1>1, <1>2

\* A tracker that is dropped takes one away.
LEMMA TrackerDrops ==
  ASSUME FrameTypeOK, NEW k \in Tracker, NEW g \in Frame, tracker[k] = g,
         tracker' = [tracker EXCEPT ![k] = NoFrame]
  PROVE  \A f \in Frame : Cardinality(Owners(f)') =
            IF f = g THEN Cardinality(Owners(f)) - 1 ELSE Cardinality(Owners(f))
  <1>. SUFFICES ASSUME NEW f \in Frame
                PROVE  Cardinality(Owners(f)') =
                         IF f = g THEN Cardinality(Owners(f)) - 1 ELSE Cardinality(Owners(f))
    OBVIOUS
  <1>1. CASE f = g
    <2>1. Owners(f)' = Owners(f) \ {k} /\ k \in Owners(f)
      BY <1>1 DEF Owners, FrameTypeOK, Frame, NoFrame
    <2>2. Cardinality(Owners(f) \ {k}) = Cardinality(Owners(f)) - 1
      BY SMTT(30), <2>1, OwnersFinite, FS_RemoveElement
    <2>. QED
      BY <1>1, <2>1, <2>2
  <1>2. CASE f # g
    <2>1. Owners(f)' = Owners(f)
      BY <1>2 DEF Owners, FrameTypeOK, Frame, NoFrame
    <2>. QED
      BY <1>2, <2>1
  <1>. QED
    BY <1>1, <1>2

\* An owned frame has a count.
LEMMA OwnedIsCounted ==
  ASSUME FrameTypeOK, Counts, NEW k \in Tracker, tracker[k] # NoFrame
  PROVE  tracker[k] \in Frame /\ count[tracker[k]] >= 1
  <1>1. tracker[k] \in Frame
    BY DEF FrameTypeOK
  <1>2. k \in Owners(tracker[k])
    BY DEF Owners
  <1>3. Cardinality(Owners(tracker[k])) # 0
    BY <1>2, OwnersFinite, FS_EmptySet
  <1>. QED
    BY <1>1, <1>3, OwnersFinite DEF Counts

-----------------------------------------------------------------------------
(* The inductive invariant.                                                *)

\* It holds when the allocator starts.
LEMMA InitFrame == FrameInit => FrameInv
  <1>. SUFFICES ASSUME FrameInit PROVE FrameInv
    OBVIOUS
  <1>a. bump \in 1 .. Frames + 1 /\ recycled \subseteq Frame
    BY FrameAssumption DEF FrameInit
  <1>d. ffault \in BOOLEAN
    BY Zenon DEF FrameInit
  <1>b. fcache \in [FrameCpu -> SUBSET Frame] /\ moving \in [Context -> SUBSET Frame]
    BY DEF FrameInit
  <1>c. count \in [Frame -> Nat] /\ tracker \in [Tracker -> Frame \cup {NoFrame}]
    BY DEF FrameInit
  <1>1. FrameTypeOK
    BY <1>a, <1>b, <1>c, <1>d DEF FrameInit, FrameTypeOK
  <1>2. Places /\ HandsRight /\ ~ffault
    BY DEF FrameInit, Places, FreshAlone, RecycledAlone, CachedAlone, HandsAlone, NoneLost,
           InCaches, InHands, HandsRight, Frame
  <1>3. \A f \in Frame : Owners(f) = {}
    BY DEF FrameInit, Owners, Frame, NoFrame
  <1>4. Counts
    BY <1>3, FS_EmptySet DEF FrameInit, Counts
  <1>. QED
    BY <1>1, <1>2, <1>4 DEF FrameInv

\* Frames that only change hands keep their counts.
LEMMA CountsKept ==
  ASSUME Counts, UNCHANGED <<count, tracker>>
  PROVE  Counts'
  BY DEF Counts, Owners

\* alloc_frame_ppn takes a frame from the cache of its CPU.
LEMMA CacheHitFrame == ASSUME FrameInv, NEW a \in Context, CacheHit(a) PROVE FrameInv'
  <1>. PICK f \in fcache[CpuOf[a]] :
          /\ fcache' = [fcache EXCEPT ![CpuOf[a]] = @ \ {f}]
          /\ where' = [where EXCEPT ![a] = "claim"] /\ moving' = [moving EXCEPT ![a] = {f}]
    BY Zenon DEF CacheHit, GoTo
  <1>0. CpuOf[a] \in FrameCpu /\ f \in Frame /\ moving[a] = {}
    BY ZenonT(40), FrameAssumption DEF CacheHit, FrameInv, FrameTypeOK, HasCpu, HandsRight
  <1>1. FrameTypeOK'
    BY <1>0 DEF CacheHit, FrameInv, FrameTypeOK
  <1>2. FreshAlone' /\ RecycledAlone'
    BY <1>0 DEF CacheHit, FrameInv, FrameTypeOK, Places, FreshAlone, RecycledAlone,
                CachedAlone, InCaches, InHands
  <1>3. CachedAlone' /\ HandsAlone'
    BY <1>0 DEF CacheHit, FrameInv, FrameTypeOK, Places, CachedAlone, HandsAlone, InHands
  <1>4. NoneLost'
    BY <1>0 DEF CacheHit, FrameInv, FrameTypeOK, Places, NoneLost, InCaches, InHands
  <1>5. HandsRight' /\ ~ffault'
    BY Zenon, <1>0 DEF CacheHit, FrameInv, FrameTypeOK, HandsRight, HasCpu
  <1>6. Counts'
    BY CountsKept DEF CacheHit, FrameInv
  <1>. QED
    BY <1>1, <1>2, <1>3, <1>4, <1>5, <1>6 DEF FrameInv, Places

\* alloc_frame_ppn finds the cache empty.
LEMMA CacheMissFrame == ASSUME FrameInv, NEW a \in Context, CacheMiss(a) PROVE FrameInv'
  <1>0. moving[a] = {}
    BY DEF CacheMiss, FrameInv, HandsRight
  <1>1. moving' = moving
    BY <1>0 DEF CacheMiss, GoTo, FrameInv, FrameTypeOK
  <1>2. FrameTypeOK' /\ HandsRight' /\ ~ffault'
    BY ZenonT(40), <1>0, <1>1 DEF CacheMiss, GoTo, FrameInv, FrameTypeOK, HandsRight, HasCpu
  <1>3. Places'
    BY <1>1 DEF CacheMiss, FrameInv, Places, FreshAlone, RecycledAlone, CachedAlone,
                HandsAlone, NoneLost, InCaches, InHands
  <1>4. Counts'
    BY CountsKept DEF CacheMiss, FrameInv
  <1>. QED
    BY <1>2, <1>3, <1>4 DEF FrameInv

\* Sets of frames are finite.
LEMMA FramesFinite == \A S \in SUBSET Frame : IsFiniteSet(S) /\ Cardinality(S) \in Nat
  <1>1. IsFiniteSet(Frame)
    BY FrameAssumption, FS_Interval DEF Frame
  <1>. QED
    BY <1>1, FS_Subset, FS_CardinalityType

\* A context without a CPU id asks for one frame and gets no more.
LEMMA SingleBatch ==
  ASSUME FrameTypeOK, NEW old \in SUBSET recycled, NEW fresh \in 0 .. Frames + 1 - bump,
         Cardinality(old) + fresh <= 1, ~(old = {} /\ fresh = 0)
  PROVE  \E f : old \cup (bump .. bump + fresh - 1) = {f}
  <1>1. IsFiniteSet(old) /\ Cardinality(old) \in Nat
    BY FramesFinite DEF FrameTypeOK
  <1>2. CASE fresh = 0
    <2>1. Cardinality(old) = 1
      BY <1>1, <1>2, FS_EmptySet
    <2>2. PICK f : old = {f}
      BY Zenon, <1>1, <2>1, FS_Singleton
    <2>3. bump .. bump + fresh - 1 = {}
      BY <1>2 DEF FrameTypeOK
    <2>. QED
      BY Zenon, <2>2, <2>3
  <1>3. CASE fresh # 0
    <2>1. Cardinality(old) = 0 /\ fresh = 1
      BY <1>1, <1>3, FrameAssumption DEF FrameTypeOK
    <2>2. old = {}
      BY <1>1, <2>1, FS_EmptySet
    <2>3. bump .. bump + fresh - 1 = {bump}
      BY <2>1 DEF FrameTypeOK
    <2>. QED
      BY <2>2, <2>3
  <1>. QED
    BY Zenon, <1>2, <1>3

\* The refill takes recycled and fresh frames into the hands of the context.
LEMMA RefillFrame == ASSUME FrameInv, NEW a \in Context, Refill(a) PROVE FrameInv'
  <1>. PICK old \in SUBSET recycled, fresh \in 0 .. Frames + 1 - bump :
          /\ Cardinality(old) + fresh <= BatchOf(a)
          /\ recycled' = recycled \ old /\ bump' = bump + fresh
          /\ IF old = {} /\ fresh = 0 THEN GoTo(a, "idle", {})
             ELSE GoTo(a, "claim", old \cup (bump .. bump + fresh - 1))
    BY Zenon DEF Refill
  <1>. DEFINE batch == old \cup (bump .. bump + fresh - 1)
  <1>0. moving[a] = {} /\ FrameTypeOK
    BY DEF Refill, FrameInv, HandsRight
  <1>1. /\ moving' = [moving EXCEPT ![a] = batch]
        /\ where' = [where EXCEPT ![a] = IF old = {} /\ fresh = 0 THEN "idle" ELSE "claim"]
        /\ UNCHANGED <<fcache, count, tracker, ffault>>
    <2>1. old = {} /\ fresh = 0 => batch = {}
      BY <1>0 DEF FrameTypeOK
    <2>. QED
      BY <2>1 DEF Refill, GoTo
  <1>2. /\ bump \in Nat /\ fresh \in Nat /\ bump + fresh <= Frames + 1
        /\ batch \subseteq Frame
        /\ \A f \in Frame : f \in batch <=> f \in old \/ (bump <= f /\ f < bump + fresh)
    BY <1>0, FrameAssumption DEF FrameTypeOK, Frame
  <1>3. FrameTypeOK'
    <2>1. bump' \in 1 .. Frames + 1 /\ recycled' \subseteq Frame
      BY <1>0, <1>2, FrameAssumption DEF FrameTypeOK
    <2>2. moving' \in [Context -> SUBSET Frame]
      BY <1>0, <1>1, <1>2 DEF FrameTypeOK
    <2>3. where' \in [Context -> {"idle", "refill", "claim", "publish", "push", "recycle"}]
      BY <1>0, <1>1 DEF FrameTypeOK
    <2>. QED
      BY <1>0, <1>1, <2>1, <2>2, <2>3 DEF FrameTypeOK
  <1>. HIDE DEF batch
  <1>4. \A f \in batch : count[f] = 0 /\ ~InCaches(f) /\ ~InHands(f)
    BY <1>0, <1>2 DEF FrameInv, Places, FreshAlone, RecycledAlone, FrameTypeOK
  <1>5. \A b \in Context : moving'[b] = IF b = a THEN batch ELSE moving[b]
    BY <1>0, <1>1 DEF FrameTypeOK
  <1>6. \A f : InCaches(f)' <=> InCaches(f)
    BY <1>1 DEF InCaches
  <1>7. \A f : InHands(f)' <=> InHands(f) \/ f \in batch
    BY <1>0, <1>5 DEF InHands
  <1>n. \A f \in Frame : f \in Nat
    BY DEF Frame
  <1>8. FreshAlone'
    <2>. SUFFICES ASSUME NEW f \in Frame, f >= bump'
                  PROVE  count'[f] = 0 /\ f \notin recycled' /\ ~InCaches(f)' /\ ~InHands(f)'
      BY DEF FreshAlone
    <2>1. f >= bump /\ ~(f < bump + fresh)
      BY <1>2, <1>n
    <2>2. count[f] = 0 /\ f \notin recycled /\ ~InCaches(f) /\ ~InHands(f)
      BY <2>1 DEF FrameInv, Places, FreshAlone
    <2>3. f \notin batch
      BY <1>2, <2>1, <2>2
    <2>. QED
      BY <1>1, <1>6, <1>7, <2>2, <2>3
  <1>9. RecycledAlone'
    BY <1>0, <1>1, <1>2, <1>6, <1>7 DEF FrameInv, Places, FreshAlone, RecycledAlone, FrameTypeOK
  <1>10. CachedAlone'
    BY <1>1, <1>4, <1>7 DEF FrameInv, Places, CachedAlone, InCaches
  <1>11. HandsAlone'
    BY <1>1, <1>4, <1>5 DEF FrameInv, Places, HandsAlone, InHands
  <1>12. NoneLost'
    <2>. SUFFICES ASSUME NEW f \in Frame, count[f] = 0
                  PROVE  f >= bump' \/ f \in recycled' \/ InCaches(f)' \/ InHands(f)'
      BY <1>1 DEF NoneLost
    <2>1. f >= bump \/ f \in recycled \/ InCaches(f) \/ InHands(f)
      BY DEF FrameInv, Places, NoneLost
    <2>2. f >= bump => f >= bump + fresh \/ f \in batch
      BY <1>2, <1>n
    <2>3. f \in recycled => f \in recycled' \/ f \in batch
      BY <1>2
    <2>. QED
      BY <1>6, <1>7, <2>1, <2>2, <2>3
  <1>13. HandsRight'
    <2>1. ASSUME ~HasCpu(a), ~(old = {} /\ fresh = 0) PROVE \E f : batch = {f}
      BY Zenon, <1>0, <2>1, SingleBatch DEF BatchOf, batch
    <2>2. old = {} /\ fresh = 0 => batch = {}
      BY <1>0 DEF FrameTypeOK, batch
    <2>3. \A b \in Context : where'[b] =
            IF b # a THEN where[b] ELSE IF old = {} /\ fresh = 0 THEN "idle" ELSE "claim"
      BY <1>0, <1>1 DEF FrameTypeOK
    <2>. QED
      BY ZenonT(40), <1>5, <2>1, <2>2, <2>3 DEF FrameInv, HandsRight, HasCpu
  <1>14. Counts' /\ ~ffault'
    BY <1>1, CountsKept DEF FrameInv
  <1>. QED
    BY <1>3, <1>8, <1>9, <1>10, <1>11, <1>12, <1>13, <1>14 DEF FrameInv, Places

\* The rest of a batch goes to the cache of the CPU.
LEMMA PublishFrame == ASSUME FrameInv, NEW a \in Context, Publish(a) PROVE FrameInv'
  <1>0. CpuOf[a] \in FrameCpu /\ FrameTypeOK
    BY FrameAssumption DEF Publish, FrameInv, HandsRight, HasCpu
  <1>1. /\ \A c \in FrameCpu :
             fcache'[c] = IF c = CpuOf[a] THEN fcache[c] \cup moving[a] ELSE fcache[c]
        /\ \A b \in Context : moving'[b] = IF b = a THEN {} ELSE moving[b]
        /\ UNCHANGED <<bump, recycled, count, tracker, ffault>>
    BY Zenon, <1>0 DEF Publish, GoTo, FrameTypeOK
  <1>2. FrameTypeOK' /\ HandsRight' /\ ~ffault'
    BY Zenon, <1>0 DEF Publish, GoTo, FrameInv, FrameTypeOK, HandsRight, HasCpu
  <1>3. \A f : InCaches(f)' <=> InCaches(f) \/ f \in moving[a]
    BY Zenon, <1>0, <1>1 DEF InCaches
  <1>4. \A f : InHands(f)' <=> InHands(f) /\ ~(f \in moving[a])
    BY <1>1 DEF InHands, FrameInv, Places, HandsAlone
  <1>5. FreshAlone' /\ RecycledAlone'
    BY <1>1, <1>3, <1>4 DEF FrameInv, Places, FreshAlone, RecycledAlone, InHands
  <1>6. CachedAlone'
    <2>. SUFFICES ASSUME NEW c \in FrameCpu, NEW f \in fcache'[c]
                  PROVE  /\ count[f] = 0 /\ ~InHands(f)'
                         /\ \A d \in FrameCpu : f \in fcache'[d] => c = d
      BY <1>1 DEF CachedAlone
    <2>1. CASE f \in moving[a]
      <3>1. count[f] = 0 /\ \A d \in FrameCpu : f \notin fcache[d]
        BY <2>1 DEF FrameInv, Places, HandsAlone, CachedAlone, InHands
      <3>. QED
        BY Zenon, <1>1, <1>4, <2>1, <3>1
    <2>2. CASE f \notin moving[a]
      <3>1. f \in fcache[c]
        BY Zenon, <1>1, <2>2
      <3>. QED
        BY ZenonT(40), <1>1, <1>4, <2>2, <3>1 DEF FrameInv, Places, CachedAlone
    <2>. QED
      BY <2>1, <2>2
  <1>7. HandsAlone' /\ NoneLost'
    BY <1>1, <1>3, <1>4 DEF FrameInv, Places, HandsAlone, NoneLost, InHands
  <1>8. Counts'
    BY <1>1, CountsKept DEF FrameInv
  <1>. QED
    BY <1>2, <1>5, <1>6, <1>7, <1>8 DEF FrameInv, Places

\* A freed frame enters the cache of the CPU, and may push a batch out of it.
LEMMA PushFrame == ASSUME FrameInv, NEW a \in Context, Push(a) PROVE FrameInv'
  <1>. DEFINE all == fcache[CpuOf[a]] \cup moving[a]
  <1>0. CpuOf[a] \in FrameCpu /\ FrameTypeOK
    BY FrameAssumption DEF Push, FrameInv, HandsRight, HasCpu
  <1>1. PICK out \in SUBSET all :
          /\ fcache' = [fcache EXCEPT ![CpuOf[a]] = all \ out]
          /\ moving' = [moving EXCEPT ![a] = out]
          /\ \/ out = {} /\ where' = [where EXCEPT ![a] = "idle"]
             \/ where' = [where EXCEPT ![a] = "recycle"]
    <2>1. CASE Cardinality(all) <= FRAME_CACHE_CAPACITY
      BY Zenon, <2>1 DEF Push, GoTo
    <2>2. CASE ~(Cardinality(all) <= FRAME_CACHE_CAPACITY)
      BY <2>2 DEF Push, GoTo
    <2>. QED
      BY <2>1, <2>2
  <1>2. /\ \A c \in FrameCpu : fcache'[c] = IF c = CpuOf[a] THEN all \ out ELSE fcache[c]
        /\ \A b \in Context : moving'[b] = IF b = a THEN out ELSE moving[b]
        /\ UNCHANGED <<bump, recycled, count, tracker, ffault>>
    BY <1>0, <1>1 DEF Push, FrameTypeOK
  <1>3. \A f \in all : f \in Frame /\ count[f] = 0
    BY <1>0 DEF FrameInv, FrameTypeOK, Places, CachedAlone, HandsAlone
  <1>4. FrameTypeOK'
    BY <1>0, <1>1, <1>3 DEF Push, FrameTypeOK
  <1>5. HandsRight'
    <2>1. \A b \in Context : b # a => where'[b] = where[b] /\ moving'[b] = moving[b]
      BY <1>0, <1>1, <1>2 DEF FrameTypeOK
    <2>2. where'[a] = "recycle" \/ (where'[a] = "idle" /\ moving'[a] = {})
      BY <1>0, <1>1, <1>2 DEF FrameTypeOK
    <2>. QED
      BY Zenon, <2>1, <2>2 DEF FrameInv, HandsRight, HasCpu
  <1>5a. ~ffault'
    BY <1>2, Zenon DEF FrameInv
  <1>6. \A f : InCaches(f) \/ InHands(f) <=> InCaches(f)' \/ InHands(f)'
    BY <1>0, <1>2 DEF InCaches, InHands
  <1>7. FreshAlone' /\ RecycledAlone' /\ NoneLost'
    BY <1>2, <1>6 DEF FrameInv, Places, FreshAlone, RecycledAlone, NoneLost
  <1>8. \A f \in all : /\ \A d \in FrameCpu : f \in fcache[d] => d = CpuOf[a]
                       /\ \A b \in Context : f \in moving[b] => b = a
    BY <1>0 DEF FrameInv, Places, CachedAlone, HandsAlone, InHands
  <1>9. CachedAlone'
    <2>. SUFFICES ASSUME NEW c \in FrameCpu, NEW f \in fcache'[c]
                  PROVE  /\ count[f] = 0 /\ \A b \in Context : f \notin moving'[b]
                         /\ \A d \in FrameCpu : f \in fcache'[d] => c = d
      BY <1>2 DEF CachedAlone, InHands
    <2>1. CASE f \in all
      BY <1>2, <1>3, <1>8, <2>1
    <2>2. CASE f \notin all
      <3>1. f \in fcache[c] /\ f \notin out
        BY <1>2, <2>2
      <3>. QED
        BY <1>2, <2>2, <3>1 DEF FrameInv, Places, CachedAlone, InHands
    <2>. QED
      BY <2>1, <2>2
  <1>10. HandsAlone'
    BY <1>2, <1>3, <1>8 DEF FrameInv, Places, HandsAlone
  <1>11. Counts'
    BY <1>2, CountsKept DEF FrameInv
  <1>. QED
    BY <1>4, <1>5, <1>5a, <1>7, <1>9, <1>10, <1>11 DEF FrameInv, Places

\* Frames return to the global allocator.
LEMMA RecycleFrame == ASSUME FrameInv, NEW a \in Context, Recycle(a) PROVE FrameInv'
  <1>0. FrameTypeOK
    BY DEF FrameInv
  <1>1. /\ \A b \in Context : moving'[b] = IF b = a THEN {} ELSE moving[b]
        /\ recycled' = recycled \cup moving[a]
        /\ UNCHANGED <<bump, fcache, count, tracker>>
    BY <1>0 DEF Recycle, GoTo, FrameTypeOK
  <1>2. \A f \in moving[a] : f \in Frame /\ ~(f >= bump) /\ count[f] = 0 /\ ~InCaches(f)
    BY <1>0 DEF FrameInv, FrameTypeOK, Places, FreshAlone, HandsAlone, CachedAlone, InHands,
                InCaches
  <1>3. ~ffault'
    BY <1>2, Zenon DEF Recycle, FrameInv
  <1>4. FrameTypeOK'
    <2>1. ffault' \in BOOLEAN
      BY <1>3, Zenon DEF Recycle
    <2>2. recycled' \subseteq Frame /\ moving' \in [Context -> SUBSET Frame]
      BY <1>0, <1>2 DEF Recycle, GoTo, FrameTypeOK
    <2>. QED
      BY <1>0, <1>1, <2>1, <2>2 DEF Recycle, GoTo, FrameTypeOK
  <1>5. HandsRight'
    BY Zenon, <1>0, <1>1 DEF Recycle, GoTo, FrameInv, FrameTypeOK, HandsRight, HasCpu
  <1>6. \A f : InHands(f)' <=> InHands(f) /\ f \notin moving[a]
    BY <1>1 DEF InHands, FrameInv, Places, HandsAlone
  <1>7. \A f : InCaches(f)' <=> InCaches(f)
    BY <1>1 DEF InCaches
  <1>8. FreshAlone' /\ RecycledAlone'
    BY <1>1, <1>2, <1>6, <1>7 DEF FrameInv, Places, FreshAlone, RecycledAlone
  <1>9. CachedAlone' /\ HandsAlone'
    BY <1>1, <1>6 DEF FrameInv, Places, CachedAlone, HandsAlone
  <1>10. NoneLost'
    BY <1>1, <1>6, <1>7 DEF FrameInv, Places, NoneLost
  <1>11. Counts'
    BY <1>1, CountsKept DEF FrameInv
  <1>. QED
    BY <1>3, <1>4, <1>5, <1>8, <1>9, <1>10, <1>11 DEF FrameInv, Places

\* A frame in hand becomes owned.
LEMMA ClaimFrame == ASSUME FrameInv, NEW a \in Context, Claim(a) PROVE FrameInv'
  <1>0. FrameTypeOK
    BY DEF FrameInv
  <1>1. PICK f \in moving[a], k \in Tracker :
          /\ tracker[k] = NoFrame /\ tracker' = [tracker EXCEPT ![k] = f]
          /\ count' = [count EXCEPT ![f] = 1]
          /\ ffault' = (ffault \/ count[f] # 0)
          /\ IF moving[a] = {f} THEN GoTo(a, "idle", {}) ELSE GoTo(a, "publish", moving[a] \ {f})
    BY Zenon DEF Claim
  <1>2. f \in Frame /\ count[f] = 0
    BY <1>0 DEF FrameInv, FrameTypeOK, Places, HandsAlone
  <1>3. /\ \A b \in Context : moving'[b] = IF b = a THEN moving[a] \ {f} ELSE moving[b]
        /\ \A b \in Context : where'[b] = IF b # a THEN where[b]
                                 ELSE IF moving[a] = {f} THEN "idle" ELSE "publish"
        /\ moving' = [moving EXCEPT ![a] = moving[a] \ {f}]
        /\ where' = [where EXCEPT ![a] = IF moving[a] = {f} THEN "idle" ELSE "publish"]
        /\ UNCHANGED <<bump, recycled, fcache>>
    <2>1. moving[a] = {f} => moving[a] \ {f} = {}
      OBVIOUS
    <2>2. /\ moving' = [moving EXCEPT ![a] = moving[a] \ {f}]
          /\ where' = [where EXCEPT ![a] = IF moving[a] = {f} THEN "idle" ELSE "publish"]
      BY <1>1, <2>1 DEF GoTo
    <2>3. UNCHANGED <<bump, recycled, fcache>>
      BY DEF Claim
    <2>. QED
      BY <1>0, <2>2, <2>3 DEF FrameTypeOK
  <1>4. \A g \in Frame : count'[g] = IF g = f THEN 1 ELSE count[g]
    BY <1>0, <1>1, <1>2 DEF FrameTypeOK
  <1>5. ~ffault' /\ ffault' \in BOOLEAN
    BY <1>1, <1>2, Zenon DEF FrameInv
  <1>6. FrameTypeOK'
    <2>1. tracker' \in [Tracker -> Frame \cup {NoFrame}] /\ count' \in [Frame -> Nat]
      BY <1>0, <1>1, <1>2 DEF FrameTypeOK
    <2>2. moving' \in [Context -> SUBSET Frame]
      BY <1>0, <1>3 DEF FrameTypeOK
    <2>3. where' \in [Context -> {"idle", "refill", "claim", "publish", "push", "recycle"}]
      BY <1>0, <1>3 DEF FrameTypeOK
    <2>. QED
      BY <1>0, <1>3, <1>5, <2>1, <2>2, <2>3 DEF FrameTypeOK
  <1>7. \A g : InHands(g)' <=> InHands(g) /\ g # f
    BY <1>1, <1>3 DEF InHands, FrameInv, Places, HandsAlone
  <1>8. \A g : InCaches(g)' <=> InCaches(g)
    BY <1>3 DEF InCaches
  <1>9. f \notin recycled /\ ~InCaches(f) /\ ~(f >= bump)
    BY <1>1, <1>2 DEF FrameInv, Places, FreshAlone, RecycledAlone, CachedAlone, InHands, InCaches
  <1>10. FreshAlone' /\ RecycledAlone'
    BY <1>0, <1>3, <1>4, <1>7, <1>8, <1>9
       DEF FrameInv, Places, FreshAlone, RecycledAlone, FrameTypeOK
  <1>11. CachedAlone'
    BY <1>0, <1>3, <1>4, <1>7, <1>9 DEF FrameInv, Places, CachedAlone, FrameTypeOK, InCaches
  <1>12. HandsAlone'
    BY <1>0, <1>1, <1>3, <1>4 DEF FrameInv, Places, HandsAlone, FrameTypeOK
  <1>13. NoneLost'
    BY <1>3, <1>4, <1>7, <1>8 DEF FrameInv, Places, NoneLost
  <1>14. HandsRight'
    <2>1. moving[a] # {f} => HasCpu(a)
      BY <1>1 DEF Claim, FrameInv, HandsRight
    <2>2. \A b \in Context : b # a => where'[b] = where[b] /\ moving'[b] = moving[b]
      BY <1>3
    <2>3. \/ where'[a] = "publish" /\ HasCpu(a)
          \/ where'[a] = "idle" /\ moving'[a] = {}
      BY <1>3, <2>1
    <2>. QED
      BY <2>2, <2>3 DEF FrameInv, HandsRight, HasCpu
  <1>15. Counts'
    <2>1. \A g \in Frame : Cardinality(Owners(g)') =
            IF g = f THEN Cardinality(Owners(g)) + 1 ELSE Cardinality(Owners(g))
      BY Zenon, <1>0, <1>1, <1>2, TrackerTakes
    <2>. QED
      BY <1>2, <1>4, <2>1 DEF FrameInv, Counts
  <1>. QED
    BY <1>5, <1>6, <1>10, <1>11, <1>12, <1>13, <1>14, <1>15 DEF FrameInv, Places

\* frame_alloc_more owns two adjacent fresh frames at once.
LEMMA AllocMoreFrame == ASSUME FrameInv, NEW a \in Context, AllocMore(a) PROVE FrameInv'
  <1>0. FrameTypeOK /\ Frames \in Nat
    BY FrameAssumption DEF FrameInv
  <1>1. PICK k \in Tracker, l \in Tracker :
          /\ k # l /\ tracker[k] = NoFrame /\ tracker[l] = NoFrame
          /\ bump + 2 <= Frames + 1 /\ bump' = bump + 2
          /\ tracker' = [tracker EXCEPT ![k] = bump, ![l] = bump + 1]
          /\ count' = [count EXCEPT ![bump] = 1, ![bump + 1] = 1]
          /\ ffault' = (ffault \/ count[bump] # 0 \/ count[bump + 1] # 0)
    BY Zenon DEF AllocMore
  <1>2. bump \in Frame /\ bump + 1 \in Frame /\ bump # bump + 1 /\ bump \in Nat
    BY <1>0, <1>1 DEF FrameTypeOK, Frame
  <1>3. UNCHANGED <<recycled, fcache, where, moving>>
    BY DEF AllocMore
  <1>4. count[bump] = 0 /\ count[bump + 1] = 0
    BY <1>2 DEF FrameInv, Places, FreshAlone
  <1>5. \A g \in Frame : count'[g] = IF g = bump \/ g = bump + 1 THEN 1 ELSE count[g]
    BY <1>0, <1>1, <1>2 DEF FrameTypeOK
  <1>6. ~ffault' /\ ffault' \in BOOLEAN
    BY <1>1, <1>4, Zenon DEF FrameInv
  <1>7. FrameTypeOK'
    <2>1. tracker' \in [Tracker -> Frame \cup {NoFrame}] /\ count' \in [Frame -> Nat]
      BY <1>0, <1>1, <1>2 DEF FrameTypeOK
    <2>2. bump' \in 1 .. Frames + 1
      BY <1>0, <1>1, <1>2
    <2>. QED
      BY <1>0, <1>3, <1>6, <2>1, <2>2 DEF FrameTypeOK
  <1>8. \A g \in Frame : /\ g >= bump + 2 => g >= bump /\ g # bump /\ g # bump + 1
                         /\ g >= bump => g = bump \/ g = bump + 1 \/ g >= bump + 2
    <2>1. \A g \in Frame : g \in Nat
      BY DEF Frame
    <2>. QED
      BY <1>2, <2>1
  <1>9. FreshAlone'
    BY Zenon, <1>1, <1>3, <1>5, <1>8 DEF FrameInv, Places, FreshAlone, InCaches, InHands
  <1>10. \A g \in Frame : g \in recycled \/ InCaches(g) \/ InHands(g) =>
                           g # bump /\ g # bump + 1
    BY <1>2 DEF FrameInv, Places, FreshAlone
  <1>11. RecycledAlone' /\ CachedAlone' /\ HandsAlone'
    BY <1>0, <1>3, <1>5, <1>10
       DEF FrameInv, Places, RecycledAlone, CachedAlone, HandsAlone, InCaches, InHands, FrameTypeOK
  <1>12. NoneLost'
    BY <1>1, <1>3, <1>5, <1>8 DEF FrameInv, Places, NoneLost, InCaches, InHands
  <1>13. HandsRight'
    BY Zenon, <1>3 DEF FrameInv, HandsRight, HasCpu
  <1>14. Counts'
    <2>1. Owners(bump) = {} /\ Owners(bump + 1) = {}
      BY <1>2, <1>4, OwnersFinite, FS_EmptySet DEF FrameInv, Counts
    <2>2. \A q \in Tracker : tracker'[q] = IF q = k THEN bump
                                           ELSE IF q = l THEN bump + 1 ELSE tracker[q]
      BY <1>0, <1>1 DEF FrameTypeOK
    <2>3. \A q \in Tracker : tracker[q] # bump /\ tracker[q] # bump + 1
      BY <2>1 DEF Owners
    <2>. SUFFICES ASSUME NEW f \in Frame
                  PROVE  count'[f] = Cardinality({q \in Tracker : tracker'[q] = f})
      BY DEF Counts, Owners
    <2>4. CASE f = bump
      <3>1. {q \in Tracker : tracker'[q] = f} = {k}
        BY <1>2, <2>2, <2>3, <2>4
      <3>. QED
        BY Zenon, <1>5, <2>4, <3>1, FS_Singleton
    <2>5. CASE f = bump + 1
      <3>1. {q \in Tracker : tracker'[q] = f} = {l}
        BY Zenon, <1>1, <1>2, <2>2, <2>3, <2>5
      <3>. QED
        BY Zenon, <1>5, <2>5, <3>1, FS_Singleton
    <2>6. CASE f # bump /\ f # bump + 1
      <3>1. f # NoFrame
        BY DEF Frame, NoFrame
      <3>2. {q \in Tracker : tracker'[q] = f} = Owners(f)
        BY Zenon, <1>1, <2>2, <2>6, <3>1 DEF Owners
      <3>. QED
        BY <1>5, <2>6, <3>2 DEF FrameInv, Counts
    <2>. QED
      BY <2>4, <2>5, <2>6
  <1>. QED
    BY <1>6, <1>7, <1>9, <1>11, <1>12, <1>13, <1>14 DEF FrameInv, Places

\* from_retained adds an owner to a frame that has one.
LEMMA RetainFrame == ASSUME FrameInv, NEW a \in Context, Retain(a) PROVE FrameInv'
  <1>0. FrameTypeOK
    BY DEF FrameInv
  <1>1. PICK k \in Tracker, l \in Tracker :
          /\ tracker[k] # NoFrame /\ tracker[l] = NoFrame
          /\ tracker' = [tracker EXCEPT ![l] = tracker[k]]
          /\ count' = [count EXCEPT ![tracker[k]] = @ + 1]
    BY Zenon DEF Retain
  <1>. DEFINE g == tracker[k]
  <1>2. g \in Frame /\ count[g] >= 1
    BY <1>0, <1>1, OwnedIsCounted DEF FrameInv
  <1>3. UNCHANGED <<bump, recycled, fcache, where, moving, ffault>>
    BY DEF Retain
  <1>4. /\ \A f \in Frame : count'[f] = IF f = g THEN count[f] + 1 ELSE count[f]
        /\ count' \in [Frame -> Nat]
    BY <1>0, <1>1, <1>2 DEF FrameTypeOK
  <1>5. \A f \in Frame : count'[f] = 0 <=> count[f] = 0
    BY <1>0, <1>2, <1>4 DEF FrameTypeOK
  <1>6. FrameTypeOK'
    BY <1>0, <1>1, <1>2, <1>3, <1>4 DEF FrameTypeOK
  <1>7. FreshAlone' /\ RecycledAlone' /\ CachedAlone' /\ HandsAlone' /\ NoneLost'
    BY <1>0, <1>3, <1>5 DEF FrameInv, Places, FreshAlone, RecycledAlone, CachedAlone, HandsAlone,
                            NoneLost, InCaches, InHands, FrameTypeOK
  <1>8. HandsRight'
    BY Zenon, <1>3 DEF FrameInv, HandsRight, HasCpu
  <1>8a. ~ffault'
    BY <1>3, Zenon DEF FrameInv
  <1>9. Counts'
    <2>1. \A f \in Frame : Cardinality(Owners(f)') =
            IF f = g THEN Cardinality(Owners(f)) + 1 ELSE Cardinality(Owners(f))
      BY Zenon, <1>0, <1>1, <1>2, TrackerTakes
    <2>. QED
      BY <1>4, <2>1 DEF FrameInv, Counts
  <1>. QED
    BY <1>6, <1>7, <1>8, <1>8a, <1>9 DEF FrameInv, Places

\* A tracker is dropped; the last one frees the frame.
LEMMA ReleaseFrame == ASSUME FrameInv, NEW a \in Context, Release(a) PROVE FrameInv'
  <1>0. FrameTypeOK /\ moving[a] = {}
    BY DEF FrameInv, Release, HandsRight
  <1>1. PICK k \in Tracker :
          /\ tracker[k] # NoFrame
          /\ tracker' = [tracker EXCEPT ![k] = NoFrame]
          /\ count' = [count EXCEPT ![tracker[k]] = @ - 1]
          /\ IF LastOwner(tracker[k])
             THEN GoTo(a, IF HasCpu(a) THEN "push" ELSE "recycle", {tracker[k]})
             ELSE UNCHANGED <<where, moving>>
    BY Zenon DEF Release
  <1>. DEFINE g == tracker[k]
  <1>2. g \in Frame /\ count[g] >= 1 /\ count[g] \in Nat
    BY <1>0, <1>1, OwnedIsCounted DEF FrameInv, FrameTypeOK
  <1>3. UNCHANGED <<bump, recycled, fcache, ffault>>
    BY DEF Release
  <1>4. /\ \A f \in Frame : count'[f] = IF f = g THEN count[f] - 1 ELSE count[f]
        /\ count' \in [Frame -> Nat]
    BY <1>0, <1>1, <1>2 DEF FrameTypeOK
  <1>5. ~(g >= bump) /\ g \notin recycled /\ ~InCaches(g) /\ ~InHands(g)
    BY <1>0, <1>2 DEF FrameInv, Places, FreshAlone, RecycledAlone, CachedAlone, HandsAlone,
                      InCaches, InHands
  <1>6. \A b \in Context : moving'[b] = IF b = a /\ LastOwner(g) THEN {g} ELSE moving[b]
    BY Zenon, <1>0, <1>1 DEF GoTo, FrameTypeOK
  <1>7. \A f : InHands(f)' <=> InHands(f) \/ (f = g /\ LastOwner(g))
    BY <1>0, <1>6 DEF InHands
  <1>8. \A f : InCaches(f)' <=> InCaches(f)
    BY <1>3 DEF InCaches
  <1>9. count'[g] = 0 <=> LastOwner(g)
    BY <1>2, <1>4 DEF LastOwner
  <1>10. FreshAlone' /\ RecycledAlone'
    BY <1>0, <1>3, <1>4, <1>5, <1>7, <1>8
       DEF FrameInv, Places, FreshAlone, RecycledAlone, FrameTypeOK
  <1>11. CachedAlone'
    BY <1>0, <1>3, <1>4, <1>5, <1>7 DEF FrameInv, Places, CachedAlone, FrameTypeOK, InCaches
  <1>12. HandsAlone'
    <2>1. \A b \in Context : g \notin moving[b]
      BY <1>5 DEF InHands
    <2>. QED
      BY <1>0, <1>4, <1>6, <1>9, <2>1 DEF FrameInv, Places, HandsAlone, FrameTypeOK
  <1>13. NoneLost'
    BY <1>3, <1>4, <1>7, <1>8, <1>9 DEF FrameInv, Places, NoneLost
  <1>14. HandsRight'
    <2>1. CASE LastOwner(g)
      <3>1. \A b \in Context : where'[b] = IF b # a THEN where[b]
                                           ELSE IF HasCpu(a) THEN "push" ELSE "recycle"
        BY <1>0, <1>1, <2>1 DEF GoTo, FrameTypeOK
      <3>2. \A b \in Context : b # a => where'[b] = where[b] /\ moving'[b] = moving[b]
        BY <1>6, <3>1
      <3>3. where'[a] = "recycle" \/ (where'[a] = "push" /\ HasCpu(a))
        BY <3>1
      <3>. QED
        BY Zenon, <3>2, <3>3 DEF FrameInv, HandsRight, HasCpu
    <2>2. CASE ~LastOwner(g)
      BY Zenon, <1>1, <2>2 DEF FrameInv, HandsRight, HasCpu
    <2>. QED
      BY <2>1, <2>2
  <1>15. Counts'
    <2>1. \A f \in Frame : Cardinality(Owners(f)') =
            IF f = g THEN Cardinality(Owners(f)) - 1 ELSE Cardinality(Owners(f))
      BY Zenon, <1>0, <1>1, <1>2, TrackerDrops
    <2>. QED
      BY <1>4, <2>1 DEF FrameInv, Counts
  <1>16. ~ffault' /\ ffault' \in BOOLEAN
    BY <1>3, Zenon DEF FrameInv, FrameTypeOK
  <1>17. FrameTypeOK'
    <2>1. /\ moving' \in [Context -> SUBSET Frame]
          /\ where' \in [Context -> {"idle", "refill", "claim", "publish", "push", "recycle"}]
      BY <1>0, <1>1, <1>2 DEF GoTo, FrameTypeOK
    <2>2. tracker' \in [Tracker -> Frame \cup {NoFrame}]
      BY <1>0, <1>1 DEF FrameTypeOK
    <2>. QED
      BY <1>0, <1>3, <1>4, <1>16, <2>1, <2>2 DEF FrameTypeOK
  <1>. QED
    BY <1>10, <1>11, <1>12, <1>13, <1>14, <1>15, <1>16, <1>17 DEF FrameInv, Places

\* Every step of every context preserves the invariant.
LEMMA StepFrame == FrameInv /\ [FrameNext]_frameVars => FrameInv'
  <1>. SUFFICES ASSUME FrameInv, [FrameNext]_frameVars PROVE FrameInv'
    OBVIOUS
  <1>1. CASE UNCHANGED frameVars
    <2>1. ~ffault' /\ ffault' \in BOOLEAN
      BY <1>1, Zenon DEF frameVars, FrameInv, FrameTypeOK
    <2>2. UNCHANGED <<bump, recycled, fcache, count, tracker, where, moving>>
      BY <1>1 DEF frameVars
    <2>3. FrameTypeOK'
      BY <2>1, <2>2 DEF FrameInv, FrameTypeOK
    <2>4. Places' /\ HandsRight'
      BY ZenonT(40), <2>2 DEF FrameInv, Places, FreshAlone, RecycledAlone, CachedAlone, HandsAlone, NoneLost,
                  HandsRight, InCaches, InHands, HasCpu
    <2>5. Counts'
      BY <2>2, CountsKept DEF FrameInv
    <2>. QED
      BY <2>1, <2>3, <2>4, <2>5 DEF FrameInv
  <1>2. ASSUME NEW a \in Context,
               \/ CacheHit(a) \/ CacheMiss(a) \/ Refill(a) \/ Claim(a) \/ Publish(a)
               \/ AllocMore(a) \/ Retain(a) \/ Release(a) \/ Push(a) \/ Recycle(a)
        PROVE  FrameInv'
    BY <1>2, CacheHitFrame, CacheMissFrame, RefillFrame, ClaimFrame, PublishFrame, AllocMoreFrame,
       RetainFrame, ReleaseFrame, PushFrame, RecycleFrame
  <1>. QED
    BY <1>1, <1>2 DEF FrameNext

\* The invariant gives one free owner to a frame without trackers, and none to the others.
LEMMA InvIsExact == FrameInv => FramesExact
  <1>. SUFFICES ASSUME FrameInv, NEW f \in Frame
                PROVE  Cardinality(FreeIn(f)) = IF count[f] = 0 THEN 1 ELSE 0
    BY DEF FramesExact, FrameInv, Counts
  <1>1. CASE count[f] # 0
    <2>1. ~(f >= bump) /\ f \notin recycled /\ ~InCaches(f) /\ ~InHands(f)
      BY <1>1 DEF FrameInv, Places, FreshAlone, RecycledAlone, CachedAlone, HandsAlone,
                  InCaches, InHands
    <2>2. FreeIn(f) = {}
      BY <2>1 DEF FreeIn, InCaches, InHands
    <2>. QED
      BY <1>1, <2>2, FS_EmptySet
  <1>2. ASSUME count[f] = 0, f >= bump PROVE FreeIn(f) = {<<"bump">>}
    <2>1. f \notin recycled /\ ~InCaches(f) /\ ~InHands(f)
      BY <1>2 DEF FrameInv, Places, FreshAlone
    <2>. QED
      BY <1>2, <2>1 DEF FreeIn, InCaches, InHands
  <1>3. ASSUME count[f] = 0, ~(f >= bump), f \in recycled PROVE FreeIn(f) = {<<"recycled">>}
    <2>1. ~InCaches(f) /\ ~InHands(f)
      BY <1>3 DEF FrameInv, Places, RecycledAlone
    <2>. QED
      BY <1>3, <2>1 DEF FreeIn, InCaches, InHands
  <1>4. ASSUME count[f] = 0, ~(f >= bump), f \notin recycled, InCaches(f)
        PROVE  \E x : FreeIn(f) = {x}
    <2>1. PICK c \in FrameCpu : f \in fcache[c]
      BY <1>4 DEF InCaches
    <2>2. ~InHands(f) /\ \A d \in FrameCpu : f \in fcache[d] <=> c = d
      BY <2>1 DEF FrameInv, Places, CachedAlone
    <2>3. FreeIn(f) = {<<"cache", c>>}
      BY <1>4, <2>1, <2>2 DEF FreeIn, InHands
    <2>. QED
      BY Zenon, <2>3
  <1>5. ASSUME count[f] = 0, ~(f >= bump), f \notin recycled, ~InCaches(f)
        PROVE  \E x : FreeIn(f) = {x}
    <2>1. PICK a \in Context : f \in moving[a]
      BY <1>5 DEF FrameInv, Places, NoneLost, InHands
    <2>2. \A b \in Context : f \in moving[b] <=> a = b
      BY <2>1 DEF FrameInv, Places, HandsAlone
    <2>3. FreeIn(f) = {<<"moving", a>>}
      BY <1>5, <2>1, <2>2 DEF FreeIn, InCaches
    <2>. QED
      BY Zenon, <2>3
  <1>6. CASE count[f] = 0
    <2>1. PICK x : FreeIn(f) = {x}
      BY Zenon, <1>2, <1>3, <1>4, <1>5, <1>6
    <2>. QED
      BY <1>6, <2>1, FS_Singleton
  <1>. QED
    BY <1>1, <1>6

(***************************************************************************)
(* FRAME_REF_COUNTS counts the FrameTrackers of every frame, and a frame   *)
(* without one is in exactly one of the bump range, the recycled frames,   *)
(* a CPU's cache and the hands of a context that moves it: alloc_frame_ppn *)
(* never hands a frame out twice, FrameTracker::drop never frees one that  *)
(* is still owned, no interleaving of refills and drains loses one, and no *)
(* assertion of claim_free, release and recycle fails.                     *)
(***************************************************************************)
THEOREM FramesNeverShared == FrameSpec => []FramesExact
  BY InitFrame, StepFrame, InvIsExact, PTL DEF FrameSpec
=============================================================================
