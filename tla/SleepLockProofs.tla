--------------------------- MODULE SleepLockProofs ---------------------------
(***************************************************************************)
(* Proofs about the sleeping lock, for any finite set of threads.          *)
(***************************************************************************)
EXTENDS SleepLock, FiniteSetTheorems, TLAPS

-----------------------------------------------------------------------------
(***************************************************************************)
(* Whatever signals and exits do, the threads inside lock() or the section *)
(* it protects are as many as the queue entries plus the lock itself:      *)
(* every unlock() gives back exactly what one lock() took.                 *)
(***************************************************************************)
Busy == {t \in Thread : pc[t] # "idle"}
Balance == Cardinality(Busy) = Len(waitQueue) + (IF locked THEN 1 ELSE 0)
QueuedIsLocked == waitQueue # <<>> => locked
CInv == Types /\ Balance /\ QueuedIsLocked

\* The set of busy threads is finite.
LEMMA BusyFinite == IsFiniteSet(Busy)
  <1>1. Busy \subseteq Thread
    BY DEF Busy
  <1>. QED
    BY <1>1, ThreadAssumption, FS_Subset

\* A thread that enters lock() adds one to the busy ones.
LEMMA BusyGrows ==
  ASSUME Types, NEW t \in Thread, pc[t] = "idle",
         NEW v \in {"waiting", "critical"}, pc' = [pc EXCEPT ![t] = v]
  PROVE  Cardinality(Busy') = Cardinality(Busy) + 1
  <1>1. Busy' = Busy \cup {t}
    BY DEF Busy, Types
  <1>2. t \notin Busy
    BY DEF Busy
  <1>. QED
    BY <1>1, <1>2, BusyFinite, FS_AddElement

\* A thread that unlocks takes one away.
LEMMA BusyShrinks ==
  ASSUME Types, NEW t \in Thread, pc[t] = "critical", pc' = [pc EXCEPT ![t] = "idle"]
  PROVE  Cardinality(Busy') = Cardinality(Busy) - 1
  <1>1. Busy' = Busy \ {t}
    BY DEF Busy, Types
  <1>2. t \in Busy
    BY DEF Busy
  <1>. QED
    BY <1>1, <1>2, BusyFinite, FS_RemoveElement

\* The counting invariant holds initially.
LEMMA InitCInv == Init => CInv
  <1>. SUFFICES ASSUME Init PROVE CInv
    OBVIOUS
  <1>0. waitQueue \in Seq(Thread)
    BY DEF Init
  <1>1. Types /\ QueuedIsLocked
    BY Zenon, <1>0 DEF Init, Types, QueuedIsLocked
  <1>2. Busy = {}
    BY DEF Init, Busy
  <1>3. Cardinality(Busy) = 0 /\ Len(waitQueue) = 0 /\ ~locked
    BY <1>2, FS_EmptySet DEF Init
  <1>. QED
    BY <1>1, <1>3 DEF CInv, Balance

\* Every step preserves the counting invariant.
LEMMA StepCInv == CInv /\ [Next]_vars => CInv'
  <1>. SUFFICES ASSUME CInv, [Next]_vars PROVE CInv'
    OBVIOUS
  <1>0. Types /\ Balance /\ QueuedIsLocked /\ Cardinality(Busy) \in Nat
    BY BusyFinite, FS_CardinalityType DEF CInv
  <1>u. ASSUME UNCHANGED <<pc, locked, waitQueue>>, Types' PROVE CInv'
    BY <1>0, <1>u DEF CInv, Balance, QueuedIsLocked, Busy
  <1>1. ASSUME NEW t \in Thread, Lock(t) PROVE CInv'
    <2>1. CASE locked
      <3>1. Cardinality(Busy') = Cardinality(Busy) + 1
        BY <1>0, <1>1, <2>1, BusyGrows DEF Lock
      <3>2. Len(waitQueue') = Len(waitQueue) + 1 /\ locked' = locked
        BY <1>0, <1>1, <2>1 DEF Lock, Types
      <3>a. waitQueue' \in Seq(Thread)
        BY SMTT(30), <1>0, <1>1, <2>1 DEF Lock, Types
      <3>b. pc' \in [Thread -> {"idle", "waiting", "critical"}]
        BY <1>0, <1>1, <2>1 DEF Lock, Types
      <3>c. status' \in [Thread -> {"Runnable", "Blocked", "Exited"}]
        BY <1>0, <1>1, <2>1 DEF Lock, Types
      <3>3. Types'
        BY <1>0, <1>1, <2>1, <3>a, <3>b, <3>c DEF Lock, Types
      <3>. QED
        BY <1>0, <2>1, <3>1, <3>2, <3>3 DEF CInv, Balance, QueuedIsLocked, Types
    <2>2. CASE ~locked
      <3>1. Cardinality(Busy') = Cardinality(Busy) + 1
        BY <1>0, <1>1, <2>2, BusyGrows DEF Lock
      <3>2. waitQueue' = waitQueue /\ locked' = TRUE
        BY <1>1, <2>2 DEF Lock
      <3>3. Types'
        BY <1>0, <1>1, <2>2 DEF Lock, Types
      <3>. QED
        BY <1>0, <2>2, <3>1, <3>2, <3>3 DEF CInv, Balance, QueuedIsLocked, Types
    <2>. QED
      BY <2>1, <2>2
  <1>2. ASSUME NEW t \in Thread, TryLock(t) PROVE CInv'
    <2>1. Cardinality(Busy') = Cardinality(Busy) + 1
      BY Zenon, <1>0, <1>2, BusyGrows DEF TryLock
    <2>2. waitQueue' = waitQueue /\ locked' = TRUE /\ ~locked
      BY <1>2 DEF TryLock
    <2>3. Types'
      BY <1>0, <1>2 DEF TryLock, Types
    <2>. QED
      BY <1>0, <2>1, <2>2, <2>3 DEF CInv, Balance, QueuedIsLocked, Types
  <1>3. ASSUME NEW t \in Thread, Resume(t) PROVE CInv'
    <2>1. Busy' = Busy
      BY <1>0, <1>3 DEF Resume, Busy, Types
    <2>2. Types' /\ UNCHANGED <<locked, waitQueue>>
      BY <1>0, <1>3 DEF Resume, Types
    <2>. QED
      BY <1>0, <2>1, <2>2 DEF CInv, Balance, QueuedIsLocked
  <1>4. ASSUME NEW t \in Thread, Unlock(t) PROVE CInv'
    <2>0. Cardinality(Busy') = Cardinality(Busy) - 1
      BY Zenon, <1>0, <1>4, BusyShrinks DEF Unlock
    <2>1. CASE waitQueue # <<>>
      <3>1. Len(waitQueue') = Len(waitQueue) - 1 /\ locked' = locked
        BY <1>0, <1>4, <2>1 DEF Unlock, Types
      <3>2. Head(waitQueue) \in Thread /\ Tail(waitQueue) \in Seq(Thread)
        BY <1>0, <2>1 DEF Types
      <3>3. Types'
        BY Zenon, <1>0, <1>4, <2>1, <3>2 DEF Unlock, Types
      <3>. QED
        BY <1>0, <2>0, <2>1, <3>1, <3>3 DEF CInv, Balance, QueuedIsLocked, Types
    <2>2. CASE waitQueue = <<>>
      <3>1. waitQueue' = waitQueue /\ locked' = FALSE
        BY <1>4, <2>2 DEF Unlock
      <3>2. Types'
        BY Zenon, <1>0, <1>4, <2>2 DEF Unlock, Types
      <3>3. t \in Busy
        BY <1>4 DEF Unlock, Busy
      <3>4. Cardinality(Busy) # 0
        BY <3>3, BusyFinite, FS_EmptySet
      <3>. QED
        BY <1>0, <2>0, <2>2, <3>1, <3>2, <3>4 DEF CInv, Balance, QueuedIsLocked, Types
    <2>. QED
      BY <2>1, <2>2
  <1>5. ASSUME NEW t \in Thread, Wake(t) PROVE CInv'
    <2>1. Types'
      BY <1>0, <1>5 DEF Wake, Types
    <2>. QED
      BY <1>5, <1>u, <2>1 DEF Wake
  <1>6. ASSUME NEW t \in Thread, Signal(t) \/ Terminate(t) PROVE CInv'
    <2>1. Types'
      BY <1>0, <1>6 DEF Signal, Terminate, Types
    <2>. QED
      BY <1>6, <1>u, <2>1 DEF Signal, Terminate
  <1>7. CASE UNCHANGED vars
    BY <1>0, <1>7, <1>u DEF vars, Types
  <1>. QED
    BY <1>1, <1>2, <1>3, <1>4, <1>5, <1>6, <1>7 DEF Next, Step

\* The counting invariant holds in every reachable state.
THEOREM Counting == Spec => []CInv
  <1>. QED
    BY InitCInv, StepCInv, PTL DEF Spec

\* unlock() never finds the lock free, whatever signals and exits did: its
\* assertion "raw sleeping lock released without ownership" cannot fail.
THEOREM OwnershipReleased == Spec => []ReleasedWithOwnership
  <1>1. CInv => ReleasedWithOwnership
    <2>. SUFFICES ASSUME CInv, NEW t \in Thread, pc[t] = "critical", ~locked
                  PROVE  FALSE
      BY DEF ReleasedWithOwnership
    <2>1. waitQueue = <<>>
      BY DEF CInv, QueuedIsLocked
    <2>2. Cardinality(Busy) = 0
      BY <2>1 DEF CInv, Balance
    <2>3. t \in Busy
      BY DEF Busy
    <2>. QED
      BY <2>2, <2>3, BusyFinite, FS_EmptySet
  <1>. QED
    BY <1>1, Counting, PTL

\* The state of the lock keeps its types, and its queue never outgrows the set
\* of threads.
THEOREM TypeCorrect == Spec => []TypeOK
  <1>1. CInv => TypeOK
    <2>. SUFFICES ASSUME CInv PROVE TypeOK
      OBVIOUS
    <2>1. Busy \subseteq Thread
      BY DEF Busy
    <2>2. Cardinality(Busy) <= Cardinality(Thread)
      BY <2>1, ThreadAssumption, FS_Subset
    <2>3. Cardinality(Busy) \in Nat /\ Cardinality(Thread) \in Nat
      BY BusyFinite, ThreadAssumption, FS_CardinalityType
    <2>. QED
      BY <2>2, <2>3 DEF CInv, Balance, TypeOK, Types
  <1>. QED
    BY <1>1, Counting, PTL

-----------------------------------------------------------------------------
(***************************************************************************)
(* Until a signal wakes a waiter, a waiter returns from schedule() only    *)
(* when the lock was handed to it; then the lock has one holder, which is  *)
(* what FIFO handoff and mutual exclusion rest on.                         *)
(***************************************************************************)
Distinct == \A i, j \in DOMAIN waitQueue : waitQueue[i] = waitQueue[j] => i = j
QueuedWait == \A t \in Thread : InQueue(t) => pc[t] = "waiting" /\ status[t] # "Runnable"
OneHolder == \A t, u \in Thread : Holds(t) /\ Holds(u) => t = u
LockedIsHeld == locked <=> \E t \in Thread : Holds(t)
Handed ==
    \A t \in Thread : waking[t] # NoThread =>
        pc[waking[t]] = "waiting" /\ ~InQueue(waking[t]) /\ status[waking[t]] # "Runnable"
OneWaker == \A t, u \in Thread : waking[t] = waking[u] /\ waking[t] # NoThread => t = u
MInv == /\ Types /\ QueuedIsLocked /\ Distinct /\ QueuedWait
        /\ OneHolder /\ LockedIsHeld /\ Handed /\ OneWaker

\* Joining the queue adds one member at its end.
LEMMA AppendMembers ==
  ASSUME NEW q \in Seq(Thread), NEW t \in Thread
  PROVE  \A u : (\E i \in DOMAIN Append(q, t) : Append(q, t)[i] = u)
                   <=> (u = t \/ \E i \in DOMAIN q : q[i] = u)
  <1>. DEFINE r == Append(q, t)
  <1>1. DOMAIN q = 1 .. Len(q) /\ DOMAIN r = 1 .. (Len(q) + 1) /\ Len(q) \in Nat
    OBVIOUS
  <1>2. r[Len(q) + 1] = t /\ \A i \in 1 .. Len(q) : r[i] = q[i]
    OBVIOUS
  <1>. HIDE DEF r
  <1>3. \A u : (\E i \in DOMAIN r : r[i] = u) <=> (u = t \/ \E i \in DOMAIN q : q[i] = u)
    BY <1>1, <1>2
  <1>. QED
    BY Zenon, <1>3 DEF r

\* A new member leaves the queue free of duplicates.
LEMMA AppendDistinct ==
  ASSUME NEW q \in Seq(Thread), NEW t \in Thread, NEW r, r = Append(q, t),
         \A i, j \in DOMAIN q : q[i] = q[j] => i = j,
         ~ \E i \in DOMAIN q : q[i] = t
  PROVE  \A i, j \in DOMAIN r : r[i] = r[j] => i = j
  <1>1. DOMAIN q = 1 .. Len(q) /\ DOMAIN r = 1 .. (Len(q) + 1) /\ Len(q) \in Nat
    OBVIOUS
  <1>2. r[Len(q) + 1] = t /\ \A i \in 1 .. Len(q) : r[i] = q[i]
    OBVIOUS
  <1>. QED
    BY <1>1, <1>2

\* Taking the head off a queue without duplicates removes that thread and no
\* other.
LEMMA TailMembers ==
  ASSUME NEW q \in Seq(Thread), q # <<>>, NEW u, NEW r, r = Tail(q),
         \A i, j \in DOMAIN q : q[i] = q[j] => i = j
  PROVE  /\ (\E i \in DOMAIN r : r[i] = u) <=> (u # Head(q) /\ \E i \in DOMAIN q : q[i] = u)
         /\ \A i, j \in DOMAIN r : r[i] = r[j] => i = j
         /\ r \in Seq(Thread) /\ Head(q) \in Thread /\ \E i \in DOMAIN q : q[i] = Head(q)
  <1>1. /\ DOMAIN q = 1 .. Len(q) /\ Len(q) \in Nat \ {0} /\ r \in Seq(Thread)
        /\ DOMAIN r = 1 .. (Len(q) - 1) /\ Head(q) = q[1]
    OBVIOUS
  <1>2. \A i \in DOMAIN r : r[i] = q[i + 1]
    OBVIOUS
  <1>3. \A i \in DOMAIN q : i # 1 => i - 1 \in DOMAIN r /\ r[i - 1] = q[i]
    BY <1>1, <1>2
  <1>4. \A i \in DOMAIN r : i + 1 \in DOMAIN q /\ i + 1 # 1
    BY <1>1
  <1>5. ASSUME NEW i \in DOMAIN r, r[i] = u PROVE u # Head(q) /\ \E k \in DOMAIN q : q[k] = u
    BY <1>1, <1>2, <1>4, <1>5
  <1>6. ASSUME u # Head(q), NEW i \in DOMAIN q, q[i] = u PROVE \E k \in DOMAIN r : r[k] = u
    BY Zenon, <1>1, <1>3, <1>6
  <1>7. \A i, j \in DOMAIN r : r[i] = r[j] => i = j
    BY <1>1, <1>2, <1>4
  <1>. QED
    BY <1>1, <1>5, <1>6, <1>7

\* The invariant of the undisturbed lock holds initially.
LEMMA InitMInv == Init => MInv
  <1>. SUFFICES ASSUME Init PROVE MInv
    OBVIOUS
  <1>1. Types /\ QueuedIsLocked
    BY InitCInv DEF CInv
  <1>2. \A t : ~InQueue(t)
    BY DEF Init, InQueue
  <1>3. \A t \in Thread : ~Holds(t)
    BY DEF Init, Holds
  <1>4. \A t \in Thread : waking[t] = NoThread
    BY DEF Init
  <1>5. Distinct
    BY DEF Init, Distinct
  <1>6. LockedIsHeld
    BY <1>3 DEF Init, LockedIsHeld
  <1>. QED
    BY <1>1, <1>2, <1>3, <1>4, <1>5, <1>6 DEF MInv, QueuedWait, OneHolder, Handed, OneWaker

\* lock() on a held lock keeps the invariant: the caller joins the queue.
LEMMA BlockMInv ==
  ASSUME MInv, CInv', NEW t \in Thread, Lock(t), locked
  PROVE  MInv' /\ ~InQueue(t) /\ ~Holds(t) /\ \A u \in Thread : Holds(u)' <=> Holds(u)
  <1>0. /\ Types /\ Distinct /\ QueuedWait /\ OneHolder /\ LockedIsHeld /\ Handed /\ OneWaker
        /\ Types' /\ QueuedIsLocked'
    BY DEF MInv, CInv
  <1>1. /\ pc[t] = "idle" /\ pc' = [pc EXCEPT ![t] = "waiting"]
        /\ status' = [status EXCEPT ![t] = "Blocked"]
        /\ waitQueue' = Append(waitQueue, t) /\ locked' = locked /\ waking' = waking
    BY DEF Lock
  <1>2. ~InQueue(t)
    BY <1>0, <1>1 DEF QueuedWait
  <1>3. \A u \in Thread : InQueue(u)' <=> (u = t \/ InQueue(u))
    <2>. DEFINE r == Append(waitQueue, t)
    <2>1. waitQueue \in Seq(Thread)
      BY <1>0 DEF Types
    <2>2. \A u : (\E i \in DOMAIN r : r[i] = u) <=> (u = t \/ \E i \in DOMAIN waitQueue : waitQueue[i] = u)
      BY <2>1, AppendMembers, Zenon
    <2>. HIDE DEF r
    <2>3. waitQueue' = r
      BY <1>1 DEF r
    <2>. QED
      BY <2>2, <2>3 DEF InQueue
  <1>4. Distinct'
    BY <1>0, <1>1, <1>2, AppendDistinct DEF InQueue, Types, Distinct
  <1>5. \A u \in Thread : Holds(u)' <=> Holds(u)
    BY <1>0, <1>1, <1>3 DEF Holds, Types
  <1>6. QueuedWait'
    BY <1>0, <1>1, <1>3 DEF QueuedWait, Types
  <1>7. OneHolder' /\ LockedIsHeld'
    BY <1>0, <1>1, <1>5 DEF OneHolder, LockedIsHeld
  <1>8. Handed'
    <2>. SUFFICES ASSUME NEW u \in Thread, waking[u] # NoThread
                  PROVE  /\ pc'[waking[u]] = "waiting" /\ ~InQueue(waking[u])'
                         /\ status'[waking[u]] # "Runnable"
      BY <1>1 DEF Handed
    <2>1. /\ waking[u] \in Thread /\ waking[u] # t /\ ~InQueue(waking[u])
          /\ pc[waking[u]] = "waiting" /\ status[waking[u]] # "Runnable"
      BY <1>0, <1>1 DEF Handed, Types
    <2>. QED
      BY <1>0, <1>1, <1>3, <2>1 DEF Types
  <1>9. OneWaker'
    BY <1>0, <1>1 DEF OneWaker
  <1>. QED
    BY <1>0, <1>1, <1>2, <1>4, <1>5, <1>6, <1>7, <1>8, <1>9 DEF MInv, Holds

\* lock() or try_lock() on a free lock keeps it: the caller becomes the holder.
LEMMA TakeMInv ==
  ASSUME MInv, CInv', NEW t \in Thread, Lock(t) \/ TryLock(t), ~locked
  PROVE  /\ MInv' /\ ~InQueue(t)
         /\ \A u \in Thread : ~Holds(u) /\ (Holds(u)' <=> u = t)
  <1>0. /\ Types /\ Distinct /\ QueuedWait /\ OneHolder /\ LockedIsHeld /\ Handed /\ OneWaker
        /\ QueuedIsLocked /\ Types' /\ QueuedIsLocked'
    BY DEF MInv, CInv
  <1>1. /\ pc[t] = "idle" /\ pc' = [pc EXCEPT ![t] = "critical"] /\ locked' = TRUE
        /\ UNCHANGED <<status, waitQueue, waking>>
    BY DEF Lock, TryLock
  <1>2. \A u : InQueue(u)' <=> InQueue(u)
    BY <1>1 DEF InQueue
  <1>3. \A u \in Thread : ~Holds(u)
    BY <1>0 DEF LockedIsHeld
  <1>4. \A u \in Thread : Holds(u)' <=> u = t
    BY <1>0, <1>1, <1>2, <1>3 DEF Holds, Types
  <1>5. \A u \in Thread : ~InQueue(u)
    BY <1>0 DEF QueuedIsLocked, InQueue, Types
  <1>6. \A u \in Thread : waking[u] = NoThread
    BY <1>0, <1>3 DEF Handed, Holds, Types
  <1>7. Distinct'
    BY <1>0, <1>1 DEF Distinct
  <1>8. OneHolder' /\ LockedIsHeld'
    BY <1>1, <1>4 DEF OneHolder, LockedIsHeld
  <1>9. QueuedWait' /\ Handed' /\ OneWaker'
    BY <1>1, <1>2, <1>5, <1>6 DEF QueuedWait, Handed, OneWaker
  <1>. QED
    BY <1>0, <1>3, <1>4, <1>5, <1>7, <1>8, <1>9 DEF MInv

\* A waiter that returns from schedule() was the holder already.
LEMMA ResumeMInv ==
  ASSUME MInv, CInv', NEW t \in Thread, Resume(t)
  PROVE  MInv' /\ \A u \in Thread : Holds(u)' <=> Holds(u)
  <1>0. /\ Types /\ Distinct /\ QueuedWait /\ OneHolder /\ LockedIsHeld /\ Handed /\ OneWaker
        /\ Types' /\ QueuedIsLocked'
    BY DEF MInv, CInv
  <1>1. /\ pc[t] = "waiting" /\ status[t] = "Runnable" /\ pc' = [pc EXCEPT ![t] = "critical"]
        /\ UNCHANGED <<locked, status, waitQueue, waking>>
    BY DEF Resume, Runs
  <1>2. \A u : InQueue(u)' <=> InQueue(u)
    BY <1>1 DEF InQueue
  <1>3. ~InQueue(t)
    BY <1>0, <1>1 DEF QueuedWait
  <1>4. \A u \in Thread : Holds(u)' <=> Holds(u)
    BY <1>0, <1>1, <1>2, <1>3 DEF Holds, Types
  <1>5. Distinct'
    BY <1>0, <1>1 DEF Distinct
  <1>6. OneHolder' /\ LockedIsHeld'
    BY <1>0, <1>1, <1>4 DEF OneHolder, LockedIsHeld
  <1>7. QueuedWait'
    BY <1>0, <1>1, <1>2, <1>3 DEF QueuedWait, Types
  <1>8. Handed'
    <2>. SUFFICES ASSUME NEW u \in Thread, waking[u] # NoThread
                  PROVE  /\ pc'[waking[u]] = "waiting" /\ ~InQueue(waking[u])'
                         /\ status[waking[u]] # "Runnable"
      BY <1>1 DEF Handed
    <2>1. /\ waking[u] \in Thread /\ waking[u] # t /\ ~InQueue(waking[u])
          /\ pc[waking[u]] = "waiting" /\ status[waking[u]] # "Runnable"
      BY <1>0, <1>1 DEF Handed, Types
    <2>. QED
      BY <1>0, <1>1, <1>2, <2>1 DEF Types
  <1>9. OneWaker'
    BY <1>0, <1>1 DEF OneWaker
  <1>. QED
    BY <1>0, <1>4, <1>5, <1>6, <1>7, <1>8, <1>9 DEF MInv

\* unlock() passes ownership to the head of the queue, or frees the lock; until
\* then no wakeup is outstanding.
LEMMA UnlockMInv ==
  ASSUME MInv, CInv', NEW t \in Thread, Unlock(t)
  PROVE  /\ MInv' /\ Holds(t)
         /\ waitQueue # <<>> => /\ Head(waitQueue) \in Thread
                                /\ \A h \in Thread : h = Head(waitQueue) => Holds(h)'
         /\ waitQueue = <<>> => \A u \in Thread : ~Holds(u)'
  <1>0. /\ Types /\ Distinct /\ QueuedWait /\ OneHolder /\ LockedIsHeld /\ Handed /\ OneWaker
        /\ Types' /\ QueuedIsLocked'
    BY DEF MInv, CInv
  <1>1. /\ pc[t] = "critical" /\ pc' = [pc EXCEPT ![t] = "idle"] /\ status' = status
    BY DEF Unlock
  <1>2. \A u \in Thread : Holds(u) <=> u = t
    BY <1>0, <1>1 DEF OneHolder, Holds
  <1>3. \A u \in Thread : waking[u] = NoThread
    BY <1>0, <1>1, <1>2 DEF Handed, Holds, Types
  <1>4. CASE waitQueue # <<>>
    <2>. DEFINE h == Head(waitQueue)
    <2>1. /\ waitQueue' = Tail(waitQueue) /\ locked' = locked
          /\ waking' = [waking EXCEPT ![t] = h]
      BY <1>4 DEF Unlock
    <2>a. ASSUME NEW u PROVE /\ InQueue(u)' <=> (u # h /\ InQueue(u))
                             /\ Distinct' /\ h \in Thread /\ InQueue(h)
      <3>1. waitQueue \in Seq(Thread)
        BY <1>0 DEF Types
      <3>2. \A i, j \in DOMAIN waitQueue : waitQueue[i] = waitQueue[j] => i = j
        BY <1>0 DEF Distinct
      <3>. DEFINE r == Tail(waitQueue)
      <3>3. /\ (\E i \in DOMAIN r : r[i] = u) <=> (u # h /\ \E i \in DOMAIN waitQueue : waitQueue[i] = u)
            /\ \A i, j \in DOMAIN r : r[i] = r[j] => i = j
            /\ h \in Thread /\ \E i \in DOMAIN waitQueue : waitQueue[i] = h
        BY <1>4, <3>1, <3>2, TailMembers, Zenon
      <3>. HIDE DEF h, r
      <3>4. waitQueue' = r
        BY <2>1 DEF r
      <3>. QED
        BY <3>3, <3>4 DEF InQueue, Distinct
    <2>2. /\ \A u \in Thread : InQueue(u)' <=> (u # h /\ InQueue(u))
          /\ Distinct' /\ h \in Thread /\ InQueue(h)
      BY <2>a
    <2>3. pc[h] = "waiting" /\ status[h] # "Runnable" /\ h # t
      BY <1>0, <1>1, <2>2 DEF QueuedWait
    <2>. HIDE DEF h
    <2>4. \A u \in Thread : Holds(u)' <=> u = h
      BY <1>0, <1>1, <1>2, <2>2, <2>3 DEF Holds, Types
    <2>5. locked
      BY <1>0, <1>2 DEF LockedIsHeld
    <2>6. OneHolder' /\ LockedIsHeld'
      BY <2>1, <2>2, <2>4, <2>5 DEF OneHolder, LockedIsHeld
    <2>7. QueuedWait'
      BY <1>0, <1>1, <2>2 DEF QueuedWait, Types
    <2>8. \A u \in Thread : waking'[u] = IF u = t THEN h ELSE NoThread
      BY <1>0, <1>3, <2>1 DEF Types
    <2>9. Handed' /\ OneWaker'
      BY <1>0, <1>1, <2>2, <2>3, <2>8 DEF Handed, OneWaker, Types
    <2>. QED
      BY <1>0, <1>2, <1>4, <2>2, <2>4, <2>6, <2>7, <2>9 DEF MInv, h
  <1>5. CASE waitQueue = <<>>
    <2>1. locked' = FALSE /\ UNCHANGED <<waitQueue, waking>>
      BY <1>5 DEF Unlock
    <2>2. \A u \in Thread : ~InQueue(u) /\ ~InQueue(u)'
      BY <1>5, <2>1 DEF InQueue
    <2>3. \A u \in Thread : ~Holds(u)'
      BY <1>0, <1>1, <1>2, <2>2 DEF Holds, Types
    <2>4. Distinct'
      BY <1>0, <2>1 DEF Distinct
    <2>5. OneHolder' /\ LockedIsHeld'
      BY <2>1, <2>3 DEF OneHolder, LockedIsHeld
    <2>6. QueuedWait' /\ Handed' /\ OneWaker'
      BY <1>3, <2>1, <2>2 DEF QueuedWait, Handed, OneWaker
    <2>. QED
      BY <1>0, <1>2, <1>5, <2>3, <2>4, <2>5, <2>6 DEF MInv
  <1>. QED
    BY <1>4, <1>5

\* A wakeup and an exit change only whether threads can run.
LEMMA StatusMInv ==
  ASSUME MInv, CInv', NEW t \in Thread, Wake(t) \/ Terminate(t)
  PROVE  MInv' /\ \A u \in Thread : Holds(u)' <=> Holds(u)
  <1>0. /\ Types /\ Distinct /\ QueuedWait /\ OneHolder /\ LockedIsHeld /\ Handed /\ OneWaker
        /\ Types' /\ QueuedIsLocked'
    BY DEF MInv, CInv
  <1>1. UNCHANGED <<locked, waitQueue, pc>>
    BY DEF Wake, Terminate
  <1>2. \A u : InQueue(u)' <=> InQueue(u)
    BY <1>1 DEF InQueue
  <1>3. \A u \in Thread : Holds(u)' <=> Holds(u)
    BY <1>1, <1>2 DEF Holds
  <1>4. Distinct'
    BY <1>0, <1>1 DEF Distinct
  <1>5. OneHolder' /\ LockedIsHeld'
    BY <1>0, <1>1, <1>3 DEF OneHolder, LockedIsHeld
  <1>6. CASE Wake(t)
    <2>1. /\ waking[t] \in Thread /\ waking[t] # NoThread /\ ~InQueue(waking[t])
          /\ waking' = [waking EXCEPT ![t] = NoThread]
          /\ \A u \in Thread : u # waking[t] => status'[u] = status[u]
      BY <1>0, <1>6 DEF Wake, Handed, Types
    <2>2. QueuedWait'
      BY <1>0, <1>1, <1>2, <2>1 DEF QueuedWait
    <2>3. \A u \in Thread : waking'[u] = IF u = t THEN NoThread ELSE waking[u]
      BY <1>0, <2>1 DEF Types
    <2>4. Handed'
      <3>. SUFFICES ASSUME NEW u \in Thread, waking'[u] # NoThread
                    PROVE  /\ pc'[waking'[u]] = "waiting" /\ ~InQueue(waking[u])'
                           /\ status'[waking'[u]] # "Runnable"
        BY DEF Handed
      <3>1. waking'[u] = waking[u] /\ waking[u] # waking[t] /\ waking[u] \in Thread
        BY <1>0, <2>1, <2>3 DEF OneWaker, Types
      <3>. QED
        BY <1>0, <1>1, <1>2, <2>1, <2>3, <3>1 DEF Handed
    <2>5. OneWaker'
      BY <1>0, <2>3 DEF OneWaker
    <2>. QED
      BY <1>0, <1>3, <1>4, <1>5, <2>2, <2>4, <2>5 DEF MInv
  <1>7. CASE Terminate(t)
    <2>1. /\ waking' = waking
          /\ \A u \in Thread : status[u] # "Runnable" => status'[u] # "Runnable"
      BY <1>0, <1>7 DEF Terminate, Types
    <2>2. QueuedWait' /\ OneWaker'
      BY <1>0, <1>1, <1>2, <2>1 DEF QueuedWait, OneWaker
    <2>3. Handed'
      BY <1>0, <1>1, <1>2, <2>1 DEF Handed, Types
    <2>. QED
      BY <1>0, <1>3, <1>4, <1>5, <2>2, <2>3 DEF MInv
  <1>. QED
    BY <1>6, <1>7

\* Every step that leaves the lock unsignalled preserves the invariant.
LEMMA StepMInv ==
  ASSUME MInv, CInv, [Next]_vars, ~signalled'
  PROVE  MInv'
  <1>0. CInv'
    BY StepCInv
  <1>1. ASSUME NEW t \in Thread, Step(t) \/ Signal(t) \/ Terminate(t) PROVE MInv'
    <2>1. CASE Lock(t)
      BY <1>0, <2>1, BlockMInv, TakeMInv
    <2>2. CASE TryLock(t)
      <3>1. ~locked
        BY <2>2 DEF TryLock
      <3>. QED
        BY <1>0, <2>2, <3>1, TakeMInv
    <2>3. CASE Resume(t)
      BY <1>0, <2>3, ResumeMInv
    <2>4. CASE Unlock(t)
      BY <1>0, <2>4, UnlockMInv
    <2>5. CASE Wake(t) \/ Terminate(t)
      BY <1>0, <2>5, StatusMInv
    <2>6. ~Signal(t)
      BY DEF Signal
    <2>. QED
      BY <1>1, <2>1, <2>2, <2>3, <2>4, <2>5, <2>6 DEF Step
  <1>2. CASE UNCHANGED vars
    BY <1>2 DEF vars, MInv, Types, QueuedIsLocked, Distinct, QueuedWait, OneHolder,
                LockedIsHeld, Handed, OneWaker, Holds, InQueue
  <1>. QED
    BY <1>1, <1>2 DEF Next

\* A lock that has been signalled stays so.
LEMMA SignalledStays == [Next]_vars /\ signalled => signalled'
  <1>. SUFFICES ASSUME [Next]_vars, signalled PROVE signalled'
    OBVIOUS
  <1>1. CASE UNCHANGED vars
    BY <1>1 DEF vars
  <1>2. ASSUME NEW t \in Thread, Step(t) \/ Signal(t) \/ Terminate(t) PROVE signalled'
    BY <1>2 DEF Step, Lock, TryLock, Resume, Unlock, Wake, Signal, Terminate
  <1>. QED
    BY <1>1, <1>2 DEF Next

\* The invariant holds in every state up to the first signal to a waiter.
UInv == CInv /\ (signalled \/ MInv)
LEMMA Undisturbed == Spec => []UInv
  <1>1. Init => UInv
    BY InitMInv, InitCInv DEF UInv
  <1>2. UInv /\ [Next]_vars => UInv'
    BY StepMInv, StepCInv, SignalledStays DEF UInv
  <1>. QED
    BY <1>1, <1>2, PTL DEF Spec

\* The lock excludes, whatever callers, wakeups and exits of siblings do, up to
\* the first signal that wakes a thread inside lock(): two threads are not inside
\* the section it protects, and no caller of lock() or try_lock() gets in between
\* an unlock() and the wakeup of the waiter it chose.
THEOREM MutualExclusion == Spec => []MutexUntilSignal
  <1>1. UInv => MutexUntilSignal
    BY DEF UInv, MInv, OneHolder, MutexUntilSignal, Mutex, Holds
  <1>. QED
    BY <1>1, Undisturbed, PTL

\* The owner of the abstract lock is the one thread that holds it.
LEMMA OwnerIs ==
  ASSUME OneHolder, NEW t \in Thread, Holds(t)
  PROVE  Owner = t
  <1>1. \E u \in Thread : Holds(u)
    OBVIOUS
  <1>2. Owner = CHOOSE u \in Thread : Holds(u)
    BY <1>1 DEF Owner
  <1>3. Owner \in Thread /\ Holds(Owner)
    BY <1>1, <1>2
  <1>. QED
    BY <1>3 DEF OneHolder

\* In every step up to the first signal that wakes a waiter, lock(), try_lock() and
\* unlock() implement the abstract lock: one owner, and the waiters served in order
\* of arrival.
THEOREM Handoff == Spec => FifoHandoff
  <1>1. Init => Fifo!FifoInit
    <2>. SUFFICES ASSUME Init PROVE Owner = NoThread /\ waitQueue = <<>>
      BY DEF Fifo!FifoInit
    <2>1. \A t \in Thread : ~Holds(t)
      BY DEF Init, Holds
    <2>. QED
      BY <2>1 DEF Init, Owner
  <1>2. UInv /\ UInv' /\ [Next]_vars => [signalled' \/ Fifo!FifoNext]_(Fifo!fifoVars)
    <2>. SUFFICES ASSUME UInv, UInv', [Next]_vars, ~signalled'
                  PROVE  Fifo!FifoNext \/ (Owner' = Owner /\ waitQueue' = waitQueue)
      BY DEF Fifo!fifoVars
    <2>i. MInv /\ CInv /\ MInv' /\ CInv'
      BY SignalledStays DEF UInv
    <2>0. /\ Types /\ OneHolder /\ LockedIsHeld /\ QueuedWait
          /\ OneHolder' /\ LockedIsHeld' /\ QueuedWait' /\ Types'
      BY <2>i DEF MInv
    <2>1. ASSUME NEW t \in Thread, Holds(t)' PROVE Owner' = t
      <3>1. Owner' \in Thread /\ Holds(Owner)'
        BY <2>1 DEF Owner
      <3>. QED
        BY <2>0, <2>1, <3>1 DEF OneHolder
    <2>2. ASSUME \A u \in Thread : Holds(u)' <=> Holds(u) PROVE Owner' = Owner
      <3>1. CASE \E u \in Thread : Holds(u)
        BY <2>0, <2>1, <2>2, <3>1, OwnerIs
      <3>2. CASE ~ \E u \in Thread : Holds(u)
        BY <2>2, <3>2 DEF Owner
      <3>. QED
        BY <3>1, <3>2
    <2>3. ASSUME NEW t \in Thread, Lock(t), locked PROVE Fifo!Arrive(t)
      <3>1. ~InQueue(t) /\ ~Holds(t) /\ \A u \in Thread : Holds(u)' <=> Holds(u)
        BY <2>i, <2>3, BlockMInv
      <3>2. Owner' = Owner
        BY <2>2, <3>1
      <3>3. Owner \in Thread /\ Owner # t
        BY <2>0, <2>3, <3>1, OwnerIs DEF LockedIsHeld
      <3>4. waitQueue' = Append(waitQueue, t)
        BY <2>3 DEF Lock
      <3>. QED
        BY <3>1, <3>2, <3>3, <3>4, ThreadAssumption DEF Fifo!Arrive, InQueue
    <2>4. ASSUME NEW t \in Thread, Lock(t) \/ TryLock(t), ~locked PROVE Fifo!Arrive(t)
      <3>1. ~InQueue(t) /\ \A u \in Thread : ~Holds(u) /\ (Holds(u)' <=> u = t)
        BY <2>i, <2>4, TakeMInv
      <3>2. Owner = NoThread
        BY <3>1 DEF Owner
      <3>3. Owner' = t
        BY <2>1, <3>1
      <3>4. waitQueue' = waitQueue
        BY <2>4 DEF Lock, TryLock
      <3>. QED
        BY <3>1, <3>2, <3>3, <3>4, ThreadAssumption DEF Fifo!Arrive, InQueue
    <2>5. ASSUME NEW t \in Thread, Unlock(t) PROVE Fifo!Depart(t)
      <3>1. /\ Holds(t)
            /\ waitQueue # <<>> => /\ Head(waitQueue) \in Thread
                                   /\ \A h \in Thread : h = Head(waitQueue) => Holds(h)'
            /\ waitQueue = <<>> => \A u \in Thread : ~Holds(u)'
        BY <2>i, <2>5, UnlockMInv
      <3>2. Owner = t
        BY <2>0, <3>1, OwnerIs
      <3>3. CASE waitQueue # <<>>
        <4>1. Owner' = Head(waitQueue)
          BY <2>1, <3>1, <3>3
        <4>2. waitQueue' = Tail(waitQueue)
          BY <2>5, <3>3 DEF Unlock
        <4>. QED
          BY <3>2, <3>3, <4>1, <4>2 DEF Fifo!Depart
      <3>4. CASE waitQueue = <<>>
        <4>1. Owner' = NoThread
          BY <3>1, <3>4 DEF Owner
        <4>2. waitQueue' = waitQueue
          BY <2>5, <3>4 DEF Unlock
        <4>. QED
          BY <3>2, <3>4, <4>1, <4>2 DEF Fifo!Depart
      <3>. QED
        BY <3>3, <3>4
    <2>6. ASSUME NEW t \in Thread, Resume(t) \/ Wake(t) \/ Terminate(t)
          PROVE  Owner' = Owner /\ waitQueue' = waitQueue
      <3>1. \A u \in Thread : Holds(u)' <=> Holds(u)
        BY <2>i, <2>6, ResumeMInv, StatusMInv
      <3>. QED
        BY <2>2, <2>6, <3>1 DEF Resume, Wake, Terminate
    <2>7. CASE UNCHANGED vars
      <3>1. \A u \in Thread : Holds(u)' <=> Holds(u)
        BY <2>7 DEF vars, Holds, InQueue
      <3>. QED
        BY <2>2, <2>7, <3>1 DEF vars
    <2>8. ASSUME NEW t \in Thread, Step(t) \/ Signal(t) \/ Terminate(t)
          PROVE  Fifo!FifoNext \/ (Owner' = Owner /\ waitQueue' = waitQueue)
      <3>1. ~Signal(t)
        BY DEF Signal
      <3>2. TryLock(t) => ~locked
        BY DEF TryLock
      <3>. QED
        BY <2>3, <2>4, <2>5, <2>6, <2>8, <3>1, <3>2 DEF Step, Fifo!FifoNext
    <2>. QED
      BY <2>7, <2>8 DEF Next
  <1>. QED
    BY <1>1, <1>2, Undisturbed, PTL DEF Spec, FifoHandoff

=============================================================================
