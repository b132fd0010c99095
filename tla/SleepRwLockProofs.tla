-------------------------- MODULE SleepRwLockProofs --------------------------
(***************************************************************************)
(* Proofs about the sleeping reader/writer lock, for any finite set of     *)
(* threads, any of which may be interruptible.                             *)
(***************************************************************************)
EXTENDS SleepRwLock, FiniteSetTheorems, SequenceTheorems, WellFoundedInduction, TLAPS

Types ==
    /\ activeReaders \in Nat /\ writerActive \in BOOLEAN /\ waitingWriters \in Nat
    /\ waitQueue \in Seq(Waiter)
    /\ granted \in [Thread -> BOOLEAN]
    /\ pc \in [Thread -> {"idle", "waiting", "holding"}]
    /\ blocked \in [Thread -> BOOLEAN]
    /\ kind \in [Thread -> {"Reader", "Writer"}]
    /\ signal \in [Thread -> BOOLEAN]
    /\ waking \in [Thread -> SUBSET Thread]

\* The waiters that were not granted the lock.
Queued(t) == pc[t] = "waiting" /\ ~granted[t]
Owner(t) == pc[t] = "holding" \/ (pc[t] = "waiting" /\ granted[t])
Distinct(q) == \A i, j \in 1 .. Len(q) : q[i].task = q[j].task => i = j

\* The queue holds exactly these waiters, each of them once.
QueueExact ==
    /\ Distinct(waitQueue)
    /\ \A i \in 1 .. Len(waitQueue) :
          Queued(waitQueue[i].task) /\ waitQueue[i].kind = kind[waitQueue[i].task]
    /\ \A t \in Thread : Queued(t) => \E i \in 1 .. Len(waitQueue) : waitQueue[i].task = t

WaitingFor(k) == {t \in Thread : Queued(t) /\ kind[t] = k}

\* The counters, in terms of the threads.
Counted ==
    /\ activeReaders = Cardinality(Holders("Reader"))
    /\ waitingWriters = Cardinality(WaitingFor("Writer"))

\* One writer, or readers.
Alone ==
    /\ writerActive <=> Holders("Writer") # {}
    /\ writerActive => Holders("Reader") = {}
    /\ \A v, w \in Holders("Writer") : v = w

RwInv == Types /\ QueueExact /\ Counted /\ Alone /\ NoIdleQueue /\ OwnersWoken

-----------------------------------------------------------------------------
(* Sets of threads, and queues.                                            *)

\* Sets of threads are finite.
LEMMA ThreadsFinite == \A S \in SUBSET Thread : IsFiniteSet(S) /\ Cardinality(S) \in Nat
  BY RwThreadAssumption, FS_Subset, FS_CardinalityType

\* A set of natural numbers has a least element.
LEMMA LeastNat ==
  ASSUME NEW T \in SUBSET Nat, T # {}
  PROVE  \E i \in T : \A j \in T : i <= j
  <1>1. IsWellFoundedOn(OpToRel(<, Nat), Nat)
    BY NatLessThanWellFounded
  <1>2. PICK i \in T : \A j \in T : ~(<<j, i>> \in OpToRel(<, Nat))
    BY <1>1, WFMin
  <1>3. \A j \in T : ~(j < i)
    BY Zenon, <1>2 DEF OpToRel
  <1>. QED
    BY <1>3

\* grant_front_phase takes the readers before the first writer.
LEMMA ReadersSplit ==
  ASSUME NEW q \in Seq(Waiter)
  PROVE  /\ Readers(q) \in 0 .. Len(q)
         /\ \A i \in 1 .. Readers(q) : q[i].kind = "Reader"
         /\ Readers(q) < Len(q) => q[Readers(q) + 1].kind = "Writer"
  <1>. DEFINE W == {i \in DOMAIN q : q[i].kind = "Writer"}
  <1>0. DOMAIN q = 1 .. Len(q) /\ Len(q) \in Nat
    BY LenProperties
  <1>1. \A i \in 1 .. Len(q) : q[i].kind \in {"Reader", "Writer"}
    <2>1. \A i \in 1 .. Len(q) : q[i] \in Waiter
      BY ElementOfSeq
    <2>. QED
      BY <2>1 DEF Waiter
  <1>2. CASE W = {}
    BY <1>0, <1>1, <1>2 DEF Readers
  <1>3. CASE W # {}
    <2>1. W \in SUBSET Nat
      BY <1>0
    <2>2. \E i \in W : \A j \in W : i <= j
      BY Zenon, <1>3, <2>1, LeastNat
    <2>3. PICK m \in W : (\A j \in W : m <= j) /\ Readers(q) = m - 1
      BY Zenon, <1>3, <2>2 DEF Readers
    <2>4. m \in 1 .. Len(q) /\ q[m].kind = "Writer"
      BY <1>0
    <2>5. \A i \in 1 .. m - 1 : i \notin W /\ i \in 1 .. Len(q)
      BY <1>0, <2>1, <2>3, <2>4
    <2>6. \A i \in 1 .. m - 1 : q[i].kind = "Reader"
      BY <1>0, <1>1, <2>5
    <2>7. m - 1 + 1 = m /\ m - 1 \in 0 .. Len(q)
      BY <1>0, <2>4
    <2>. QED
      BY <2>3, <2>4, <2>6, <2>7
  <1>. QED
    BY <1>2, <1>3

\* The first n waiters of a queue are n threads.
LEMMA FrontCount ==
  ASSUME NEW q \in Seq(Waiter), Distinct(q), NEW n \in 0 .. Len(q)
  PROVE  Cardinality({q[i].task : i \in 1 .. n}) = n
  <1>. DEFINE f == [i \in 1 .. n |-> q[i].task]
              S == {q[i].task : i \in 1 .. n}
  <1>0. Len(q) \in Nat
    BY LenProperties
  <1>1. f \in Bijection(1 .. n, S)
    BY SMTT(30), <1>0 DEF Bijection, Injection, Surjection, IsInjective, Distinct
  <1>2. IsFiniteSet(1 .. n) /\ Cardinality(1 .. n) = n
    BY <1>0, FS_Interval
  <1>. QED
    BY <1>1, <1>2, FS_Bijection DEF ExistsBijection

\* remove_waiter leaves the other waiters as they are.
LEMMA WithoutIsTheRest ==
  ASSUME waitQueue \in Seq(Waiter), Distinct(waitQueue), NEW t,
         \E i \in 1 .. Len(waitQueue) : waitQueue[i].task = t
  PROVE  /\ Without(t) \in Seq(Waiter) /\ Distinct(Without(t))
         /\ \A i \in 1 .. Len(Without(t)) : /\ Without(t)[i].task # t
                                            /\ \E j \in 1 .. Len(waitQueue) :
                                                  Without(t)[i] = waitQueue[j]
         /\ \A j \in 1 .. Len(waitQueue) :
               waitQueue[j].task # t => \E i \in 1 .. Len(Without(t)) : Without(t)[i] = waitQueue[j]
  <1>. DEFINE n == Len(waitQueue)
              p == CHOOSE i \in DOMAIN waitQueue : waitQueue[i].task = t
              before == SubSeq(waitQueue, 1, p - 1)
              after == SubSeq(waitQueue, p + 1, n)
  <1>0. DOMAIN waitQueue = 1 .. n /\ n \in Nat
    BY LenProperties
  <1>1. p \in 1 .. n /\ waitQueue[p].task = t
    BY <1>0
  <1>. HIDE DEF p
  <1>2. /\ before \in Seq(Waiter) /\ Len(before) = p - 1
        /\ \A i \in 1 .. p - 1 : before[i] = waitQueue[i]
    BY <1>0, <1>1, SubSeqProperties, SMT
  <1>3. /\ after \in Seq(Waiter) /\ Len(after) = n - p
        /\ \A i \in 1 .. n - p : after[i] = waitQueue[p + i]
    <2>1. p + 1 \in 1 .. n + 1 /\ n \in p + 1 - 1 .. n
      BY <1>0, <1>1
    <2>2. /\ after \in Seq(Waiter) /\ Len(after) = n - (p + 1) + 1
          /\ \A i \in 1 .. n - (p + 1) + 1 : after[i] = waitQueue[p + 1 + i - 1]
      BY <2>1, SubSeqProperties
    <2>3. n - (p + 1) + 1 = n - p /\ \A i \in 1 .. n - p : p + 1 + i - 1 = p + i
      BY <1>0, <1>1
    <2>. QED
      BY <2>2, <2>3
  <1>4. Without(t) = before \o after
    BY DEF Without, p
  <1>. HIDE DEF before, after
  <1>5. Without(t) \in Seq(Waiter) /\ Len(Without(t)) = n - 1
    <2>1. before \o after \in Seq(Waiter) /\ Len(before \o after) = Len(before) + Len(after)
      BY Zenon, <1>2, <1>3, ConcatProperties
    <2>. QED
      BY <1>0, <1>1, <1>2, <1>3, <1>4, <2>1
  <1>5a. \A i \in 1 .. Len(before) + Len(after) :
           (before \o after)[i] = IF i <= Len(before) THEN before[i] ELSE after[i - Len(before)]
    BY <1>2, <1>3, ConcatProperties
  <1>6. \A i \in 1 .. n - 1 : Without(t)[i] = waitQueue[IF i < p THEN i ELSE i + 1]
    <2>. SUFFICES ASSUME NEW i \in 1 .. n - 1
                  PROVE  Without(t)[i] = waitQueue[IF i < p THEN i ELSE i + 1]
      OBVIOUS
    <2>1. CASE i < p
      BY <1>0, <1>1, <1>2, <1>3, <1>4, <1>5a, <2>1
    <2>2. CASE ~(i < p)
      <3>1. Without(t)[i] = after[i - (p - 1)]
        BY SMTT(30), <1>0, <1>1, <1>2, <1>3, <1>4, <1>5a, <2>2
      <3>2. i - (p - 1) \in 1 .. n - p /\ p + (i - (p - 1)) = i + 1
        BY <1>0, <1>1, <2>2
      <3>. QED
        BY <1>3, <2>2, <3>1, <3>2
    <2>. QED
      BY <2>1, <2>2
  <1>7. \A i \in 1 .. n - 1 : LET j == IF i < p THEN i ELSE i + 1
                              IN j \in 1 .. n /\ j # p /\ Without(t)[i] = waitQueue[j]
    BY <1>0, <1>1, <1>6
  <1>8. \A j \in 1 .. n : j # p => waitQueue[j].task # t
    BY <1>1 DEF Distinct
  <1>9. Distinct(Without(t))
    <2>. SUFFICES ASSUME NEW i \in 1 .. n - 1, NEW j \in 1 .. n - 1,
                         Without(t)[i].task = Without(t)[j].task
                  PROVE  i = j
      BY Zenon, <1>5 DEF Distinct
    <2>1. (IF i < p THEN i ELSE i + 1) = (IF j < p THEN j ELSE j + 1)
      BY SMTT(30), <1>7 DEF Distinct
    <2>. QED
      BY <1>0, <1>1, <2>1
  <1>10. ASSUME NEW j \in 1 .. n, waitQueue[j].task # t
         PROVE  \E i \in 1 .. n - 1 : Without(t)[i] = waitQueue[j]
    <2>. DEFINE i == IF j < p THEN j ELSE j - 1
    <2>1. j # p
      BY <1>1, <1>10
    <2>2. i \in 1 .. n - 1 /\ (IF i < p THEN i ELSE i + 1) = j
      BY <1>0, <1>1, <2>1
    <2>3. Without(t)[i] = waitQueue[j]
      BY <1>6, <2>2
    <2>. QED
      BY <2>2, <2>3
  <1>. QED
    BY ZenonT(40), <1>5, <1>7, <1>8, <1>9, <1>10
-----------------------------------------------------------------------------
(* grant_front_phase.                                                      *)

\* The lock as grant_front_phase finds it when t gives it up or leaves its queue:
\* nobody else owns it, and q and w are the other waiters.
Unowned(t, q, w) ==
    /\ q \in Seq(Waiter) /\ Distinct(q)
    /\ \A i \in 1 .. Len(q) :
          q[i].task # t /\ Queued(q[i].task) /\ q[i].kind = kind[q[i].task]
    /\ \A u \in Thread \ {t} : ~Owner(u) /\ (Queued(u) => \E i \in 1 .. Len(q) : q[i].task = u)
    /\ w \in Nat
    /\ w = Cardinality({u \in Thread \ {t} : Queued(u) /\ kind[u] = "Writer"})

\* The next phase owns the lock, is counted, and is about to be woken.
LEMMA GrantPhase ==
  ASSUME Types, OwnersWoken, NEW t \in Thread, NEW q, NEW w, Unowned(t, q, w),
         GrantFrontPhase(t, q, w), waking[t] = {}, pc' = [pc EXCEPT ![t] = "idle"],
         UNCHANGED <<blocked, kind, signal>>
  PROVE  RwInv'
  <1>. DEFINE write == q # <<>> /\ Head(q).kind = "Writer"
              n == IF write THEN 1 ELSE Readers(q)
              chosen == {q[i].task : i \in 1 .. n}
              rest == SubSeq(q, n + 1, Len(q))
  <1>0. q \in Seq(Waiter) /\ Distinct(q) /\ Len(q) \in Nat /\ DOMAIN q = 1 .. Len(q)
    BY LenProperties DEF Unowned
  <1>1. \A i \in 1 .. Len(q) : q[i] \in Waiter /\ q[i].task \in Thread
    <2>1. \A i \in 1 .. Len(q) : q[i] \in Waiter
      BY <1>0, ElementOfSeq
    <2>. QED
      BY <2>1 DEF Waiter
  <1>2. /\ waitQueue' = rest /\ writerActive' = write
        /\ activeReaders' = IF write THEN 0 ELSE n
        /\ waitingWriters' = IF write THEN w - 1 ELSE w
        /\ granted' = [u \in Thread |-> granted[u] \/ u \in chosen]
        /\ waking' = [waking EXCEPT ![t] = chosen]
    BY DEF GrantFrontPhase
  <1>3. /\ n \in 0 .. Len(q)
        /\ \A i \in 1 .. n : q[i].kind = IF write THEN "Writer" ELSE "Reader"
        /\ ~write /\ n < Len(q) => n > 0
    <2>1. CASE write
      <3>1. Len(q) >= 1 /\ Head(q) = q[1]
        BY <1>0, <2>1, HeadTailProperties, EmptySeq
      <3>2. n = 1 /\ q[1].kind = "Writer" /\ \A i \in 1 .. 1 : i = 1
        BY <2>1, <3>1
      <3>. QED
        BY <1>0, <2>1, <3>1, <3>2
    <2>2. CASE ~write
      <3>1. /\ n \in 0 .. Len(q) /\ \A i \in 1 .. n : q[i].kind = "Reader"
            /\ n < Len(q) => q[n + 1].kind = "Writer"
        BY <1>0, <2>2, ReadersSplit
      <3>2. n < Len(q) => q # <<>> /\ Head(q) = q[1]
        BY <1>0, <3>1, HeadTailProperties, EmptySeq
      <3>3. n = 0 => n + 1 = 1
        OBVIOUS
      <3>4. n < Len(q) => n # 0
        BY <2>2, <3>1, <3>2, <3>3
      <3>. QED
        BY <1>0, <2>2, <3>1, <3>4
    <2>. QED
      BY <2>1, <2>2
  <1>4. \A i \in 1 .. n : i \in 1 .. Len(q)
    BY <1>0, <1>3
  <1>5. \A u \in chosen : /\ u \in Thread /\ u # t /\ Queued(u)
                          /\ kind[u] = IF write THEN "Writer" ELSE "Reader"
    BY <1>1, <1>3, <1>4 DEF Unowned
  <1>6. Cardinality(chosen) = n
    BY Zenon, <1>0, <1>3, FrontCount
  <1>7. /\ rest \in Seq(Waiter) /\ Len(rest) = Len(q) - n
        /\ \A i \in 1 .. Len(q) - n : rest[i] = q[n + i] /\ n + i \in 1 .. Len(q)
    <2>1. n + 1 \in Int /\ Len(q) \in Int /\ \A i \in n + 1 .. Len(q) : q[i] \in Waiter
      BY <1>0, <1>1, <1>3
    <2>2. /\ rest \in Seq(Waiter) /\ Len(rest) = IF n + 1 <= Len(q) THEN Len(q) - (n + 1) + 1 ELSE 0
          /\ \A i \in 1 .. Len(q) - (n + 1) + 1 : rest[i] = q[n + 1 + i - 1]
      BY <2>1, SubSeqProperties
    <2>3. /\ Len(q) - (n + 1) + 1 = Len(q) - n /\ (~(n + 1 <= Len(q)) => Len(q) - n = 0)
          /\ \A i \in 1 .. Len(q) - n : n + 1 + i - 1 = n + i /\ n + i \in 1 .. Len(q)
      BY <1>0, <1>3
    <2>. QED
      BY <2>2, <2>3
  <1>. HIDE DEF n, rest, chosen
  <1>8. /\ \A u \in Thread : pc'[u] = IF u = t THEN "idle" ELSE pc[u]
        /\ \A u \in Thread : granted'[u] <=> granted[u] \/ u \in chosen
        /\ \A u \in Thread : waking'[u] = IF u = t THEN chosen ELSE waking[u]
    BY Zenon, <1>2 DEF Types
  <1>9. \A u \in Thread : /\ Owner(u)' <=> u \in chosen
                          /\ Queued(u)' <=> u # t /\ Queued(u) /\ u \notin chosen
    BY <1>5, <1>8 DEF Owner, Queued, Unowned
  <1>10. \A k : Holders(k)' = {u \in chosen : kind[u] = k}
    <2>1. \A k : Holders(k)' = {u \in Thread : kind[u] = k /\ Owner(u)'}
      BY DEF Holders, Owner
    <2>. QED
      BY <1>5, <1>9, <2>1
  <1>11. /\ waitingWriters' \in Nat
         /\ waitingWriters' = Cardinality(WaitingFor("Writer")')
    <2>. DEFINE S == {u \in Thread \ {t} : Queued(u) /\ kind[u] = "Writer"}
    <2>1. w = Cardinality(S) /\ w \in Nat /\ IsFiniteSet(S)
      <3>1. S \in SUBSET Thread
        OBVIOUS
      <3>. QED
        BY <3>1, ThreadsFinite DEF Unowned
    <2>2. WaitingFor("Writer")' = S \ chosen
      BY <1>9 DEF WaitingFor
    <2>. HIDE DEF S
    <2>3. CASE write
      <3>1. n = 1
        BY <2>3 DEF n
      <3>2. chosen = {q[1].task}
        BY <3>1 DEF chosen
      <3>3. q[1].task \in S
        BY <1>5, <2>3, <3>2 DEF S
      <3>4. IsFiniteSet(S \ {q[1].task}) /\ Cardinality(S \ {q[1].task}) = w - 1
        BY ZenonT(40), <2>1, <3>3, FS_RemoveElement
      <3>5. Cardinality(S \ {q[1].task}) \in Nat
        BY <3>4, FS_CardinalityType
      <3>. QED
        BY Zenon, <1>2, <2>2, <2>3, <3>2, <3>4, <3>5
    <2>4. CASE ~write
      <3>1. S \ chosen = S
        BY <1>5, <2>4 DEF S
      <3>. QED
        BY Zenon, <1>2, <2>1, <2>2, <2>4, <3>1
    <2>. QED
      BY <2>3, <2>4
  <1>12. Types'
    <2>1. granted' \in [Thread -> BOOLEAN]
      BY <1>2, Zenon DEF Types
    <2>2. pc' \in [Thread -> {"idle", "waiting", "holding"}]
      BY DEF Types
    <2>3. waking' \in [Thread -> SUBSET Thread]
      BY <1>2, <1>5 DEF Types
    <2>4. writerActive' \in BOOLEAN
      BY <1>2, Zenon
    <2>5. activeReaders' \in Nat /\ waitQueue' \in Seq(Waiter)
      BY <1>0, <1>2, <1>3, <1>7
    <2>. QED
      BY <1>11, <2>1, <2>2, <2>3, <2>4, <2>5 DEF Types
  <1>13. QueueExact'
    <2>1. Distinct(waitQueue')
      BY SMTT(30), <1>0, <1>2, <1>3, <1>7 DEF Distinct
    <2>2. ASSUME NEW i \in 1 .. Len(waitQueue')
          PROVE  /\ (Queued(waitQueue[i].task))' /\ waitQueue'[i].kind = kind'[waitQueue'[i].task]
      <3>1. waitQueue'[i] = q[n + i] /\ n + i \in 1 .. Len(q)
        BY <1>2, <1>7, <2>2
      <3>2. q[n + i].task \notin chosen
        <4>1. \A j \in 1 .. n : j # n + i /\ j \in 1 .. Len(q)
          BY <1>0, <1>2, <1>3, <1>7, <2>2
        <4>. QED
          BY <1>0, <3>1, <4>1 DEF chosen, Distinct
      <3>3. q[n + i].task \in Thread /\ q[n + i].task # t /\ Queued(q[n + i].task)
            /\ q[n + i].kind = kind[q[n + i].task]
        BY <1>1, <3>1 DEF Unowned
      <3>4. \A u \in Thread : u # t /\ Queued(u) /\ u \notin chosen => pc'[u] = "waiting" /\ ~granted'[u]
        BY <1>8 DEF Queued
      <3>. QED
        BY <3>1, <3>2, <3>3, <3>4 DEF Queued
    <2>3. ASSUME NEW u \in Thread, Queued(u)'
          PROVE  \E i \in 1 .. Len(waitQueue') : waitQueue'[i].task = u
      <3>1. u # t /\ Queued(u) /\ u \notin chosen
        BY <1>9, <2>3
      <3>2. PICK j \in 1 .. Len(q) : q[j].task = u
        BY <3>1 DEF Unowned
      <3>3. ~(j <= n)
        BY <1>3, <3>1, <3>2 DEF chosen
      <3>4. j - n \in 1 .. Len(q) - n /\ n + (j - n) = j
        BY <1>0, <1>3, <3>3
      <3>5. rest[j - n].task = u /\ j - n \in 1 .. Len(rest)
        BY <1>7, <3>2, <3>4
      <3>. QED
        BY <1>2, <3>5
    <2>. QED
      BY <2>1, <2>2, <2>3 DEF QueueExact
  <1>14. Counted'
    <2>1. CASE write
      <3>1. Holders("Reader")' = {}
        BY <1>5, <1>10, <2>1
      <3>. QED
        BY Zenon, <1>2, <1>11, <2>1, <3>1, FS_EmptySet DEF Counted
    <2>2. CASE ~write
      <3>1. Holders("Reader")' = chosen
        BY Zenon, <1>5, <1>10, <2>2
      <3>. QED
        BY <1>2, <1>6, <1>11, <2>2, <3>1 DEF Counted
    <2>. QED
      BY <2>1, <2>2
  <1>15. Alone'
    <2>1. CASE write
      <3>1. chosen = {q[1].task}
        BY <2>1 DEF n, chosen
      <3>2. Holders("Writer")' = {q[1].task} /\ Holders("Reader")' = {}
        BY <1>5, <1>10, <2>1, <3>1
      <3>. QED
        BY <1>2, <2>1, <3>2, Zenon DEF Alone
    <2>2. CASE ~write
      <3>1. Holders("Writer")' = {}
        BY <1>5, <1>10, <2>2
      <3>. QED
        BY <1>2, <2>2, <3>1, Zenon DEF Alone
    <2>. QED
      BY <2>1, <2>2
  <1>16. NoIdleQueue'
    <2>1. ~write /\ waitQueue' # <<>> => Len(q) - n > 0
      BY <1>0, <1>2, <1>3, <1>7, EmptySeq
    <2>2. CASE write
      BY <1>2, <2>2, Zenon DEF NoIdleQueue
    <2>3. CASE ~write
      <3>1. waitQueue' # <<>> => n > 0
        BY <1>0, <1>3, <2>1, <2>3
      <3>2. activeReaders' = n
        BY <1>2, <2>3
      <3>. QED
        BY <3>1, <3>2 DEF NoIdleQueue
    <2>. QED
      BY <2>2, <2>3
  <1>17. OwnersWoken'
    <2>. SUFFICES ASSUME NEW u \in Thread, pc'[u] = "waiting", granted'[u], blocked'[u]
                  PROVE  \E v \in Thread : u \in waking'[v]
      BY DEF OwnersWoken
    <2>1. u \in chosen
      BY <1>9 DEF Owner
    <2>. QED
      BY <1>8, <2>1
  <1>. QED
    BY <1>12, <1>13, <1>14, <1>15, <1>16, <1>17 DEF RwInv
-----------------------------------------------------------------------------
(* The steps.                                                              *)

\* Nobody owns or awaits the lock at first.
LEMMA InitRw == Init => RwInv
  <1>. SUFFICES ASSUME Init PROVE RwInv
    OBVIOUS
  <1>1. waitQueue \in Seq(Waiter) /\ Len(waitQueue) = 0
    BY EmptySeq DEF Init
  <1>2. /\ granted \in [Thread -> BOOLEAN] /\ blocked \in [Thread -> BOOLEAN]
        /\ signal \in [Thread -> BOOLEAN] /\ writerActive \in BOOLEAN
    BY Zenon DEF Init
  <1>3. /\ pc \in [Thread -> {"idle", "waiting", "holding"}]
        /\ kind \in [Thread -> {"Reader", "Writer"}]
        /\ waking \in [Thread -> SUBSET Thread]
        /\ activeReaders = 0 /\ waitingWriters = 0
    BY DEF Init
  <1>4. Types
    BY <1>1, <1>2, <1>3 DEF Types
  <1>5. \A t \in Thread : pc[t] = "idle"
    BY DEF Init
  <1>6. Holders("Reader") = {} /\ Holders("Writer") = {} /\ WaitingFor("Writer") = {}
    BY <1>5 DEF Holders, WaitingFor, Queued
  <1>7. QueueExact
    BY <1>1, <1>5 DEF QueueExact, Distinct, Queued
  <1>8. Counted
    BY <1>3, <1>6, FS_EmptySet DEF Counted
  <1>9. Alone
    BY <1>6, Zenon DEF Alone, Init
  <1>10. NoIdleQueue /\ OwnersWoken
    BY <1>5 DEF NoIdleQueue, OwnersWoken, Init
  <1>. QED
    BY <1>4, <1>7, <1>8, <1>9, <1>10 DEF RwInv

\* A step that changes neither the counters nor the queue nor who owns or awaits
\* the lock.
LEMMA SameOwners ==
  ASSUME RwInv, Types', OwnersWoken',
         UNCHANGED <<activeReaders, writerActive, waitingWriters, waitQueue>>,
         \A u \in Thread : /\ Owner(u)' <=> Owner(u)
                           /\ Queued(u)' <=> Queued(u)
                           /\ Owner(u) \/ Queued(u) => kind'[u] = kind[u]
  PROVE  RwInv'
  <1>1. \A k : Holders(k)' = Holders(k)
    <2>1. \A k : /\ Holders(k)' = {u \in Thread : kind'[u] = k /\ Owner(u)'}
                 /\ Holders(k) = {u \in Thread : kind[u] = k /\ Owner(u)}
      BY DEF Holders, Owner
    <2>. QED
      BY <2>1
  <1>2. WaitingFor("Writer")' = WaitingFor("Writer")
    BY DEF WaitingFor
  <1>3. Counted' /\ Alone' /\ NoIdleQueue'
    BY <1>1, <1>2 DEF RwInv, Counted, Alone, NoIdleQueue
  <1>4. QueueExact'
    <2>1. \A i \in 1 .. Len(waitQueue) : waitQueue[i] \in Waiter
      BY ElementOfSeq DEF RwInv, Types
    <2>2. \A i \in 1 .. Len(waitQueue) : waitQueue[i].task \in Thread
      BY <2>1 DEF Waiter
    <2>3. \A u \in Thread : Queued(u) => pc'[u] = "waiting" /\ ~granted'[u]
      BY DEF Queued
    <2>4. \A i \in 1 .. Len(waitQueue) :
             /\ Queued(waitQueue[i].task) /\ waitQueue[i].kind = kind[waitQueue[i].task]
      BY DEF RwInv, QueueExact
    <2>5. \A i \in 1 .. Len(waitQueue') :
             (Queued(waitQueue[i].task))' /\ waitQueue'[i].kind = kind'[waitQueue'[i].task]
      BY <2>2, <2>3, <2>4 DEF Queued
    <2>6. \A u \in Thread : Queued(u)' => \E i \in 1 .. Len(waitQueue') : waitQueue'[i].task = u
      BY DEF RwInv, QueueExact
    <2>. QED
      BY <2>5, <2>6 DEF RwInv, QueueExact, Distinct
  <1>. QED
    BY <1>3, <1>4 DEF RwInv

\* The tasks in the queue are threads that wait.
LEMMA InQueue ==
  ASSUME RwInv
  PROVE  \A i \in 1 .. Len(waitQueue) :
            /\ waitQueue[i] \in Waiter /\ waitQueue[i].task \in Thread
            /\ pc[waitQueue[i].task] = "waiting" /\ ~granted[waitQueue[i].task]
            /\ waitQueue[i].kind = kind[waitQueue[i].task]
  <1>1. \A i \in 1 .. Len(waitQueue) : waitQueue[i] \in Waiter
    BY ElementOfSeq DEF RwInv, Types
  <1>2. \A i \in 1 .. Len(waitQueue) : waitQueue[i].task \in Thread
    BY <1>1 DEF Waiter
  <1>. QED
    BY <1>1, <1>2 DEF RwInv, QueueExact, Queued

\* acquire(): the direct path.
LEMMA EnterRw ==
  ASSUME RwInv, NEW t \in Thread, NEW k \in {"Reader", "Writer"}, Enter(t, k) PROVE RwInv'
  <1>0. Types /\ pc[t] = "idle" /\ CanEnter(k)
    BY DEF RwInv, Enter
  <1>1. /\ \A u \in Thread : pc'[u] = IF u = t THEN "holding" ELSE pc[u]
        /\ \A u \in Thread : kind'[u] = IF u = t THEN k ELSE kind[u]
        /\ UNCHANGED <<waitingWriters, waitQueue, granted, blocked, signal, waking>>
    BY <1>0 DEF Enter, Types
  <1>2. \A u \in Thread : /\ Owner(u)' <=> Owner(u) \/ u = t
                          /\ Queued(u)' <=> Queued(u)
                          /\ ~Owner(t) /\ ~Queued(t)
    BY <1>0, <1>1 DEF Owner, Queued
  <1>3. \A j : Holders(j)' = IF j = k THEN Holders(j) \cup {t} ELSE Holders(j)
    <2>1. \A j : /\ Holders(j)' = {u \in Thread : kind'[u] = j /\ Owner(u)'}
                 /\ Holders(j) = {u \in Thread : kind[u] = j /\ Owner(u)}
      BY DEF Holders, Owner
    <2>. QED
      BY <1>1, <1>2, <2>1
  <1>4. t \notin Holders(k) /\ Holders("Reader") \in SUBSET Thread
    BY <1>0 DEF Holders
  <1>5. WaitingFor("Writer")' = WaitingFor("Writer")
    BY <1>1, <1>2 DEF WaitingFor
  <1>6. ~writerActive /\ Holders("Writer") = {} /\ (k = "Writer" => activeReaders = 0)
    BY <1>0 DEF RwInv, Alone, CanEnter, CanReadDirectly, CanWriteDirectly
  <1>7. k = "Writer" => Holders("Reader") = {}
    BY <1>4, <1>6, ThreadsFinite, FS_EmptySet DEF RwInv, Counted
  <1>8. writerActive' = (k = "Writer")
    BY <1>6, Zenon DEF Enter
  <1>9. Alone'
    <2>1. CASE k = "Writer"
      <3>1. Holders("Writer")' = {t} /\ Holders("Reader")' = {}
        BY <1>3, <1>6, <1>7, <2>1
      <3>. QED
        BY <1>8, <2>1, <3>1, Zenon DEF Alone
    <2>2. CASE k # "Writer"
      <3>1. Holders("Writer")' = {}
        BY <1>3, <1>6, <2>2
      <3>. QED
        BY <1>8, <2>2, <3>1, Zenon DEF Alone
    <2>. QED
      BY <2>1, <2>2
  <1>10. Counted' /\ activeReaders' \in Nat /\ (k = "Reader" => activeReaders' > 0)
    <2>1. CASE k = "Reader"
      <3>1. Cardinality(Holders("Reader") \cup {t}) = Cardinality(Holders("Reader")) + 1
        BY <1>4, <2>1, ThreadsFinite, FS_AddElement
      <3>2. activeReaders' = activeReaders + 1 /\ activeReaders \in Nat
        BY <1>0, <2>1 DEF Enter, Types
      <3>3. Holders("Reader")' = Holders("Reader") \cup {t}
        BY <1>3, <2>1
      <3>4. /\ activeReaders = Cardinality(Holders("Reader"))
            /\ waitingWriters' = Cardinality(WaitingFor("Writer")')
        BY <1>1, <1>5 DEF Counted, RwInv
      <3>5. Cardinality(Holders("Reader")') = activeReaders'
        BY <3>1, <3>2, <3>3, <3>4
      <3>6. Counted'
        BY <3>4, <3>5 DEF Counted
      <3>. QED
        BY <3>2, <3>6
    <2>2. CASE k # "Reader"
      BY <1>0, <1>1, <1>3, <1>5, <2>2 DEF Counted, RwInv, Enter, Types
    <2>. QED
      BY <2>1, <2>2
  <1>11. Types'
    <2>1. writerActive' \in BOOLEAN
      BY <1>8, Zenon
    <2>2. /\ pc' \in [Thread -> {"idle", "waiting", "holding"}]
          /\ kind' \in [Thread -> {"Reader", "Writer"}]
      BY <1>0 DEF Enter, Types
    <2>. QED
      BY <1>0, <1>1, <1>10, <2>1, <2>2 DEF Types
  <1>12. QueueExact'
    <2>1. \A i \in 1 .. Len(waitQueue) : waitQueue[i].task # t
      BY <1>0, InQueue
    <2>. QED
      BY <1>1, <1>2, <2>1, InQueue DEF RwInv, QueueExact, Queued, Distinct
  <1>13. NoIdleQueue'
    BY Zenon, <1>1, <1>8, <1>10 DEF NoIdleQueue
  <1>14. OwnersWoken'
    BY <1>1 DEF RwInv, OwnersWoken
  <1>. QED
    BY <1>9, <1>10, <1>11, <1>12, <1>13, <1>14 DEF RwInv
\* acquire(): a caller that queues and blocks, or is refused.
LEMMA WaitRw ==
  ASSUME RwInv, NEW t \in Thread, NEW k \in {"Reader", "Writer"}, Wait(t, k) PROVE RwInv'
  <1>0. Types /\ pc[t] = "idle" /\ ~CanEnter(k)
    BY DEF RwInv, Wait
  <1>1. /\ \A u \in Thread : kind'[u] = IF u = t THEN k ELSE kind[u]
        /\ kind' \in [Thread -> {"Reader", "Writer"}]
        /\ UNCHANGED <<signal, waking>>
    BY <1>0 DEF Wait, Types
  <1>2. CASE Interrupted(t)
    <2>1. UNCHANGED <<lockVars, pc, blocked>>
      BY <1>2 DEF Wait
    <2>2. Types'
      BY <1>0, <1>1, <2>1 DEF Types, lockVars
    <2>3. OwnersWoken'
      BY <1>1, <2>1 DEF RwInv, OwnersWoken, lockVars
    <2>4. \A u \in Thread : /\ Owner(u)' <=> Owner(u)
                            /\ Queued(u)' <=> Queued(u)
                            /\ Owner(u) \/ Queued(u) => kind'[u] = kind[u]
      BY <1>0, <1>1, <2>1 DEF Owner, Queued, lockVars
    <2>. QED
      BY <2>1, <2>2, <2>3, <2>4, SameOwners DEF lockVars
  <1>3. CASE ~Interrupted(t)
    <2>. DEFINE e == [kind |-> k, task |-> t]
                n == Len(waitQueue)
    <2>1. /\ waitQueue' = Append(waitQueue, e)
          /\ waitingWriters' = waitingWriters + (IF k = "Writer" THEN 1 ELSE 0)
          /\ granted' = [granted EXCEPT ![t] = FALSE]
          /\ pc' = [pc EXCEPT ![t] = "waiting"]
          /\ blocked' = [blocked EXCEPT ![t] = TRUE]
          /\ UNCHANGED <<activeReaders, writerActive>>
      BY <1>3 DEF Wait
    <2>2. e \in Waiter /\ e.task = t /\ e.kind = k
      BY DEF Waiter
    <2>3. /\ waitQueue' \in Seq(Waiter) /\ Len(waitQueue') = n + 1 /\ n \in Nat
          /\ waitQueue'[n + 1] = e
          /\ \A i \in 1 .. n : waitQueue'[i] = waitQueue[i]
      BY <1>0, <2>1, <2>2, AppendProperties, LenProperties DEF Types
    <2>. HIDE DEF e
    <2>4. /\ \A u \in Thread : pc'[u] = IF u = t THEN "waiting" ELSE pc[u]
          /\ \A u \in Thread : u # t => granted'[u] = granted[u] /\ blocked'[u] = blocked[u]
          /\ ~granted'[t]
      BY <1>0, <2>1 DEF Types
    <2>5. Types'
      <3>1. granted' \in [Thread -> BOOLEAN] /\ blocked' \in [Thread -> BOOLEAN]
        BY <1>0, <2>1, Zenon DEF Types
      <3>2. waitingWriters' \in Nat /\ pc' \in [Thread -> {"idle", "waiting", "holding"}]
        BY <1>0, <2>1 DEF Types
      <3>. QED
        BY <1>0, <1>1, <2>1, <2>3, <3>1, <3>2 DEF Types
    <2>6. \A u \in Thread : /\ Owner(u)' <=> Owner(u)
                            /\ Queued(u)' <=> Queued(u) \/ u = t
                            /\ ~Owner(t) /\ ~Queued(t)
      BY <1>0, <2>4 DEF Owner, Queued
    <2>7. \A j : Holders(j)' = Holders(j)
      <3>1. \A j : /\ Holders(j)' = {u \in Thread : kind'[u] = j /\ Owner(u)'}
                   /\ Holders(j) = {u \in Thread : kind[u] = j /\ Owner(u)}
        BY DEF Holders, Owner
      <3>. QED
        BY <1>1, <2>6, <3>1
    <2>8. QueueExact'
      <3>0. \A i \in 1 .. n + 1 : i \in 1 .. n \/ i = n + 1
        BY <2>3
      <3>1. \A i \in 1 .. n : waitQueue[i].task # t
        BY <1>0, InQueue
      <3>2. Distinct(waitQueue')
        <4>1. Distinct(waitQueue)
          BY DEF RwInv, QueueExact
        <4>. SUFFICES ASSUME NEW i \in 1 .. n + 1, NEW j \in 1 .. n + 1,
                             waitQueue'[i].task = waitQueue'[j].task
                      PROVE  i = j
          BY <2>3 DEF Distinct
        <4>2. CASE i \in 1 .. n /\ j \in 1 .. n
          BY <2>3, <4>1, <4>2 DEF Distinct
        <4>3. CASE i = n + 1 /\ j = n + 1
          BY <4>3
        <4>4. CASE i \in 1 .. n /\ j = n + 1
          BY <2>2, <2>3, <3>1, <4>4
        <4>5. CASE i = n + 1 /\ j \in 1 .. n
          BY <2>2, <2>3, <3>1, <4>5
        <4>. QED
          BY <3>0, <4>2, <4>3, <4>4, <4>5
      <3>3. \A i \in 1 .. n + 1 :
              /\ pc'[waitQueue'[i].task] = "waiting" /\ ~granted'[waitQueue'[i].task]
              /\ waitQueue'[i].kind = kind'[waitQueue'[i].task]
        <4>1. ASSUME NEW i \in 1 .. n
              PROVE  /\ pc'[waitQueue'[i].task] = "waiting" /\ ~granted'[waitQueue'[i].task]
                     /\ waitQueue'[i].kind = kind'[waitQueue'[i].task]
          BY <1>1, <2>3, <2>4, <3>1, InQueue
        <4>2. /\ pc'[waitQueue'[n + 1].task] = "waiting" /\ ~granted'[waitQueue'[n + 1].task]
              /\ waitQueue'[n + 1].kind = kind'[waitQueue'[n + 1].task]
          BY <1>1, <2>2, <2>3, <2>4
        <4>. QED
          BY <3>0, <4>1, <4>2
      <3>4. ASSUME NEW u \in Thread, Queued(u)'
            PROVE  \E i \in 1 .. n + 1 : waitQueue'[i].task = u
        <4>1. CASE u = t
          <5>1. n + 1 \in 1 .. n + 1
            BY <2>3
          <5>. QED
            BY <2>2, <2>3, <4>1, <5>1
        <4>2. CASE u # t
          <5>1. PICK i \in 1 .. n : waitQueue[i].task = u
            BY <2>6, <3>4, <4>2 DEF RwInv, QueueExact
          <5>2. i \in 1 .. n + 1
            BY <2>3
          <5>. QED
            BY <2>3, <5>1, <5>2
        <4>. QED
          BY <4>1, <4>2
      <3>. QED
        BY <2>3, <3>2, <3>3, <3>4 DEF QueueExact, Queued
    <2>9. Counted'
      <3>0. waitingWriters = Cardinality(WaitingFor("Writer")) /\ waitingWriters \in Nat
        BY <1>0 DEF RwInv, Counted, Types
      <3>1. CASE k = "Writer"
        <4>1. WaitingFor("Writer")' = WaitingFor("Writer") \cup {t}
          BY <1>1, <2>6, <3>1 DEF WaitingFor
        <4>2. t \notin WaitingFor("Writer") /\ WaitingFor("Writer") \in SUBSET Thread
          BY <2>6 DEF WaitingFor
        <4>3. Cardinality(WaitingFor("Writer") \cup {t}) = Cardinality(WaitingFor("Writer")) + 1
          BY <4>2, ThreadsFinite, FS_AddElement
        <4>4. waitingWriters' = waitingWriters + 1
          BY <2>1, <3>1
        <4>. QED
          BY Zenon, <2>1, <2>7, <3>0, <4>1, <4>3, <4>4 DEF RwInv, Counted
      <3>2. CASE k # "Writer"
        <4>1. WaitingFor("Writer")' = WaitingFor("Writer")
          BY <1>1, <2>6, <3>2 DEF WaitingFor
        <4>2. waitingWriters' = waitingWriters
          BY <2>1, <3>0, <3>2
        <4>. QED
          BY <2>1, <2>7, <4>1, <4>2 DEF RwInv, Counted
      <3>. QED
        BY <3>1, <3>2
    <2>10. Alone'
      BY <2>1, <2>7 DEF RwInv, Alone
    <2>11. NoIdleQueue'
      <3>1. waitQueue = <<>> => WaitingFor("Writer") = {}
        BY EmptySeq DEF RwInv, QueueExact, WaitingFor
      <3>2. waitQueue = <<>> => waitingWriters = 0
        BY <3>1, FS_EmptySet DEF RwInv, Counted
      <3>3. waitQueue = <<>> => writerActive \/ activeReaders # 0
        BY <1>0, <3>2 DEF CanEnter, CanReadDirectly, CanWriteDirectly
      <3>. QED
        BY <1>0, <2>1, <3>3 DEF RwInv, NoIdleQueue, Types
    <2>12. OwnersWoken'
      BY <1>1, <2>4 DEF RwInv, OwnersWoken
    <2>. QED
      BY <2>5, <2>8, <2>9, <2>10, <2>11, <2>12 DEF RwInv
  <1>. QED
    BY <1>2, <1>3
\* A waiter that was granted the lock returns from acquire().
LEMMA GrantedRw == ASSUME RwInv, NEW t \in Thread, Granted(t) PROVE RwInv'
  <1>0. Types /\ pc[t] = "waiting" /\ granted[t]
    BY DEF RwInv, Granted
  <1>1. /\ \A u \in Thread : pc'[u] = IF u = t THEN "holding" ELSE pc[u]
        /\ pc' \in [Thread -> {"idle", "waiting", "holding"}]
        /\ UNCHANGED <<lockVars, blocked, kind, signal, waking>>
    BY <1>0 DEF Granted, Types
  <1>2. Types' /\ OwnersWoken'
    BY <1>0, <1>1 DEF RwInv, Types, OwnersWoken, lockVars
  <1>3. \A u \in Thread : (Owner(u)' <=> Owner(u)) /\ (Queued(u)' <=> Queued(u))
    BY <1>0, <1>1 DEF Owner, Queued, lockVars
  <1>. QED
    BY <1>1, <1>2, <1>3, SameOwners DEF lockVars

\* A waiter that was woken for nothing blocks again.
LEMMA BlockAgainRw == ASSUME RwInv, NEW t \in Thread, BlockAgain(t) PROVE RwInv'
  <1>0. Types /\ pc[t] = "waiting" /\ ~granted[t]
    BY DEF RwInv, BlockAgain
  <1>1. UNCHANGED <<lockVars, pc, kind, signal, waking>>
    BY DEF BlockAgain
  <1>2. blocked' \in [Thread -> BOOLEAN]
    BY <1>0, Zenon DEF BlockAgain, Types
  <1>3. \A u \in Thread : u # t => blocked'[u] = blocked[u]
    BY <1>0 DEF BlockAgain, Types
  <1>4. Types' /\ OwnersWoken'
    BY <1>0, <1>1, <1>2, <1>3 DEF RwInv, Types, OwnersWoken, lockVars
  <1>5. \A u \in Thread : (Owner(u)' <=> Owner(u)) /\ (Queued(u)' <=> Queued(u))
    BY <1>1 DEF Owner, Queued, lockVars
  <1>. QED
    BY <1>1, <1>4, <1>5, SameOwners DEF lockVars

\* wake_all wakes one thread.
LEMMA WakeOneRw == ASSUME RwInv, NEW t \in Thread, WakeOne(t) PROVE RwInv'
  <1>0. Types
    BY DEF RwInv
  <1>. PICK u \in waking[t] :
          /\ blocked' = [blocked EXCEPT ![u] = FALSE]
          /\ waking' = [waking EXCEPT ![t] = @ \ {u}]
          /\ UNCHANGED <<lockVars, pc, kind, signal>>
    BY Zenon DEF WakeOne
  <1>1. u \in Thread
    BY <1>0 DEF Types
  <1>2. blocked' \in [Thread -> BOOLEAN] /\ waking' \in [Thread -> SUBSET Thread]
    BY <1>0, <1>1 DEF Types
  <1>3. /\ \A v \in Thread : blocked'[v] => v # u /\ blocked[v]
        /\ \A v \in Thread : waking'[v] = IF v = t THEN waking[v] \ {u} ELSE waking[v]
    BY Zenon, <1>0, <1>1 DEF Types
  <1>4. Types'
    BY <1>0, <1>2 DEF Types, lockVars
  <1>5. OwnersWoken'
    BY <1>3 DEF RwInv, OwnersWoken, lockVars
  <1>6. \A v \in Thread : (Owner(v)' <=> Owner(v)) /\ (Queued(v)' <=> Queued(v))
    BY DEF Owner, Queued, lockVars
  <1>. QED
    BY <1>4, <1>5, <1>6, SameOwners DEF lockVars

\* A signal arrives or is handled.
LEMMA SignalRw ==
  ASSUME RwInv, NEW t \in Thread, Signal(t) \/ HandleSignal(t) PROVE RwInv'
  <1>0. Types
    BY DEF RwInv
  <1>1. UNCHANGED <<lockVars, pc, kind, waking>>
    BY DEF Signal, HandleSignal
  <1>2. blocked' \in [Thread -> BOOLEAN] /\ signal' \in [Thread -> BOOLEAN]
    <2>1. CASE Signal(t)
      BY <1>0, <2>1, Zenon DEF Signal, Types
    <2>2. CASE HandleSignal(t)
      BY <1>0, <2>2, Zenon DEF HandleSignal, Types
    <2>. QED
      BY <2>1, <2>2
  <1>3. \A v \in Thread : blocked'[v] => blocked[v]
    BY <1>0 DEF Signal, HandleSignal, Types
  <1>4. Types'
    BY <1>0, <1>1, <1>2 DEF Types, lockVars
  <1>5. OwnersWoken'
    BY <1>1, <1>3 DEF RwInv, OwnersWoken, lockVars
  <1>6. \A v \in Thread : (Owner(v)' <=> Owner(v)) /\ (Queued(v)' <=> Queued(v))
    BY <1>1 DEF Owner, Queued, lockVars
  <1>. QED
    BY <1>1, <1>4, <1>5, <1>6, SameOwners DEF lockVars

\* Whoever owns the lock keeps the others out: an owner's kind, and its fellows.
LEMMA OwnersOf ==
  ASSUME RwInv
  PROVE  /\ \A u \in Thread : Owner(u) <=> u \in Holders("Reader") \/ u \in Holders("Writer")
         /\ activeReaders = 0 <=> Holders("Reader") = {}
         /\ \A t \in Holders("Reader") : activeReaders = 1 => Holders("Reader") = {t}
         /\ \A t \in Holders("Writer") : Holders("Writer") = {t} /\ Holders("Reader") = {}
  <1>1. \A u \in Thread : Owner(u) <=> u \in Holders("Reader") \/ u \in Holders("Writer")
    BY DEF Owner, Holders, RwInv, Types
  <1>2. Holders("Reader") \in SUBSET Thread
    BY DEF Holders
  <1>3. activeReaders = 0 <=> Holders("Reader") = {}
    BY <1>2, ThreadsFinite, FS_EmptySet DEF RwInv, Counted
  <1>4. ASSUME NEW t \in Holders("Reader"), activeReaders = 1 PROVE Holders("Reader") = {t}
    <2>1. PICK x : Holders("Reader") = {x}
      BY Zenon, <1>2, <1>4, ThreadsFinite, FS_Singleton DEF RwInv, Counted
    <2>. QED
      BY <2>1
  <1>5. \A t \in Holders("Writer") : Holders("Writer") = {t} /\ Holders("Reader") = {}
    BY DEF RwInv, Alone
  <1>. QED
    BY <1>1, <1>3, <1>4, <1>5
\* The last owner finds the lock as grant_front_phase expects it.
LEMMA LastOwnerLeaves ==
  ASSUME RwInv, NEW t \in Thread, pc[t] = "holding", \A u \in Thread \ {t} : ~Owner(u)
  PROVE  Unowned(t, waitQueue, waitingWriters)
  <1>1. \A i \in 1 .. Len(waitQueue) : /\ waitQueue[i].task # t /\ Queued(waitQueue[i].task)
                                       /\ waitQueue[i].kind = kind[waitQueue[i].task]
    BY InQueue DEF Queued
  <1>2. {u \in Thread \ {t} : Queued(u) /\ kind[u] = "Writer"} = WaitingFor("Writer")
    BY DEF WaitingFor, Queued
  <1>. QED
    BY Zenon, <1>1, <1>2 DEF Unowned, RwInv, Types, QueueExact, Counted

\* A reader leaves.
LEMMA ReleaseReadRw == ASSUME RwInv, NEW t \in Thread, ReleaseRead(t) PROVE RwInv'
  <1>0. /\ Types /\ pc[t] = "holding" /\ kind[t] = "Reader" /\ waking[t] = {}
        /\ pc' = [pc EXCEPT ![t] = "idle"] /\ UNCHANGED <<blocked, kind, signal>>
    BY DEF RwInv, ReleaseRead, Runs
  <1>1. t \in Holders("Reader")
    BY <1>0 DEF Holders
  <1>2. Holders("Writer") = {} /\ ~writerActive
    BY <1>1 DEF RwInv, Alone
  <1>3. CASE activeReaders = 1
    <2>1. \A u \in Thread \ {t} : ~Owner(u)
      BY <1>1, <1>2, <1>3, OwnersOf
    <2>2. Unowned(t, waitQueue, waitingWriters)
      BY <1>0, <2>1, LastOwnerLeaves
    <2>3. GrantFrontPhase(t, waitQueue, waitingWriters)
      BY <1>3 DEF ReleaseRead
    <2>. QED
      BY Zenon, <1>0, <2>2, <2>3, GrantPhase DEF RwInv
  <1>4. CASE activeReaders # 1
    <2>1. /\ activeReaders' = activeReaders - 1
          /\ UNCHANGED <<writerActive, waitingWriters, waitQueue, granted, waking>>
      BY <1>4 DEF ReleaseRead
    <2>2. activeReaders \in Nat /\ activeReaders > 1
      BY <1>0, <1>1, <1>4, OwnersOf DEF Types
    <2>3. \A u \in Thread : pc'[u] = IF u = t THEN "idle" ELSE pc[u]
      BY <1>0 DEF Types
    <2>4. Types'
      <3>1. pc' \in [Thread -> {"idle", "waiting", "holding"}] /\ activeReaders' \in Nat
        BY <1>0, <2>1, <2>2 DEF Types
      <3>. QED
        BY <1>0, <2>1, <3>1 DEF Types
    <2>5. \A u \in Thread : /\ Owner(u)' <=> Owner(u) /\ u # t
                            /\ Queued(u)' <=> Queued(u)
      BY <1>0, <2>1, <2>3 DEF Owner, Queued
    <2>6. /\ Holders("Reader")' = Holders("Reader") \ {t}
          /\ Holders("Writer")' = {}
      <3>1. \A j : /\ Holders(j)' = {u \in Thread : kind[u] = j /\ Owner(u)'}
                   /\ Holders(j) = {u \in Thread : kind[u] = j /\ Owner(u)}
        BY <1>0 DEF Holders, Owner
      <3>. QED
        BY <1>2, <2>5, <3>1
    <2>7. Counted'
      <3>1. Holders("Reader") \in SUBSET Thread
        BY DEF Holders
      <3>2. Cardinality(Holders("Reader") \ {t}) = Cardinality(Holders("Reader")) - 1
        BY <1>1, <3>1, ThreadsFinite, FS_RemoveElement
      <3>3. WaitingFor("Writer")' = WaitingFor("Writer")
        BY <1>0, <2>5 DEF WaitingFor
      <3>. QED
        BY <2>1, <2>6, <3>2, <3>3 DEF RwInv, Counted
    <2>8. Alone'
      BY <1>2, <2>1, <2>6 DEF Alone
    <2>9. QueueExact'
      BY <1>0, <2>1, <2>3, InQueue DEF RwInv, QueueExact, Queued, Distinct
    <2>10. NoIdleQueue'
      BY <2>1, <2>2 DEF NoIdleQueue
    <2>11. OwnersWoken'
      BY <1>0, <2>1, <2>3 DEF RwInv, OwnersWoken
    <2>. QED
      BY <2>4, <2>7, <2>8, <2>9, <2>10, <2>11 DEF RwInv
  <1>. QED
    BY <1>3, <1>4

\* The writer leaves.
LEMMA ReleaseWriteRw == ASSUME RwInv, NEW t \in Thread, ReleaseWrite(t) PROVE RwInv'
  <1>0. /\ Types /\ pc[t] = "holding" /\ kind[t] = "Writer" /\ waking[t] = {}
        /\ pc' = [pc EXCEPT ![t] = "idle"] /\ UNCHANGED <<blocked, kind, signal>>
        /\ GrantFrontPhase(t, waitQueue, waitingWriters)
    BY DEF RwInv, ReleaseWrite, Runs
  <1>1. t \in Holders("Writer")
    BY <1>0 DEF Holders
  <1>2. \A u \in Thread \ {t} : ~Owner(u)
    BY <1>1, OwnersOf
  <1>3. Unowned(t, waitQueue, waitingWriters)
    BY <1>0, <1>2, LastOwnerLeaves
  <1>. QED
    BY Zenon, <1>0, <1>3, GrantPhase DEF RwInv

\* An interrupted writer leaves the queue.
LEMMA GiveUpRw == ASSUME RwInv, NEW t \in Thread, GiveUp(t) PROVE RwInv'
  <1>. DEFINE q == Without(t)
              n == waitingWriters - 1
              S == {u \in Thread \ {t} : Queued(u) /\ kind[u] = "Writer"}
  <1>0. /\ Types /\ pc[t] = "waiting" /\ ~granted[t] /\ kind[t] = "Writer" /\ waking[t] = {}
        /\ pc' = [pc EXCEPT ![t] = "idle"] /\ UNCHANGED <<blocked, kind, signal>>
    BY DEF RwInv, GiveUp, Runs, Interrupted
  <1>1. waitQueue \in Seq(Waiter) /\ Distinct(waitQueue)
        /\ \E i \in 1 .. Len(waitQueue) : waitQueue[i].task = t
    BY <1>0 DEF RwInv, QueueExact, Queued, Types
  <1>2. /\ q \in Seq(Waiter) /\ Distinct(q)
        /\ \A i \in 1 .. Len(q) : /\ q[i].task # t
                                  /\ \E j \in 1 .. Len(waitQueue) : q[i] = waitQueue[j]
        /\ \A j \in 1 .. Len(waitQueue) :
               waitQueue[j].task # t => \E i \in 1 .. Len(q) : q[i] = waitQueue[j]
    BY <1>1, WithoutIsTheRest
  <1>3. n \in Nat /\ n = Cardinality(S)
    <2>1. WaitingFor("Writer") \in SUBSET Thread /\ t \in WaitingFor("Writer")
      BY <1>0 DEF WaitingFor, Queued
    <2>2. S = WaitingFor("Writer") \ {t}
      BY DEF WaitingFor
    <2>3. Cardinality(WaitingFor("Writer") \ {t}) = Cardinality(WaitingFor("Writer")) - 1
      BY <2>1, ThreadsFinite, FS_RemoveElement
    <2>4. Cardinality(WaitingFor("Writer") \ {t}) \in Nat
      BY <2>1, ThreadsFinite
    <2>. QED
      BY <2>2, <2>3, <2>4 DEF RwInv, Counted
  <1>4. \A i \in 1 .. Len(q) : /\ q[i].task # t /\ q[i].task \in Thread
                               /\ pc[q[i].task] = "waiting" /\ ~granted[q[i].task]
                               /\ q[i].kind = kind[q[i].task]
    BY <1>2, InQueue
  <1>5. \A u \in Thread : u # t /\ Queued(u) => \E i \in 1 .. Len(q) : q[i].task = u
    <2>. SUFFICES ASSUME NEW u \in Thread, u # t, Queued(u)
                  PROVE  \E i \in 1 .. Len(q) : q[i].task = u
      OBVIOUS
    <2>1. PICK j \in 1 .. Len(waitQueue) : waitQueue[j].task = u
      BY DEF RwInv, QueueExact
    <2>. QED
      BY <1>2, <2>1
  <1>6. CASE ~writerActive /\ activeReaders = 0
    <2>1. \A u \in Thread \ {t} : ~Owner(u)
      BY <1>6, OwnersOf DEF RwInv, Alone
    <2>2. Unowned(t, q, n)
      BY <1>2, <1>3, <1>4, <1>5, <2>1 DEF Unowned, Queued
    <2>3. GrantFrontPhase(t, q, n)
      BY <1>6 DEF GiveUp
    <2>. QED
      BY Zenon, <1>0, <2>2, <2>3, GrantPhase DEF RwInv
  <1>7. CASE ~(~writerActive /\ activeReaders = 0)
    <2>1. /\ waitQueue' = q /\ waitingWriters' = n
          /\ UNCHANGED <<activeReaders, writerActive, granted, waking>>
      BY <1>7 DEF GiveUp
    <2>. HIDE DEF q, n
    <2>2. \A u \in Thread : pc'[u] = IF u = t THEN "idle" ELSE pc[u]
      BY <1>0 DEF Types
    <2>3. Types'
      <3>1. pc' \in [Thread -> {"idle", "waiting", "holding"}]
        BY <1>0 DEF Types
      <3>. QED
        BY <1>0, <1>2, <1>3, <2>1, <3>1 DEF Types
    <2>4. \A u \in Thread : /\ Owner(u)' <=> Owner(u)
                            /\ Queued(u)' <=> Queued(u) /\ u # t
      BY <1>0, <2>1, <2>2 DEF Owner, Queued
    <2>5. \A j : Holders(j)' = Holders(j)
      <3>1. \A j : /\ Holders(j)' = {u \in Thread : kind[u] = j /\ Owner(u)'}
                   /\ Holders(j) = {u \in Thread : kind[u] = j /\ Owner(u)}
        BY <1>0 DEF Holders, Owner
      <3>. QED
        BY <2>4, <3>1
    <2>6. Counted'
      <3>1. WaitingFor("Writer")' = S
        BY <1>0, <2>4 DEF WaitingFor
      <3>. QED
        BY <1>3, <2>1, <2>5, <3>1 DEF RwInv, Counted
    <2>7. Alone'
      BY <2>1, <2>5 DEF RwInv, Alone
    <2>8. QueueExact'
      <3>1. \A i \in 1 .. Len(q) : /\ pc'[q[i].task] = "waiting" /\ ~granted'[q[i].task]
                                  /\ q[i].kind = kind'[q[i].task]
        BY <1>0, <1>4, <2>1, <2>2
      <3>2. \A u \in Thread : Queued(u)' => \E i \in 1 .. Len(q) : q[i].task = u
        BY <1>5, <2>4
      <3>. QED
        BY <1>2, <2>1, <3>1, <3>2 DEF QueueExact, Queued
    <2>9. NoIdleQueue'
      BY <1>0, <1>7, <2>1 DEF NoIdleQueue, Types
    <2>10. OwnersWoken'
      BY <1>0, <2>1, <2>2 DEF RwInv, OwnersWoken
    <2>. QED
      BY <2>3, <2>6, <2>7, <2>8, <2>9, <2>10 DEF RwInv
  <1>. QED
    BY <1>6, <1>7

\* Every step preserves the invariant.
LEMMA StepRw == RwInv /\ [Next]_vars => RwInv'
  <1>. SUFFICES ASSUME RwInv, [Next]_vars PROVE RwInv'
    OBVIOUS
  <1>1. CASE UNCHANGED vars
    <2>1. Types' /\ OwnersWoken' /\ UNCHANGED kind
      BY <1>1 DEF RwInv, Types, OwnersWoken, vars, lockVars
    <2>2. \A v \in Thread : (Owner(v)' <=> Owner(v)) /\ (Queued(v)' <=> Queued(v))
      BY <1>1 DEF Owner, Queued, vars, lockVars
    <2>. QED
      BY <1>1, <2>1, <2>2, SameOwners DEF vars, lockVars
  <1>2. ASSUME NEW t \in Thread, NEW k \in {"Reader", "Writer"}, Enter(t, k) \/ Wait(t, k)
        PROVE  RwInv'
    BY <1>2, EnterRw, WaitRw
  <1>3. ASSUME NEW t \in Thread, Finish(t) \/ Signal(t) \/ HandleSignal(t)
        PROVE  RwInv'
    BY <1>3, GrantedRw, BlockAgainRw, GiveUpRw, ReleaseReadRw, ReleaseWriteRw, WakeOneRw, SignalRw
       DEF Finish
  <1>. QED
    BY <1>1, <1>2, <1>3 DEF Next
-----------------------------------------------------------------------------
(* What the invariant says of the lock.                                    *)

\* As many writers are in the queue as threads wait to write.
LEMMA QueuedWriters ==
  ASSUME RwInv
  PROVE  Cardinality({i \in DOMAIN waitQueue : waitQueue[i].kind = "Writer"}) =
         Cardinality(WaitingFor("Writer"))
  <1>. DEFINE I == {i \in DOMAIN waitQueue : waitQueue[i].kind = "Writer"}
              f == [i \in I |-> waitQueue[i].task]
  <1>0. DOMAIN waitQueue = 1 .. Len(waitQueue) /\ Len(waitQueue) \in Nat
    BY LenProperties DEF RwInv, Types
  <1>1. IsFiniteSet(I)
    <2>1. IsFiniteSet(1 .. Len(waitQueue)) /\ I \in SUBSET (1 .. Len(waitQueue))
      BY <1>0, FS_Interval
    <2>. QED
      BY <2>1, FS_Subset
  <1>2. \A i \in I : i \in 1 .. Len(waitQueue) /\ f[i] = waitQueue[i].task
                    /\ f[i] \in WaitingFor("Writer")
    BY <1>0, InQueue DEF WaitingFor, Queued
  <1>3. \A t \in WaitingFor("Writer") : \E i \in I : f[i] = t
    <2>. SUFFICES ASSUME NEW t \in WaitingFor("Writer") PROVE \E i \in I : f[i] = t
      OBVIOUS
    <2>1. t \in Thread /\ Queued(t) /\ kind[t] = "Writer"
      BY DEF WaitingFor
    <2>2. PICK i \in 1 .. Len(waitQueue) : waitQueue[i].task = t
      BY <2>1 DEF RwInv, QueueExact
    <2>. QED
      BY <1>0, <2>1, <2>2, InQueue
  <1>4. \A i, j \in I : f[i] = f[j] => i = j
    BY SMTT(30), <1>2 DEF RwInv, QueueExact, Distinct
  <1>5. f \in [I -> WaitingFor("Writer")]
    BY Zenon, <1>2
  <1>. HIDE DEF f, I
  <1>6. f \in Bijection(I, WaitingFor("Writer"))
    <2>1. DOMAIN f = I
      BY <1>5
    <2>. QED
      BY <1>3, <1>4, <1>5, <2>1 DEF Bijection, Injection, Surjection, IsInjective
  <1>7. Cardinality(WaitingFor("Writer")) = Cardinality(I)
    BY <1>1, <1>6, FS_Bijection DEF ExistsBijection
  <1>. QED
    BY <1>7 DEF I

\* The counters are bounded by the number of threads.
LEMMA InvTypeOK == RwInv => TypeOK
  <1>. SUFFICES ASSUME RwInv PROVE TypeOK
    OBVIOUS
  <1>1. Holders("Reader") \in SUBSET Thread /\ WaitingFor("Writer") \in SUBSET Thread
    BY DEF Holders, WaitingFor
  <1>2. /\ Cardinality(Holders("Reader")) <= Cardinality(Thread)
        /\ Cardinality(WaitingFor("Writer")) <= Cardinality(Thread)
        /\ Cardinality(Thread) \in Nat
    BY <1>1, RwThreadAssumption, FS_Subset, FS_CardinalityType
  <1>3. activeReaders \in 0 .. Cardinality(Thread) /\ waitingWriters \in 0 .. Cardinality(Thread)
    BY <1>2 DEF RwInv, Counted, Types
  <1>. QED
    BY <1>3 DEF RwInv, Types, TypeOK

\* Owners and counters.
LEMMA InvExact == RwInv => Exclusion /\ CountersExact
  <1>. SUFFICES ASSUME RwInv PROVE Exclusion /\ CountersExact
    OBVIOUS
  <1>1. Exclusion
    BY OwnersOf DEF Exclusion
  <1>2. CountersExact
    BY QueuedWriters DEF CountersExact, RwInv, Counted, Alone
  <1>. QED
    BY <1>1, <1>2

\* The invariant holds in every reachable state.
LEMMA RwAlways == Spec => []RwInv
  BY InitRw, StepRw, PTL DEF Spec

(***************************************************************************)
(* active_readers and waiting_writers never pass the number of threads and *)
(* never go below zero: no decrement of SleepRwLockInner wraps.            *)
(***************************************************************************)
THEOREM RwTypeCorrect == Spec => []TypeOK
  BY RwAlways, InvTypeOK, PTL

(***************************************************************************)
(* A writer that returned from write() or was granted the lock owns it     *)
(* alone, whoever waits, is interrupted or is woken late.                  *)
(***************************************************************************)
THEOREM RwExclusion == Spec => []Exclusion
  BY RwAlways, InvExact, PTL

(***************************************************************************)
(* active_readers, writer_active and waiting_writers count the owners and  *)
(* the queue exactly, through every grant, release and interrupted wait.   *)
(***************************************************************************)
THEOREM RwCounters == Spec => []CountersExact
  BY RwAlways, InvExact, PTL

(***************************************************************************)
(* release_read, release_write and the interrupted path of acquire always  *)
(* start the next phase: a queue in front of a free lock never occurs.     *)
(***************************************************************************)
THEOREM RwNoIdleQueue == Spec => []NoIdleQueue
  <1>1. RwInv => NoIdleQueue
    BY DEF RwInv
  <1>. QED
    BY <1>1, RwAlways, PTL

(***************************************************************************)
(* A waiter that grant_front_phase made an owner is awake or on the list   *)
(* of threads that the granting thread is waking.                          *)
(***************************************************************************)
THEOREM RwOwnersWoken == Spec => []OwnersWoken
  <1>1. RwInv => OwnersWoken
    BY DEF RwInv
  <1>. QED
    BY <1>1, RwAlways, PTL
=============================================================================
