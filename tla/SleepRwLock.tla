----------------------------- MODULE SleepRwLock -----------------------------
(***************************************************************************)
(* SleepRwLock (sync/sleep_rwlock.rs): a sleeping reader/writer lock that  *)
(* hands ownership to the front of its queue before it wakes anyone.       *)
(*                                                                         *)
(* Each operation is one step under the short spin lock; the wakeups it    *)
(* decided on follow one by one.  Signals may wake a waiter at any time.   *)
(***************************************************************************)
EXTENDS Integers, Sequences, FiniteSets

CONSTANTS Thread,
          Interruptible     \* the threads that use write_interruptible()

ASSUME RwThreadAssumption == IsFiniteSet(Thread)
ASSUME InterruptibleAssumption == Interruptible \subseteq Thread

VARIABLES
    activeReaders,      \* SleepRwLockInner::active_readers
    writerActive,       \* SleepRwLockInner::writer_active
    waitingWriters,     \* SleepRwLockInner::waiting_writers
    waitQueue,          \* SleepRwLockInner::wait_queue, waiters [kind, task]
    granted,            \* Waiter::granted of the thread's last waiter
    pc, blocked,        \* where each thread is, and whether it is Blocked
    kind,               \* what the thread asked for last
    signal,             \* the thread has an interrupting signal pending
    waking              \* the threads each thread has still to wake

lockVars == <<activeReaders, writerActive, waitingWriters, waitQueue, granted>>
vars == <<lockVars, pc, blocked, kind, signal, waking>>

Waiter == [kind : {"Reader", "Writer"}, task : Thread]

Init ==
    /\ activeReaders = 0
    /\ writerActive = FALSE
    /\ waitingWriters = 0
    /\ waitQueue = <<>>
    /\ granted = [t \in Thread |-> FALSE]
    /\ pc = [t \in Thread |-> "idle"]
    /\ blocked = [t \in Thread |-> FALSE]
    /\ kind = [t \in Thread |-> "Reader"]
    /\ signal = [t \in Thread |-> FALSE]
    /\ waking = [t \in Thread |-> {}]

Runs(t) == ~blocked[t] /\ waking[t] = {}
Interrupted(t) == t \in Interruptible /\ kind'[t] = "Writer" /\ signal[t]

CanReadDirectly == ~writerActive /\ waitingWriters = 0

\* Mutant: a writer does not look at the readers inside.
MutWriteAmongReaders == ~writerActive /\ waitQueue = <<>>

CanWriteDirectly == ~writerActive /\ activeReaders = 0 /\ waitQueue = <<>>
CanEnter(k) == IF k = "Reader" THEN CanReadDirectly ELSE CanWriteDirectly

\* acquire(): the direct path.
Enter(t, k) ==
    /\ pc[t] = "idle" /\ Runs(t)
    /\ CanEnter(k)
    /\ activeReaders' = IF k = "Reader" THEN activeReaders + 1 ELSE activeReaders
    /\ writerActive' = (k = "Writer" \/ writerActive)
    /\ kind' = [kind EXCEPT ![t] = k]
    /\ pc' = [pc EXCEPT ![t] = "holding"]
    /\ UNCHANGED <<waitingWriters, waitQueue, granted, blocked, signal, waking>>

\* acquire(): the caller is refused by a pending signal, or queues and blocks.
Wait(t, k) ==
    /\ pc[t] = "idle" /\ Runs(t)
    /\ ~CanEnter(k)
    /\ kind' = [kind EXCEPT ![t] = k]
    /\ IF Interrupted(t)
       THEN UNCHANGED <<lockVars, pc, blocked>>
       ELSE /\ waitQueue' = Append(waitQueue, [kind |-> k, task |-> t])
            /\ waitingWriters' = waitingWriters + (IF k = "Writer" THEN 1 ELSE 0)
            /\ granted' = [granted EXCEPT ![t] = FALSE]
            /\ pc' = [pc EXCEPT ![t] = "waiting"]
            /\ blocked' = [blocked EXCEPT ![t] = TRUE]
            /\ UNCHANGED <<activeReaders, writerActive>>
    /\ UNCHANGED <<signal, waking>>

\* grant_front_phase on queue q, of a lock nobody holds and with w writers
\* queued: t is going to wake the writer at the front, or the readers before the
\* first writer.
Readers(q) == LET writers == {i \in DOMAIN q : q[i].kind = "Writer"} IN
              IF writers = {} THEN Len(q)
              ELSE (CHOOSE i \in writers : \A j \in writers : i <= j) - 1

\* Mutant: the granted writer is still counted as waiting.
MutGrantKeepsCount(t, q, w) ==
    LET write == q # <<>> /\ Head(q).kind = "Writer"
        n == IF write THEN 1 ELSE Readers(q)
        chosen == {q[i].task : i \in 1 .. n} IN
    /\ waitQueue' = SubSeq(q, n + 1, Len(q))
    /\ writerActive' = write
    /\ activeReaders' = IF write THEN 0 ELSE n
    /\ waitingWriters' = w
    /\ granted' = [u \in Thread |-> granted[u] \/ u \in chosen]
    /\ waking' = [waking EXCEPT ![t] = chosen]

\* Mutant: of a batch of readers only the first is woken.
MutGrantWakesFront(t, q, w) ==
    LET write == q # <<>> /\ Head(q).kind = "Writer"
        n == IF write THEN 1 ELSE Readers(q)
        chosen == {q[i].task : i \in 1 .. n} IN
    /\ waitQueue' = SubSeq(q, n + 1, Len(q))
    /\ writerActive' = write
    /\ activeReaders' = IF write THEN 0 ELSE n
    /\ waitingWriters' = IF write THEN w - 1 ELSE w
    /\ granted' = [u \in Thread |-> granted[u] \/ u \in chosen]
    /\ waking' = [waking EXCEPT ![t] = IF q = <<>> THEN {} ELSE {Head(q).task}]

GrantFrontPhase(t, q, w) ==
    LET write == q # <<>> /\ Head(q).kind = "Writer"
        n == IF write THEN 1 ELSE Readers(q)
        chosen == {q[i].task : i \in 1 .. n} IN
    /\ waitQueue' = SubSeq(q, n + 1, Len(q))
    /\ writerActive' = write
    /\ activeReaders' = IF write THEN 0 ELSE n
    /\ waitingWriters' = IF write THEN w - 1 ELSE w
    /\ granted' = [u \in Thread |-> granted[u] \/ u \in chosen]
    /\ waking' = [waking EXCEPT ![t] = chosen]

\* The loop in acquire(): the thread was granted the lock and returns,
Granted(t) ==
    /\ pc[t] = "waiting" /\ Runs(t)
    /\ granted[t]
    /\ pc' = [pc EXCEPT ![t] = "holding"]
    /\ UNCHANGED <<lockVars, blocked, kind, signal, waking>>

\* or was woken by something else and blocks again,
BlockAgain(t) ==
    /\ pc[t] = "waiting" /\ Runs(t)
    /\ ~granted[t] /\ UNCHANGED kind /\ ~Interrupted(t)
    /\ blocked' = [blocked EXCEPT ![t] = TRUE]
    /\ UNCHANGED <<lockVars, pc, signal, waking>>

\* remove_waiter: the entry of t leaves the queue.
Without(t) ==
    LET position == CHOOSE i \in DOMAIN waitQueue : waitQueue[i].task = t
    IN SubSeq(waitQueue, 1, position - 1) \o SubSeq(waitQueue, position + 1, Len(waitQueue))

\* or gives up, which can let the next phase begin.
GiveUp(t) ==
    LET q == Without(t)
        n == waitingWriters - 1 IN
    /\ pc[t] = "waiting" /\ Runs(t)
    /\ ~granted[t] /\ UNCHANGED kind /\ Interrupted(t)
    /\ IF ~writerActive /\ activeReaders = 0
       THEN GrantFrontPhase(t, q, n)
       ELSE /\ waitQueue' = q
            /\ waitingWriters' = n
            /\ UNCHANGED <<activeReaders, writerActive, granted, waking>>
    /\ pc' = [pc EXCEPT ![t] = "idle"]
    /\ UNCHANGED <<blocked, signal>>

\* Mutant: the last reader leaves without starting the next phase.
MutReleaseForgetsQueue(t) ==
    /\ pc[t] = "holding" /\ kind[t] = "Reader" /\ Runs(t)
    /\ activeReaders' = activeReaders - 1
    /\ UNCHANGED <<writerActive, waitingWriters, waitQueue, granted, waking>>
    /\ pc' = [pc EXCEPT ![t] = "idle"]
    /\ UNCHANGED <<blocked, kind, signal>>

ReleaseRead(t) ==
    /\ pc[t] = "holding" /\ kind[t] = "Reader" /\ Runs(t)
    /\ IF activeReaders = 1
       THEN GrantFrontPhase(t, waitQueue, waitingWriters)
       ELSE /\ activeReaders' = activeReaders - 1
            /\ UNCHANGED <<writerActive, waitingWriters, waitQueue, granted, waking>>
    /\ pc' = [pc EXCEPT ![t] = "idle"]
    /\ UNCHANGED <<blocked, kind, signal>>

ReleaseWrite(t) ==
    /\ pc[t] = "holding" /\ kind[t] = "Writer" /\ Runs(t)
    /\ GrantFrontPhase(t, waitQueue, waitingWriters)
    /\ pc' = [pc EXCEPT ![t] = "idle"]
    /\ UNCHANGED <<blocked, kind, signal>>

\* wake_all, after the spin lock was released.
WakeOne(t) ==
    \E u \in waking[t] :
        /\ blocked' = [blocked EXCEPT ![u] = FALSE]
        /\ waking' = [waking EXCEPT ![t] = @ \ {u}]
        /\ UNCHANGED <<lockVars, pc, kind, signal>>

\* A signal arrives, waking its target, and is handled outside the lock.
Signal(t) ==
    /\ ~signal[t]
    /\ signal' = [signal EXCEPT ![t] = TRUE]
    /\ blocked' = [blocked EXCEPT ![t] = FALSE]
    /\ UNCHANGED <<lockVars, pc, kind, waking>>

HandleSignal(t) ==
    /\ signal[t] /\ pc[t] = "idle" /\ Runs(t)
    /\ signal' = [signal EXCEPT ![t] = FALSE]
    /\ UNCHANGED <<lockVars, pc, blocked, kind, waking>>

Finish(t) == \/ Granted(t) \/ BlockAgain(t) \/ GiveUp(t)
             \/ ReleaseRead(t) \/ ReleaseWrite(t) \/ WakeOne(t)

Next == \E t \in Thread :
            \/ \E k \in {"Reader", "Writer"} : Enter(t, k) \/ Wait(t, k)
            \/ Finish(t) \/ Signal(t) \/ HandleSignal(t)

Spec == Init /\ [][Next]_vars

\* A thread inside the lock goes on: wakeups are made, waiters that were woken
\* look at their grant, holders release.
FairSpec == Spec /\ \A t \in Thread : WF_vars(Finish(t))

-----------------------------------------------------------------------------
\* The type invariant: the counters, the wait queue and the threads.
TypeOK ==
    /\ activeReaders \in 0 .. Cardinality(Thread)
    /\ writerActive \in BOOLEAN
    /\ waitingWriters \in 0 .. Cardinality(Thread)
    /\ waitQueue \in Seq(Waiter)
    /\ granted \in [Thread -> BOOLEAN]
    /\ pc \in [Thread -> {"idle", "waiting", "holding"}]
    /\ blocked \in [Thread -> BOOLEAN]
    /\ kind \in [Thread -> {"Reader", "Writer"}]
    /\ signal \in [Thread -> BOOLEAN]
    /\ waking \in [Thread -> SUBSET Thread]

\* The threads that own the lock for reading or for writing: they returned from
\* acquire(), or have been granted it and will.
Holders(k) == {t \in Thread : /\ kind[t] = k
                              /\ pc[t] = "holding" \/ (pc[t] = "waiting" /\ granted[t])}

\* A writer owns the lock alone, through every handoff, interruption and late
\* wakeup.
Exclusion ==
    \A w \in Holders("Writer") : Holders("Writer") \cup Holders("Reader") = {w}

\* The counters tell the truth: the readers inside, the writer inside and the
\* writers in the queue are the ones active_readers, writer_active and
\* waiting_writers count, so the direct paths and grant_front_phase decide on the
\* real state.
CountersExact ==
    /\ activeReaders = Cardinality(Holders("Reader"))
    /\ writerActive <=> Holders("Writer") # {}
    /\ waitingWriters = Cardinality({i \in DOMAIN waitQueue : waitQueue[i].kind = "Writer"})

\* Nobody waits for a lock that nobody owns: every release and every interrupted
\* waiter starts the next phase.
NoIdleQueue == waitQueue # <<>> => activeReaders > 0 \/ writerActive

\* "Ownership is handed to the queue front before wakeup": an owner that still
\* sleeps is about to be woken by the thread that granted it the lock.
OwnersWoken ==
    \A t \in Thread : pc[t] = "waiting" /\ granted[t] /\ blocked[t] =>
        \E u \in Thread : t \in waking[u]

\* "A sleeping, FIFO phase-fair reader/writer lock": every waiter gets the lock
\* or, if interruptible, gives up.  It holds when nobody is interruptible; readers
\* that an interrupted writer leaves at the front of the queue can wait for ever,
\* for new readers go on entering directly.
WaitersLeave == \A t \in Thread : (pc[t] = "waiting") ~> (pc[t] # "waiting")

=============================================================================
