------------------------------ MODULE SleepLock ------------------------------
(***************************************************************************)
(* RawSleepLock (sync/raw_sleep_lock.rs) and the SleepMutex built on it.   *)
(*                                                                         *)
(* lock() and unlock() change the state under one short spin lock, so each *)
(* is one step, except that unlock() wakes the new owner after the spin    *)
(* lock is released.  The scheduler is what module Scheduler shows of it:  *)
(* a wakeup makes a Blocked thread runnable, also one that has not left    *)
(* its CPU yet, and does nothing to any other.                             *)
(***************************************************************************)
EXTENDS Naturals, Sequences, FiniteSets

CONSTANTS Thread, NoThread,
          Signals,      \* signals are delivered to waiting threads
          GroupExits    \* exec or exit_group terminates blocked siblings

ASSUME ThreadAssumption == NoThread \notin Thread /\ IsFiniteSet(Thread)
ASSUME SwitchAssumption == Signals \in BOOLEAN /\ GroupExits \in BOOLEAN

VARIABLES
    locked,         \* RawSleepLockInner::locked
    waitQueue,      \* RawSleepLockInner::wait_queue
    pc,             \* where each thread is
    status,         \* the part of TaskStatus that matters here
    waking,         \* the thread each unlock() has still to wake
    signalled       \* history: a signal has woken a thread inside lock()

vars == <<locked, waitQueue, pc, status, waking, signalled>>

Init ==
    /\ locked = FALSE
    /\ waitQueue = <<>>
    /\ pc = [t \in Thread |-> "idle"]
    /\ status = [t \in Thread |-> "Runnable"]
    /\ waking = [t \in Thread |-> NoThread]
    /\ signalled = FALSE

\* The thread can take its next step.
Runs(t) == status[t] = "Runnable" /\ waking[t] = NoThread

\* Mutant: a waiter is queued at the front.
MutLockLifo(t) ==
    /\ pc[t] = "idle" /\ Runs(t)
    /\ IF locked
       THEN /\ status' = [status EXCEPT ![t] = "Blocked"]
            /\ waitQueue' = <<t>> \o waitQueue
            /\ pc' = [pc EXCEPT ![t] = "waiting"]
            /\ UNCHANGED locked
       ELSE /\ locked' = TRUE
            /\ pc' = [pc EXCEPT ![t] = "critical"]
            /\ UNCHANGED <<status, waitQueue>>
    /\ UNCHANGED <<waking, signalled>>

\* lock(): take a free lock, or publish Blocked and join the queue.
Lock(t) ==
    /\ pc[t] = "idle" /\ Runs(t)
    /\ IF locked
       THEN /\ status' = [status EXCEPT ![t] = "Blocked"]
            /\ waitQueue' = Append(waitQueue, t)
            /\ pc' = [pc EXCEPT ![t] = "waiting"]
            /\ UNCHANGED locked
       ELSE /\ locked' = TRUE
            /\ pc' = [pc EXCEPT ![t] = "critical"]
            /\ UNCHANGED <<status, waitQueue>>
    /\ UNCHANGED <<waking, signalled>>

\* try_lock() that succeeds; one that fails changes nothing.
TryLock(t) ==
    /\ pc[t] = "idle" /\ Runs(t)
    /\ ~locked
    /\ locked' = TRUE
    /\ pc' = [pc EXCEPT ![t] = "critical"]
    /\ UNCHANGED <<status, waitQueue, waking, signalled>>

\* schedule() returns in lock(), which does not look at the lock again.
Resume(t) ==
    /\ pc[t] = "waiting" /\ Runs(t)
    /\ pc' = [pc EXCEPT ![t] = "critical"]
    /\ UNCHANGED <<locked, waitQueue, status, waking, signalled>>

\* Mutant: the lock is freed although it was handed to a waiter.
MutUnlockFrees(t) ==
    /\ pc[t] = "critical" /\ Runs(t)
    /\ pc' = [pc EXCEPT ![t] = "idle"]
    /\ IF waitQueue # <<>>
       THEN /\ waitQueue' = Tail(waitQueue)
            /\ waking' = [waking EXCEPT ![t] = Head(waitQueue)]
       ELSE UNCHANGED <<waitQueue, waking>>
    /\ locked' = FALSE
    /\ UNCHANGED <<status, signalled>>

\* Mutant: the waiter is looked at but stays in the queue.
MutUnlockPeeks(t) ==
    /\ pc[t] = "critical" /\ Runs(t)
    /\ pc' = [pc EXCEPT ![t] = "idle"]
    /\ IF waitQueue # <<>>
       THEN /\ waking' = [waking EXCEPT ![t] = Head(waitQueue)]
            /\ UNCHANGED locked
       ELSE /\ locked' = FALSE
            /\ UNCHANGED waking
    /\ UNCHANGED <<status, waitQueue, signalled>>

\* unlock(): hand the lock to the oldest waiter, or free it.
Unlock(t) ==
    /\ pc[t] = "critical" /\ Runs(t)
    /\ pc' = [pc EXCEPT ![t] = "idle"]
    /\ IF waitQueue # <<>>
       THEN /\ waitQueue' = Tail(waitQueue)
            /\ waking' = [waking EXCEPT ![t] = Head(waitQueue)]
            /\ UNCHANGED locked
       ELSE /\ locked' = FALSE
            /\ UNCHANGED <<waitQueue, waking>>
    /\ UNCHANGED <<status, signalled>>

\* wakeup_task, after the spin lock was released.
Wake(t) ==
    /\ waking[t] # NoThread
    /\ status' = [status EXCEPT ![waking[t]] = IF @ = "Blocked" THEN "Runnable" ELSE @]
    /\ waking' = [waking EXCEPT ![t] = NoThread]
    /\ UNCHANGED <<locked, waitQueue, pc, signalled>>

\* queue_signal_to_task wakes its target whatever it is blocked on.
Signal(t) ==
    /\ Signals
    /\ status[t] = "Blocked"
    /\ status' = [status EXCEPT ![t] = "Runnable"]
    /\ signalled' = TRUE
    /\ UNCHANGED <<locked, waitQueue, pc, waking>>

\* terminate_sibling_threads marks a sibling that is off its CPU Exited, whatever
\* it was doing in the kernel.
Terminate(t) ==
    /\ GroupExits
    /\ status[t] # "Exited" /\ waking[t] = NoThread
    /\ status' = [status EXCEPT ![t] = "Exited"]
    /\ UNCHANGED <<locked, waitQueue, pc, waking, signalled>>

Step(t) == Lock(t) \/ TryLock(t) \/ Resume(t) \/ Unlock(t) \/ Wake(t)

Next == \E t \in Thread : Step(t) \/ Signal(t) \/ Terminate(t)

Spec == Init /\ [][Next]_vars

\* A runnable thread runs: it finishes its wakeup, leaves lock() and, since
\* critical sections end, unlocks.  Nothing makes a thread call lock().
Fairness ==
    \A t \in Thread : WF_vars(Resume(t)) /\ WF_vars(Unlock(t)) /\ WF_vars(Wake(t))

FairSpec == Spec /\ Fairness

-----------------------------------------------------------------------------
Types ==
    /\ locked \in BOOLEAN
    /\ waitQueue \in Seq(Thread)
    /\ pc \in [Thread -> {"idle", "waiting", "critical"}]
    /\ status \in [Thread -> {"Runnable", "Blocked", "Exited"}]
    /\ waking \in [Thread -> Thread \cup {NoThread}]
    /\ signalled \in BOOLEAN

\* The types of the fields; the queue holds at most one entry per thread, even
\* when a thread is queued twice.
TypeOK == Types /\ Len(waitQueue) <= Cardinality(Thread)

InQueue(t) == \E i \in DOMAIN waitQueue : waitQueue[i] = t

\* Who holds the lock: a thread past lock(), or the waiter it was handed to.
Holds(t) == pc[t] = "critical" \/ (pc[t] = "waiting" /\ ~InQueue(t))

Owner == IF \E t \in Thread : Holds(t) THEN CHOOSE t \in Thread : Holds(t) ELSE NoThread

\* "a later caller cannot steal it before that waiter runs": at most one thread
\* is in the section the lock protects, and while an unlock has yet to wake the
\* waiter it chose, none is.
Mutex ==
    \A t, u \in Thread : pc[t] = "critical" /\ Holds(u) => t = u

\* "raw sleeping lock released without ownership": the assertion of unlock()
\* never fails, even when signals let several threads past lock() at once.
ReleasedWithOwnership == \A t \in Thread : pc[t] = "critical" => locked

\* The same, of the code as it is: until a signal wakes a thread inside lock(),
\* which lock() takes for the handoff, no two threads are in the section, exits of
\* blocked siblings included.
MutexUntilSignal == signalled \/ Mutex

\* lock(), try_lock() and unlock() implement a lock with one owner and FIFO handoff,
\* in every step up to the first signal that wakes a thread inside lock().
Fifo == INSTANCE FifoLock WITH owner <- Owner, line <- waitQueue
FifoHandoff == Fifo!FifoInit /\ [][signalled' \/ Fifo!FifoNext]_(Fifo!fifoVars)

\* Every thread that waits gets the lock in the end.
WaitersServed == \A t \in Thread : (pc[t] = "waiting") ~> (pc[t] = "critical")

\* "the lock remains logically held while the oldest waiter is woken": the waiter
\* it was handed to runs in the end.  This holds while no sibling is terminated,
\* and fails with GroupExits: a lock handed to a terminated thread stays locked.
HandoffRuns ==
    \A t \in Thread : (pc[t] = "waiting" /\ ~InQueue(t)) ~> (pc[t] = "critical")

=============================================================================
