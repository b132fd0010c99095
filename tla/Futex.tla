------------------------------- MODULE Futex -------------------------------
(***************************************************************************)
(* Futex wait, wake and requeue (task/futex.rs).  Waiters queue per key in *)
(* hash buckets; a critical section under the bucket lock is one action.   *)
(* waiter.bucket and waiter.state are atomics which the cleanup after a    *)
(* wait reads without the lock, so its reads are steps of their own.       *)
(*                                                                         *)
(* A thread that stores a new value wakes every waiter of the word next,   *)
(* as the users of FUTEX_WAKE do.  The kernel is not preempted, so a       *)
(* terminated sibling is in user mode or asleep in futex_wait.             *)
(***************************************************************************)
EXTENDS Integers, Sequences, SequencesExt, FiniteSets

CONSTANTS Waiter, Waker,   \* the threads that wait, and the ones that wake
          Word,        \* futex words, each with its key
          Bucket,      \* bucket_index of a key
          Bits,        \* the bits of FUTEX_BITSET_MATCH_ANY
          Timed,       \* threads that wait with a timeout
          Signalled,   \* threads that get signals
          Killed,      \* threads an exec or an exit of the group terminates
          NoThread, NoWord, NoBucket

FutexThread == Waiter \cup Waker

VARIABLES
    value,      \* the user word, 0 or 1
    queue,      \* FutexBucket::waiters of a key; a thread stands for its waiter
    state,      \* FutexWaiter::state
    bucket,     \* FutexWaiter::bucket
    taskBucket, \* TaskControlBlock::futex_wait_bucket
    bits,       \* FutexWaiter::bitset
    status,     \* TaskStatus, Ready and Running as one
    at,         \* where the thread is in a futex call
    word,       \* the word of that call
    expected,   \* the value the wait compares with; -1 once it has been requeued
    seen,       \* the bucket index a cleanup, or the removal of a task, has read
    expired,    \* futex_timeout_expired of this wait
    timers,     \* entries of this thread in TIMERS: this wait's and older ones
    signal,     \* a deliverable signal is pending
    woken,      \* waiters dequeued by this thread and not yet woken up
    victim,     \* the sibling whose waiter remove_tasks looks for
    fault       \* the assertion that failed, "none" otherwise

waitVars == <<queue, state, bucket, taskBucket, bits>>
callVars == <<at, word, expected, seen, victim>>
timeVars == <<expired, timers, signal>>
vars == <<value, waitVars, status, callVars, timeVars, woken, fault>>

Init ==
    /\ value = [w \in Word |-> 0]
    /\ queue = [w \in Word |-> <<>>]
    /\ state = [t \in FutexThread |-> "cancelled"]
    /\ bucket = [t \in FutexThread |-> NoBucket]
    /\ taskBucket = [t \in FutexThread |-> NoBucket]
    /\ bits = [t \in FutexThread |-> Bits]
    /\ status = [t \in FutexThread |-> "Runnable"]
    /\ at = [t \in FutexThread |-> "user"]
    /\ word = [t \in FutexThread |-> NoWord]
    /\ expected = [t \in FutexThread |-> 0]
    /\ seen = [t \in FutexThread |-> NoBucket]
    /\ expired = [t \in FutexThread |-> FALSE]
    /\ timers = [t \in FutexThread |-> [own |-> FALSE, stale |-> FALSE]]
    /\ signal = [t \in FutexThread |-> FALSE]
    /\ woken = [t \in FutexThread |-> <<>>]
    /\ victim = [t \in FutexThread |-> NoThread]
    /\ fault = "none"

Runs(t, place) == status[t] = "Runnable" /\ at[t] = place
Go(t, place) == at' = [at EXCEPT ![t] = place]
Queued(t, w) == Contains(queue[w], t)
FaultUnless(ok, text) == fault' = IF ok THEN "none" ELSE text

-----------------------------------------------------------------------------
(* futex_wait.                                                             *)

\* The first read, which faults the word in, and the early returns after it.
\* Whatever it returns at once leaves no trace.
BeginWait(t, w, e, mask) ==
    /\ Runs(t, "user") /\ woken[t] = <<>>
    /\ value[w] = e /\ ~signal[t]
    /\ word' = [word EXCEPT ![t] = w]
    /\ expected' = [expected EXCEPT ![t] = e]
    /\ bits' = [bits EXCEPT ![t] = mask]
    /\ expired' = [expired EXCEPT ![t] = FALSE]
    /\ Go(t, "compare")
    /\ UNCHANGED <<value, queue, state, bucket, taskBucket, status, seen, victim,
                   timers, signal, woken, fault>>

\* Return to user mode: the waiter is dropped, a timer the wait armed stays in
\* the heap.
Return(t) ==
    /\ Go(t, "user")
    /\ word' = [word EXCEPT ![t] = NoWord]
    /\ expected' = [expected EXCEPT ![t] = 0]
    /\ bits' = [bits EXCEPT ![t] = Bits]
    /\ bucket' = [bucket EXCEPT ![t] = NoBucket]
    /\ seen' = [seen EXCEPT ![t] = NoBucket]
    /\ expired' = [expired EXCEPT ![t] = FALSE]
    /\ timers' = [timers EXCEPT ![t] = [own |-> FALSE, stale |-> @.own \/ @.stale]]
    /\ UNCHANGED victim

\* Mutant: the value is not read again under the bucket lock.
MutMayBlock(t) == ~expired[t] /\ ~signal[t]

\* The second read under the bucket lock, the deadline, and
\* block_current_task_no_schedule_unless_interrupting_signal.
MayBlock(t) == value[word[t]] = expected[t] /\ ~expired[t] /\ ~signal[t]

\* block_current_on, in the critical section of MayBlock; add_timer follows.
Block(t) ==
    LET w == word[t] IN
    /\ Runs(t, "compare") /\ MayBlock(t)
    /\ FaultUnless(taskBucket[t] = NoBucket, "task entered a second futex wait")
    /\ status' = [status EXCEPT ![t] = "Blocked"]
    /\ taskBucket' = [taskBucket EXCEPT ![t] = Bucket[w]]
    /\ bucket' = [bucket EXCEPT ![t] = Bucket[w]]
    /\ state' = [state EXCEPT ![t] = "queued"]
    /\ queue' = [queue EXCEPT ![w] = Append(@, t)]
    /\ timers' = [timers EXCEPT ![t].own = t \in Timed]
    /\ Go(t, "sleep")
    /\ UNCHANGED <<value, bits, word, expected, seen, victim, expired, signal, woken>>

\* EAGAIN, ETIMEDOUT or EINTR before the thread sleeps.
DontBlock(t) ==
    /\ Runs(t, "compare") /\ ~MayBlock(t)
    /\ Return(t)
    /\ UNCHANGED <<value, queue, state, taskBucket, status, signal, woken, fault>>

\* schedule() returns; remove_waiter_for_task loads the state,
LoadState(t) ==
    /\ Runs(t, "sleep") \/ Runs(t, "retry")
    /\ IF state[t] = "queued"
       THEN /\ Go(t, "index")
            /\ UNCHANGED <<bits, bucket, word, expected, seen, victim, expired, timers>>
       ELSE Return(t)
    /\ UNCHANGED <<value, queue, state, taskBucket, status, signal, woken, fault>>

\* then the bucket index,
LoadBucket(t) ==
    /\ Runs(t, "index")
    /\ seen' = [seen EXCEPT ![t] = bucket[t]]
    /\ Go(t, "lock")
    /\ UNCHANGED <<value, waitVars, status, word, expected, victim, timeVars, woken, fault>>

InBucket(t, b) == {w \in Word : Bucket[w] = b /\ Queued(t, w)}

\* Take the waiter out of every queue of the bucket and cancel it.
RemoveQueued(t, b) ==
    /\ queue' = [w \in Word |-> IF Bucket[w] = b THEN Remove(queue[w], t) ELSE queue[w]]
    /\ state' = [state EXCEPT ![t] = "cancelled"]
    /\ FaultUnless(taskBucket[t] = b, "futex waiter lost its bucket ownership")
    /\ taskBucket' = [taskBucket EXCEPT ![t] = NoBucket]

\* then it locks that bucket and looks for the waiter, if it is still the one.
Cleanup(t) ==
    /\ Runs(t, "lock")
    /\ IF bucket[t] = seen[t] /\ InBucket(t, seen[t]) # {}
       THEN RemoveQueued(t, seen[t]) /\ Return(t)
       ELSE /\ Go(t, "retry")
            /\ UNCHANGED <<waitVars, word, expected, seen, victim, expired, timers, fault>>
    /\ UNCHANGED <<value, status, signal, woken>>

-----------------------------------------------------------------------------
(* futex_wake and futex_requeue.                                           *)

UserStore(t, w) ==
    /\ Runs(t, "user") /\ woken[t] = <<>>
    /\ value' = [value EXCEPT ![w] = 1 - @]
    /\ word' = [word EXCEPT ![t] = w]
    /\ Go(t, "stored")
    /\ UNCHANGED <<waitVars, status, expected, seen, victim, timeVars, woken, fault>>

\* Mark the waiters of `chosen', a subsequence of the queue of w, woken.
Dequeue(t, w, chosen) ==
    /\ state' = [u \in FutexThread |-> IF Contains(chosen, u) THEN "woken" ELSE state[u]]
    /\ FaultUnless(\A u \in ToSet(chosen) : taskBucket[u] = Bucket[w],
                   "futex waiter lost its bucket ownership")
    /\ woken' = [woken EXCEPT ![t] = chosen]

Wanted(w, mask, limit) ==
    LET match == SelectSeq(queue[w], LAMBDA u : bits[u] \cap mask # {}) IN
    SubSeq(match, 1, IF limit < Len(match) THEN limit ELSE Len(match))

\* wake and wake_one: the first `limit' waiters whose bits match.
Wake(t, w, limit, mask) ==
    LET chosen == Wanted(w, mask, limit) IN
    /\ woken[t] = <<>>
    /\ \/ Runs(t, "user")
       \/ Runs(t, "stored") /\ w = word[t] /\ limit = Cardinality(FutexThread) /\ mask = Bits
    /\ Dequeue(t, w, chosen)
    /\ queue' = [queue EXCEPT ![w] = SelectSeq(@, LAMBDA u : ~Contains(chosen, u))]
    /\ taskBucket' = [u \in FutexThread |-> IF Contains(chosen, u) THEN NoBucket
                                                             ELSE taskBucket[u]]
    /\ Go(t, "user")
    /\ word' = [word EXCEPT ![t] = NoWord]
    /\ UNCHANGED <<value, bucket, bits, status, expected, seen, victim, timeVars>>

\* requeue, with both buckets locked: wake the first `limit' waiters, move the
\* next `moves'.  A moved waiter gets its new bucket index after it is queued.
Requeue(t, from, to, limit, moves) ==
    LET chosen == SubSeq(queue[from], 1, IF limit < Len(queue[from]) THEN limit
                                                                     ELSE Len(queue[from]))
        rest == SubSeq(queue[from], Len(chosen) + 1, Len(queue[from]))
        moved == SubSeq(rest, 1, IF moves < Len(rest) THEN moves ELSE Len(rest)) IN
    /\ Runs(t, "user") /\ woken[t] = <<>> /\ from # to
    /\ Dequeue(t, from, chosen)
    /\ queue' = [queue EXCEPT ![from] = SubSeq(rest, Len(moved) + 1, Len(rest)),
                              ![to] = @ \o moved]
    /\ bucket' = [u \in FutexThread |-> IF Contains(moved, u) THEN Bucket[to] ELSE bucket[u]]
    /\ taskBucket' = [u \in FutexThread |-> IF Contains(chosen, u) THEN NoBucket
                                       ELSE IF Contains(moved, u) THEN Bucket[to]
                                       ELSE taskBucket[u]]
    /\ expected' = [u \in FutexThread |-> IF Contains(moved, u) THEN -1 ELSE expected[u]]
    /\ UNCHANGED <<value, bits, status, at, word, seen, victim, timeVars>>

\* wakeup_front_task: a Blocked task becomes Ready, any other is left alone.
Wakeup(u) == status' = [status EXCEPT ![u] = IF @ = "Blocked" THEN "Runnable" ELSE @]

\* wake_futex_tasks, after the bucket lock is dropped.
WakeDequeued(t) ==
    /\ woken[t] # <<>> /\ status[t] = "Runnable"
    /\ Wakeup(Head(woken[t]))
    /\ woken' = [woken EXCEPT ![t] = Tail(@)]
    /\ UNCHANGED <<value, waitVars, callVars, timeVars, fault>>

-----------------------------------------------------------------------------
(* Time, signals and termination.                                          *)

Expire(t) ==
    /\ at[t] # "user" /\ t \in Timed /\ ~expired[t]
    /\ expired' = [expired EXCEPT ![t] = TRUE]
    /\ UNCHANGED <<value, waitVars, status, callVars, timers, signal, woken, fault>>

\* check_timer pops an entry whose time has come and wakes its task, whatever
\* the task is blocked in by now.
FireTimer(t) ==
    /\ \/ /\ timers[t].own /\ expired[t]
          /\ timers' = [timers EXCEPT ![t].own = FALSE]
       \/ /\ timers[t].stale
          /\ timers' = [timers EXCEPT ![t].stale = FALSE]
    /\ Wakeup(t)
    /\ UNCHANGED <<value, waitVars, callVars, expired, signal, woken, fault>>

\* queue_signal_to_task wakes the task it finds Blocked.
Signal(t) ==
    /\ t \in Signalled /\ ~signal[t] /\ status[t] # "Exited"
    /\ signal' = [signal EXCEPT ![t] = TRUE]
    /\ Wakeup(t)
    /\ UNCHANGED <<value, waitVars, callVars, expired, timers, woken, fault>>

\* The signal is handled on the way back to user mode.
HandleSignal(t) ==
    /\ signal[t] /\ Runs(t, "user")
    /\ signal' = [signal EXCEPT ![t] = FALSE]
    /\ UNCHANGED <<value, waitVars, status, callVars, expired, timers, woken, fault>>

\* terminate_sibling_threads marks the sibling, remove_tasks then looks for it:
Terminate(t, u) ==
    /\ u \in Killed /\ u # t /\ Runs(t, "user") /\ woken[t] = <<>>
    /\ status[u] # "Exited" /\ at[u] \in {"user", "sleep"} /\ woken[u] = <<>>
    /\ status' = [status EXCEPT ![u] = "Exited"]
    /\ victim' = [victim EXCEPT ![t] = u]
    /\ Go(t, "find")
    /\ UNCHANGED <<value, waitVars, word, expected, seen, timeVars, woken, fault>>

\* it reads the bucket of the task,
FindBucket(t) ==
    LET b == taskBucket[victim[t]] IN
    /\ Runs(t, "find")
    /\ seen' = [seen EXCEPT ![t] = b]
    /\ Go(t, IF b = NoBucket THEN "user" ELSE "remove")
    /\ victim' = [victim EXCEPT ![t] = IF b = NoBucket THEN NoThread ELSE @]
    /\ UNCHANGED <<value, waitVars, status, word, expected, timeVars, woken, fault>>

\* and removes the waiter under the lock of that bucket.
RemoveTask(t) ==
    LET u == victim[t]  b == seen[t] IN
    /\ Runs(t, "remove")
    /\ IF taskBucket[u] # b
       THEN Go(t, "find") /\ UNCHANGED <<queue, state, taskBucket, victim, fault>>
       ELSE /\ queue' = [w \in Word |-> IF Bucket[w] = b THEN Remove(queue[w], u)
                                                         ELSE queue[w]]
            /\ state' = [state EXCEPT ![u] = "cancelled"]
            /\ FaultUnless(InBucket(u, b) # {},
                           "active futex waiter was absent from its bucket")
            /\ taskBucket' = [taskBucket EXCEPT ![u] = NoBucket]
            /\ Go(t, "user")
            /\ victim' = [victim EXCEPT ![t] = NoThread]
    /\ UNCHANGED <<value, bucket, bits, status, word, expected, seen, timeVars, woken>>

-----------------------------------------------------------------------------
\* What a thread does without being asked to.
Step(t) ==
    \/ Block(t) \/ DontBlock(t) \/ LoadState(t) \/ LoadBucket(t) \/ Cleanup(t)
    \/ WakeDequeued(t) \/ HandleSignal(t) \/ FindBucket(t) \/ RemoveTask(t)
    \/ FireTimer(t) \/ (at[t] = "stored" /\ Wake(t, word[t], Cardinality(FutexThread), Bits))

Next ==
    /\ fault = "none"
    /\ \/ \E t \in FutexThread : Step(t)
       \/ \E t \in Waiter :
            \/ Expire(t) \/ Signal(t)
            \/ \E w \in Word, mask \in (SUBSET Bits) \ {{}} : BeginWait(t, w, value[w], mask)
       \/ \E t \in Waker :
            \/ \E w \in Word : UserStore(t, w) \/ \E b \in Bits : Wake(t, w, 1, {b})
            \/ \E w, v \in Word, n \in 0 .. 1 : Requeue(t, w, v, n, 1)
            \/ \E u \in Killed : Terminate(t, u)

Spec == Init /\ [][Next]_vars
Fairness == \A t \in FutexThread : WF_vars(fault = "none" /\ Step(t)) /\ WF_vars(Expire(t))

-----------------------------------------------------------------------------
\* The assertions of the waiter's life: it enters one wait at a time, the one
\* who dequeues it finds its task in this bucket, and remove_tasks finds the
\* waiter of a task that still has a bucket.
NoFault == fault = "none"

\* "A wake that runs after the user word changes must either see the queued
\* waiter or the waiter must return EAGAIN before sleeping": a waiter queued on
\* a word that has another value than it expected belongs to a thread that was
\* requeued there, or the thread that changed the word is still to wake it.
NoLostWake ==
    \A w \in Word, t \in FutexThread :
        Queued(t, w) /\ expected[t] \in 0 .. 1 /\ value[w] # expected[t]
            => \E u \in FutexThread : at[u] = "stored" /\ word[u] = w

\* A thread asleep in futex_wait that no longer queues has been dequeued by a
\* thread that has its wakeup still to make: nobody sleeps without a waker.
DequeuedIsWoken ==
    \A t \in FutexThread :
        status[t] = "Blocked" /\ state[t] # "queued"
            => \E u \in FutexThread : Contains(woken[u], t) /\ status[u] # "Exited"

\* The cleanup of a wait finds its waiter however often it is requeued.
CleanupFinds ==
    \A t \in FutexThread : state[t] = "queued" => InBucket(t, bucket[t]) # {}

\* A wait with a timeout ends, whoever wakes, requeues or signals meanwhile.
TimedWaitEnds ==
    \A t \in Timed : (at[t] = "sleep" /\ timers[t].own) ~> at[t] # "sleep" \/ status[t] = "Exited"
=============================================================================
